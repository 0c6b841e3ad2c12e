------------------------------ MODULE Interrupts ------------------------------
(***************************************************************************)
(* The interrupt controller driver (xintc.c, xintc_l.c) and, behind it,    *)
(* the timer/counter driver (xtmrctr.c, xtmrctr_intr.c) and devices with   *)
(* an input of the edge kind.                                              *)
(*                                                                         *)
(* The application calls both drivers; the dispatcher                      *)
(* XIntc_DeviceInterruptHandler() interrupts it and is not interrupted     *)
(* itself (the controller has no ILR register).  Events of the devices and *)
(* expiries of the timer come at any time.                                 *)
(*                                                                         *)
(* Inputs are named by their number, 0 having the highest priority, as in  *)
(* xparameters.h: the timer's is of the level kind, the others modelled    *)
(* are of the edge kind (KIND_OF_INTR).  The second timer of the device is *)
(* not used, and no interrupt is in fast mode (the IMR register is 0).     *)
(***************************************************************************)
EXTENDS Integers, FiniteSetsExt

CONSTANTS
    Edge,                   \* inputs of the edge kind
    Timer,                  \* the input of the timer
    MaxEvents               \* bound of the model: events and expiries

ASSUME InputsAssumption == Timer \notin Edge /\ Edge \cup {Timer} \subseteq Nat

VARIABLES
    ISR, IER,       \* the registers of the controller, as sets of inputs
    MER,            \* master enable
    HIE,            \* hardware interrupt enable, which stays set
    HandlerTable,   \* the inputs that have a handler, not the stub
    Options,        \* "single" or "all"
    TCSR,           \* the control/status register of timer 0
    halted,         \* the one-shot timer stands at its end
    pc,             \* the application, with
    arg,            \*   the input it is switching (Timer when idle)
    reg,            \*   and its copy of the IER or TCSR
    ipc,            \* the dispatcher, with
    IntrStatus,     \*   what it has still to service
    CurrentReg,     \*   and the copy of TCSR of the timer's handler
    events,         \* the number of events and expiries so far
    owed,           \* history: events since their handler was last called
    unhandled,      \* history: UnhandledInterrupts # 0
    bare,           \* history: an input without a handler was enabled
    asked,          \* history: the inputs last asked to be enabled
    undone,         \* history: inputs whose handler's switch was overwritten
    unseen          \* history: an expiry was acknowledged unseen

controller == <<ISR, IER, MER, HIE, HandlerTable, Options>>
timer == <<TCSR, halted>>
app == <<pc, arg, reg>>
dispatcher == <<ipc, IntrStatus, CurrentReg>>
history == <<owed, unhandled, bare, asked, undone, unseen>>
vars == <<controller, timer, app, dispatcher, events, history>>

Inputs == Edge \cup {Timer}

(* After XIntc_Initialize() and XTmrCtr_Initialize().                      *)
Init ==
    /\ ISR = {} /\ IER = {} /\ MER = FALSE /\ HIE = FALSE
    /\ HandlerTable = {} /\ Options = "single"
    /\ TCSR = {} /\ halted = FALSE
    /\ pc = "idle" /\ arg = Timer /\ reg = {}
    /\ ipc = "none" /\ IntrStatus = {} /\ CurrentReg = {}
    /\ events = 0
    /\ owed = {} /\ unhandled = FALSE /\ bare = FALSE
    /\ asked = {} /\ undone = {} /\ unseen = FALSE

-----------------------------------------------------------------------------
(* The hardware.                                                           *)

TimerLine == {"INT", "ENIT"} \subseteq TCSR

(* An edge sets the status bit, once the hardware inputs are enabled.      *)
Event(d) ==
    /\ HIE /\ events < MaxEvents
    /\ events' = events + 1
    /\ ISR' = ISR \cup {d}
    /\ owed' = owed \cup {d}
    /\ UNCHANGED <<IER, MER, HIE, HandlerTable, Options, timer, app, dispatcher,
                   unhandled, bare, asked, undone, unseen>>

(* The timer runs out; without auto-reload it stands at its end.           *)
Expire ==
    /\ "ENT" \in TCSR /\ "LOAD" \notin TCSR /\ ~halted /\ events < MaxEvents
    /\ events' = events + 1
    /\ TCSR' = TCSR \cup {"INT"}
    /\ halted' = ("ARHT" \notin TCSR)
    /\ owed' = owed \cup {Timer}
    /\ UNCHANGED <<controller, app, dispatcher, unhandled, bare, asked, undone, unseen>>

(* A level sets the status bit as long as it lasts.                        *)
Latch ==
    /\ HIE /\ TimerLine /\ Timer \notin ISR
    /\ ISR' = ISR \cup {Timer}
    /\ UNCHANGED <<IER, MER, HIE, HandlerTable, Options, timer, app, dispatcher,
                   events, history>>

(* A write to the TCSR.  A one in INT clears it, unless the one-shot timer *)
(* stands at its end, which a load or the auto-reload mode ends.           *)
Stays(v) == halted /\ v \cap {"LOAD", "ARHT"} = {}

WriteTCSR(v) ==
    LET stays == Stays(v)
        kept == IF "INT" \in v /\ ~stays THEN {} ELSE TCSR \cap {"INT"}
    IN  /\ halted' = stays
        /\ TCSR' = (v \ {"INT"}) \cup kept

(* Whether a write of v takes away an expiry.                              *)
Clears(v) == "INT" \in TCSR /\ "INT" \in v /\ ~Stays(v)

Pending == MER /\ ISR \cap IER # {}

-----------------------------------------------------------------------------
(* The application: it gives way to a pending interrupt.                   *)

App(from, to) ==
    /\ ipc = "none" /\ ~Pending
    /\ pc = from /\ pc' = to
    /\ UNCHANGED <<dispatcher, events>>

Start ==
    /\ App("idle", "idle")
    /\ MER' = TRUE /\ HIE' = TRUE
    /\ UNCHANGED <<ISR, IER, HandlerTable, Options, timer, arg, reg, history>>

Stop ==
    /\ App("idle", "idle")
    /\ MER' = FALSE
    /\ UNCHANGED <<ISR, IER, HIE, HandlerTable, Options, timer, arg, reg, history>>

Connect(d) ==
    /\ App("idle", "idle")
    /\ HandlerTable' = HandlerTable \cup {d}
    /\ UNCHANGED <<ISR, IER, MER, HIE, Options, timer, arg, reg, history>>

(* XIntc_Acknowledge(): what is pending is forgotten.                      *)
Acknowledge(d) ==
    /\ App("idle", "idle")
    /\ ISR' = ISR \ {d}
    /\ owed' = owed \ ({d} \ {Timer})
    /\ UNCHANGED <<IER, MER, HIE, HandlerTable, Options, timer, arg, reg,
                   unhandled, bare, asked, undone, unseen>>

SetIntrSvcOption ==
    /\ App("idle", "idle")
    /\ Options' \in {"single", "all"}
    /\ UNCHANGED <<ISR, IER, MER, HIE, HandlerTable, timer, arg, reg, history>>

(* XIntc_Enable(), XIntc_Disable() and XIntc_Disconnect() first read IER.  *)
ReadIER(d, to) ==
    /\ App("idle", to)
    /\ arg' = d /\ reg' = IER
    /\ UNCHANGED <<controller, timer, history>>

(* Mutant of Disconnect: the interrupt is not disabled first.              *)
DisconnectOnly(d) == ReadIER(d, "stub")

Enable(d) == ReadIER(d, "enable")
Disable(d) == ReadIER(d, "disable")
Disconnect(d) == ReadIER(d, "disconnect")

(* Mutant of Enabling: the other bits are not kept.                        *)
EnablingOnly(r) == {arg}

Enabling(r) == r \cup {arg}

(* The write.  What a handler switched off since the read is on again.     *)
WriteIER(v) ==
    /\ IER' = v
    /\ undone' = (undone \ {arg}) \cup (reg \ (IER \cup {arg}))
    /\ reg' = {}

EnableWrite ==
    /\ App("enable", "idle")
    /\ WriteIER(Enabling(reg))
    /\ asked' = asked \cup {arg}
    /\ bare' = (bare \/ arg \notin HandlerTable)
    /\ arg' = Timer
    /\ UNCHANGED <<ISR, MER, HIE, HandlerTable, Options, timer, owed, unhandled, unseen>>

DisableWrite ==
    /\ App("disable", "idle")
    /\ WriteIER(reg \ {arg})
    /\ asked' = asked \ {arg}
    /\ arg' = Timer
    /\ UNCHANGED <<ISR, MER, HIE, HandlerTable, Options, timer, owed, unhandled, bare, unseen>>

DisconnectWrite ==
    /\ App("disconnect", "stub")
    /\ WriteIER(reg \ {arg})
    /\ asked' = asked \ {arg}
    /\ UNCHANGED <<ISR, MER, HIE, HandlerTable, Options, timer, arg, owed, unhandled, bare, unseen>>

DisconnectStub ==
    /\ App("stub", "idle")
    /\ HandlerTable' = HandlerTable \ {arg}
    /\ arg' = Timer
    /\ UNCHANGED <<ISR, IER, MER, HIE, Options, timer, reg, history>>

(* XTmrCtr_SetOptions(): interrupt mode, with or without auto-reload.      *)
TmrSetOptions ==
    /\ App("idle", "idle")
    /\ \E o \in {{"ENIT"}, {"ENIT", "ARHT"}} : WriteTCSR(o)
    /\ UNCHANGED <<controller, arg, reg, history>>

(* XTmrCtr_Start(), XTmrCtr_Stop() and XTmrCtr_Reset() first read TCSR.    *)
ReadTCSR(to) ==
    /\ App("idle", to)
    /\ reg' = TCSR
    /\ UNCHANGED <<controller, timer, arg, history>>

TmrStart == ReadTCSR("start1")
TmrStop == ReadTCSR("stop1")
TmrReset == ReadTCSR("reset1")

AppWrites(v) ==
    /\ WriteTCSR(v)
    /\ unseen' = (unseen \/ (Clears(v) /\ Timer \in owed))
    /\ UNCHANGED <<controller, arg, owed, unhandled, bare, asked, undone>>

TmrStartLoad == App("start1", "start2") /\ AppWrites({"LOAD"}) /\ UNCHANGED reg
TmrStartRun == App("start2", "idle") /\ AppWrites(reg \cup {"ENT"}) /\ reg' = {}
TmrStopWrite == App("stop1", "idle") /\ AppWrites(reg \ {"ENT"}) /\ reg' = {}
TmrResetLoad == App("reset1", "reset2") /\ AppWrites(reg \cup {"LOAD"}) /\ UNCHANGED reg
TmrResetRun == App("reset2", "idle") /\ AppWrites(reg) /\ reg' = {}

-----------------------------------------------------------------------------
(* XIntc_DeviceInterruptHandler().                                         *)

Isr(from, to) == ipc = from /\ ipc' = to /\ UNCHANGED <<app, events>>

IMR == {}   \* XIntc_Initialize(): no interrupt is in fast mode

(* Mutant of Waiting: the fast interrupts are kept, not masked.            *)
WaitingFast == ISR \cap IER \cap IMR

Waiting == (ISR \cap IER) \ IMR

Interrupt ==
    /\ Pending
    /\ IntrStatus' = Waiting
    /\ Isr("none", IF IntrStatus' = {} THEN "none" ELSE "scan")
    /\ UNCHANGED <<controller, timer, CurrentReg, history>>

IntrNumber == Min(IntrStatus)

(* Mutant of AckBeforeService: every input is acknowledged afterwards.     *)
AckBeforeServiceNone == {}

(* xintc_g.c: KIND_OF_INTR is the configuration's AckBeforeService.        *)
AckBeforeService == Edge

AckBefore ==
    /\ IntrStatus # {}
    /\ Isr("scan", "call")
    /\ ISR' = ISR \ (AckBeforeService \cap {IntrNumber})
    /\ UNCHANGED <<IER, MER, HIE, HandlerTable, Options, timer, IntrStatus, CurrentReg, history>>

(* The handler of the device, which sees to what has happened so far and   *)
(* may switch its own input off.                                           *)
CallDevice ==
    /\ Isr("call", "ack")
    /\ IntrNumber \in HandlerTable \ {Timer}
    /\ owed' = owed \ {IntrNumber}
    /\ \E off \in SUBSET {IntrNumber} :
          IER' = IER \ off /\ asked' = asked \ off /\ undone' = undone \ off
    /\ UNCHANGED <<ISR, MER, HIE, HandlerTable, Options, timer, IntrStatus, CurrentReg,
                   unhandled, bare, unseen>>

CallTimer ==
    /\ Isr("call", "tmr")
    /\ IntrNumber \in HandlerTable \cap {Timer}
    /\ UNCHANGED <<controller, timer, IntrStatus, CurrentReg, history>>

(* StubHandler(), which sees to nothing.                                   *)
CallStub ==
    /\ Isr("call", "ack")
    /\ IntrNumber \notin HandlerTable
    /\ unhandled' = TRUE
    /\ owed' = owed \ ({IntrNumber} \ {Timer})
    /\ UNCHANGED <<controller, timer, IntrStatus, CurrentReg, bare, asked, undone, unseen>>

(* Acknowledge afterwards, and go on or leave.                             *)
AckAfter ==
    /\ ipc = "ack"
    /\ IntrStatus' = IF Options = "single" THEN {} ELSE IntrStatus \ {IntrNumber}
    /\ Isr("ack", IF IntrStatus' = {} THEN "none" ELSE "scan")
    /\ ISR' = ISR \ ({IntrNumber} \ AckBeforeService)
    /\ UNCHANGED <<IER, MER, HIE, HandlerTable, Options, timer, CurrentReg, history>>

-----------------------------------------------------------------------------
(* XTmrCtr_InterruptHandler(), for timer 0.                                *)

TmrRead ==
    /\ Isr("tmr", IF TimerLine THEN "callback" ELSE "ack")
    /\ UNCHANGED <<controller, timer, IntrStatus, CurrentReg, history>>

Callback ==
    /\ Isr("callback", "reread")
    /\ owed' = owed \ {Timer}
    /\ UNCHANGED <<controller, timer, IntrStatus, CurrentReg, unhandled, bare, asked, undone, unseen>>

OneShot(v) == "ARHT" \notin v

TmrReread ==
    /\ CurrentReg' = IF OneShot(TCSR) THEN TCSR \ {"ENT"} ELSE TCSR
    /\ Isr("reread", IF OneShot(TCSR) THEN "load" ELSE "clear")
    /\ UNCHANGED <<controller, timer, IntrStatus, history>>

(* The write-backs.  An expiry since the callback is acknowledged unseen.  *)
IsrWrites(v) ==
    /\ WriteTCSR(v)
    /\ unseen' = (unseen \/ (Clears(v) /\ Timer \in owed))
    /\ UNCHANGED <<controller, IntrStatus, owed, unhandled, bare, asked, undone>>

TmrLoad == Isr("load", "unload") /\ IsrWrites(CurrentReg \cup {"LOAD"}) /\ UNCHANGED CurrentReg
TmrUnload == Isr("unload", "clear") /\ IsrWrites(CurrentReg) /\ UNCHANGED CurrentReg
TmrClear == Isr("clear", "ack") /\ IsrWrites(CurrentReg \cup {"INT"}) /\ CurrentReg' = {}

-----------------------------------------------------------------------------
Call ==
    \/ Start \/ Stop \/ SetIntrSvcOption
    \/ \E d \in Inputs : Connect(d) \/ Acknowledge(d) \/ Enable(d) \/ Disable(d) \/ Disconnect(d)
    \/ TmrSetOptions \/ TmrStart \/ TmrStop \/ TmrReset

AppStep ==
    \/ EnableWrite \/ DisableWrite \/ DisconnectWrite \/ DisconnectStub
    \/ TmrStartLoad \/ TmrStartRun \/ TmrStopWrite \/ TmrResetLoad \/ TmrResetRun

Dispatch ==
    \/ Interrupt \/ AckBefore \/ CallDevice \/ CallTimer \/ CallStub \/ AckAfter
    \/ TmrRead \/ Callback \/ TmrReread \/ TmrLoad \/ TmrUnload \/ TmrClear

Next == Call \/ AppStep \/ Dispatch \/ Latch \/ Expire \/ \E d \in Edge : Event(d)

(* The controller signals what is pending, the dispatcher runs to its end, *)
(* and a call returns once nothing is pending any more.                    *)
Spec == Init /\ [][Next]_vars /\ WF_vars(Latch) /\ WF_vars(Dispatch) /\ WF_vars(AppStep)

-----------------------------------------------------------------------------
(* No event of an edge input is lost between the controller and its        *)
(* handler: until the handler is called after it, the event is in the      *)
(* status register, or the dispatcher is about to call.  This is what the  *)
(* acknowledge before the service is for.                                  *)
EventHeld ==
    \A d \in owed \ {Timer} :
        \/ d \in ISR
        \/ ipc = "call" /\ IntrNumber = d

(* UnhandledInterrupts stays 0 for an application that enables what it has *)
(* connected: XIntc_Disconnect() disables the input before the stub takes  *)
(* the place of its handler, and the dispatcher looks at IER.              *)
NoneUnhandled == unhandled => bare

(* The inputs enabled are those last asked for.  The one exception: the    *)
(* read, change and write of IER in a call undoes what the handler of      *)
(* another input switched off in between.                                  *)
SwitchesKept == pc = "idle" => IER = asked \cup undone

(* An event, or an expiry of the timer in interrupt mode, is served when   *)
(* its input stays enabled.  Exceptions: the timer's registers were        *)
(* rewritten by the application, the handler's last write acknowledged an  *)
(* expiry it had not seen, or a level without a handler keeps interrupting *)
(* for ever.                                                               *)
Served ==
    \A d \in Inputs :
        (d \in owed) ~> \/ d \notin owed \/ bare
                        \/ pc = "idle" /\ ~(MER /\ d \in IER)
                        \/ d = Timer /\ (unseen \/ "ENIT" \notin TCSR)
=============================================================================

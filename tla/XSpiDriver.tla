------------------------------ MODULE XSpiDriver ------------------------------
(***************************************************************************)
(* The XSpi driver (xspi.c): transfers driven by interrupts or polled, the *)
(* interrupt handler, start, stop, reset and slave selection, against the  *)
(* core of module SpiCore.                                                 *)
(*                                                                         *)
(* Two threads of control: the application, which calls the driver, and    *)
(* the handler, which interrupts it between two of its steps and runs to   *)
(* its end.  The core takes steps of its own at any time.  A call that is  *)
(* refused (XST_DEVICE_BUSY, _IS_STOPPED, _IS_STARTED) changes nothing and *)
(* is not a step.                                                          *)
(*                                                                         *)
(* Of the hardware: TX_EMPTY is raised in the interrupt status register    *)
(* when the last byte has left the shifter, and TX_HALF_EMPTY when the     *)
(* transmit FIFO falls below half, whether they are enabled or not; a one  *)
(* written to that register toggles the bit; a mode fault makes the core   *)
(* drop the byte it shifts and stand still until the status register is    *)
(* read.                                                                   *)
(***************************************************************************)
EXTENDS SpiCore, FiniteSetsExt

CONSTANTS
    Wrap,                   \* values of ByteCount: 2^32
    MaxLen, MaxTransfers,   \* bounds of the model: bytes, and transfers
    MaxEvents, MaxResets    \* bounds of the model: error events, and resets

VARIABLES
    irq,        \* IISR, IIER and DGIER: status, enable, global
    modf,       \* the core stands still because of a mode fault
    spi,        \* the XSpi instance; recv is what RecvBufferPtr has got
    pc,         \* the application: "idle" between two calls
    savedGie,   \* XSpi_Transfer(): GlobalIntrReg
    ByteCount,  \* XSpi_Transfer(): bytes still to receive, polled
    ipc,        \* the handler: "none" when it is not running
    isr,        \* its locals: IntrStatus and ControlReg
    calls,      \* number of the latest transfer
    length,     \* and its length
    report,     \* how it ended: what the status handler was told
    swallowed,  \* history: events cleared without being in the mask
    cut,        \* history: the handler aborted a core that was shifting
    hasty,      \* history: it served TX_HALF_EMPTY without TX_EMPTY
    events, resets   \* what has happened of MaxEvents and MaxResets

locals == <<savedGie, ByteCount>>
history == <<calls, length, report, swallowed, cut, hasty, events, resets>>
vars == <<coreVars, irq, modf, spi, pc, locals, ipc, isr, history>>

DefaultEvents == {"MODE_FAULT", "CMD_ERR"}   \* of XSP_INTR_DFT_MASK, those modelled
TxEvents == {"TX_EMPTY", "TX_HALF_EMPTY"}    \* on which a transfer goes on
Resetting == pc \in {"rcontrol", "rcounts", "rdevice"}

(* The length of a transfer has the type of ByteCount.                     *)
ASSUME LengthAssumption == Wrap \in Nat \ {0} /\ MaxLen \in 0 .. Wrap - 1

Report(k, n) == [kind |-> k, bytes |-> n, reset |-> Resetting]
Nothing == [kind |-> "none", bytes |-> 0, reset |-> FALSE]

Init ==
    /\ CoreReady /\ clocked = 0 /\ modf = FALSE
    /\ irq = [status |-> {}, enable |-> {}, global |-> FALSE]
    /\ spi = [IsStarted |-> FALSE, IsBusy |-> FALSE, SlaveSelectReg |-> "mask",
              RequestedBytes |-> 0, RemainingBytes |-> 0, recv |-> <<>>]
    /\ pc = "idle" /\ savedGie = FALSE /\ ByteCount = 0
    /\ ipc = "none" /\ isr = [IntrStatus |-> {}, ControlReg |-> {}]
    /\ calls = 0 /\ length = 0 /\ report = Nothing /\ swallowed = {}
    /\ cut = FALSE /\ hasty = FALSE /\ events = 0 /\ resets = 0

-----------------------------------------------------------------------------
(* Register accesses, with what each leaves alone of the core.             *)

(* Mutant of AbortMask: the FIFOs are left as they are.                    *)
AbortMaskKeeps == {"INHIBIT"}

(* What XSpi_Abort() sets in the control register (HasFifos).              *)
AbortMask == FifoResets \cup {"INHIBIT"}

SetControlReg(v) == WriteCR(v) /\ UNCHANGED <<selected, clocked>>
SetSlaveSelectReg(s) == WriteSSR(s = "slave") /\ UNCHANGED <<cr, tx, shift, rx>>

(* XSpi_IntrClear() of xspi.h writes the pending bits along with the mask. *)
IntrClear(mask) ==
    /\ irq' = [irq EXCEPT !.status = (irq.status \cup mask) \ irq.status]
    /\ swallowed' = swallowed \cup (irq.status \ mask)

(* Bytes to the DTR until TX_FULL or none is left: one step, the core      *)
(* being inhibited.  Every read of the status register ends a mode fault.  *)
Fill ==
    LET n == Min({FifoDepth - TxOccupancy, spi.RemainingBytes})
        sent == spi.RequestedBytes - spi.RemainingBytes
    IN  /\ tx' = tx \o [k \in 1..n |-> Mosi(calls, sent + k)]
        /\ spi' = [spi EXCEPT !.RemainingBytes = @ - n]
        /\ modf' = FALSE
        /\ UNCHANGED <<cr, selected, shift, rx, clocked>>

(* One byte from the DRR to the receive buffer.                            *)
Drain ==
    /\ ~RxEmpty
    /\ ReadDRR
    /\ spi' = [spi EXCEPT !.recv = Append(@, Head(rx))]
    /\ modf' = FALSE
    /\ UNCHANGED <<cr, selected, tx, shift, clocked>>

(* Mutant of Drained: the loop ends before the FIFO is empty.              *)
DrainedEarly == modf' = FALSE /\ UNCHANGED <<coreVars, spi>>

Drained == RxEmpty /\ modf' = FALSE /\ UNCHANGED <<coreVars, spi>>

-----------------------------------------------------------------------------
(* The application.  It runs when the handler does not.                    *)

App(from, to) == ipc = "none" /\ pc = from /\ pc' = to /\ UNCHANGED <<ipc, isr>>

Start ==
    /\ App("idle", "idle") /\ ~spi.IsStarted
    /\ irq' = [irq EXCEPT !.enable = @ \cup DefaultEvents, !.global = TRUE]
    /\ spi' = [spi EXCEPT !.IsStarted = TRUE]
    /\ SetControlReg(cr \cup FifoResets \cup {"ENABLE"})
    /\ UNCHANGED <<modf, locals, history>>

(* To be used polled, the interrupts are switched off after XSpi_Start().  *)
IntrGlobalDisable ==
    /\ App("idle", "idle") /\ spi.IsStarted /\ ~spi.IsBusy
    /\ irq' = [irq EXCEPT !.global = FALSE]
    /\ UNCHANGED <<coreVars, modf, spi, locals, history>>

Stop ==
    /\ App("idle", "idle") /\ ~spi.IsBusy
    /\ irq' = [irq EXCEPT !.global = FALSE]
    /\ spi' = [spi EXCEPT !.IsStarted = FALSE]
    /\ SetControlReg(cr \ {"ENABLE"})
    /\ UNCHANGED <<modf, locals, history>>

(* XSpi_SetOptions() with the master and manual slave select options.      *)
SetOptions ==
    /\ App("idle", "idle") /\ ~spi.IsBusy
    /\ SetControlReg((cr \ {"LOOPBACK"}) \cup {"MASTER", "MANUAL_SS"})
    /\ UNCHANGED <<irq, modf, spi, locals, history>>

(* XSpi_SetSlaveSelect(): 1 selects the flash, and 0 leaves all ones.      *)
SetSlaveSelect ==
    /\ App("idle", "idle") /\ ~spi.IsBusy
    /\ \E s \in {"slave", "ones"} : spi' = [spi EXCEPT !.SlaveSelectReg = s]
    /\ UNCHANGED <<coreVars, irq, modf, locals, history>>

(* XSpi_Reset(), at any time: XSpi_Abort() and the software reset.         *)
ResetSelect ==
    /\ App("idle", "rcontrol") /\ resets < MaxResets
    /\ resets' = resets + 1
    /\ SetSlaveSelectReg("mask")
    /\ UNCHANGED <<irq, modf, spi, locals, calls, length, report, swallowed, cut, hasty, events>>

ResetControl ==
    /\ App("rcontrol", "rcounts")
    /\ SetControlReg(cr \cup AbortMask)
    /\ UNCHANGED <<irq, modf, spi, locals, history>>

ResetCounts ==
    /\ App("rcounts", "rdevice")
    /\ spi' = [spi EXCEPT !.RemainingBytes = 0, !.RequestedBytes = 0]
    /\ UNCHANGED <<coreVars, irq, modf, locals, history>>

ResetDevice ==
    /\ App("rdevice", "idle")
    /\ spi' = [spi EXCEPT !.IsBusy = FALSE, !.IsStarted = FALSE,
                          !.SlaveSelectReg = "mask"]
    /\ SoftReset
    /\ modf' = FALSE /\ cut' = FALSE /\ hasty' = FALSE
    /\ irq' = [status |-> {}, enable |-> {}, global |-> FALSE]
    /\ report' = Nothing
    /\ UNCHANGED <<locals, calls, length, swallowed, events, resets>>

(* XSpi_Transfer(): started and not busy; the configuration is a master's. *)
Transfer ==
    /\ App("idle", "disable")
    /\ calls < MaxTransfers
    /\ spi.IsStarted /\ ~spi.IsBusy /\ "MASTER" \in cr
    /\ savedGie' = irq.global
    /\ UNCHANGED <<coreVars, irq, modf, spi, ByteCount, history>>

EnterCritical ==
    /\ App("disable", IF spi.SlaveSelectReg = "mask" THEN "noslave" ELSE "fill")
    /\ irq' = [irq EXCEPT !.global = FALSE]
    /\ UNCHANGED <<coreVars, modf, spi, locals, history>>

NoSlave ==
    /\ App("noslave", "idle")
    /\ irq' = [irq EXCEPT !.global = savedGie]
    /\ UNCHANGED <<coreVars, modf, spi, locals, history>>

Accept ==
    /\ App("fill", "send") /\ ~spi.IsBusy
    /\ calls' = calls + 1
    /\ \E n \in 1..MaxLen :
           /\ length' = n /\ ByteCount' = n
           /\ spi' = [spi EXCEPT !.IsBusy = TRUE, !.RequestedBytes = n,
                                 !.RemainingBytes = n, !.recv = <<>>]
    /\ report' = Nothing
    /\ UNCHANGED <<coreVars, irq, modf, savedGie, swallowed, cut, hasty, events, resets>>

Send ==
    /\ App("send", "select")
    /\ Fill
    /\ UNCHANGED <<irq, locals, history>>

Select ==
    /\ App("select", "go")
    /\ SetSlaveSelectReg(spi.SlaveSelectReg)
    /\ UNCHANGED <<irq, modf, spi, locals, history>>

Go ==
    /\ App("go", IF savedGie THEN "intr" ELSE "wait")
    /\ SetControlReg(cr \ {"INHIBIT"})
    /\ UNCHANGED <<irq, modf, spi, locals, history>>

LeaveCritical ==
    /\ App("intr", "idle")
    /\ irq' = [irq EXCEPT !.enable = @ \cup {"TX_EMPTY"}, !.global = TRUE]
    /\ UNCHANGED <<coreVars, modf, spi, locals, history>>

(* Polled: wait for TX_EMPTY, without a bound.                             *)
PollWait ==
    /\ App("wait", IF "TX_EMPTY" \in irq.status THEN "clear" ELSE "wait")
    /\ UNCHANGED <<coreVars, irq, modf, spi, locals, history>>

PollClear ==
    /\ App("clear", "inhibit")
    /\ IntrClear({"TX_EMPTY"})
    /\ UNCHANGED <<coreVars, modf, spi, locals, calls, length, report, cut, hasty, events, resets>>

PollInhibit ==
    /\ App("inhibit", "drain")
    /\ SetControlReg(cr \cup {"INHIBIT"})
    /\ UNCHANGED <<irq, modf, spi, locals, history>>

PollDrain ==
    /\ App("drain", "drain")
    /\ Drain
    /\ ByteCount' = (ByteCount - 1) % Wrap
    /\ UNCHANGED <<irq, savedGie, history>>

PollDrained ==
    /\ App("drain", IF spi.RemainingBytes > 0 THEN "refill"
                    ELSE IF ByteCount > 0 THEN "wait" ELSE "stop")
    /\ Drained
    /\ UNCHANGED <<irq, locals, history>>

PollRefill ==
    /\ App("refill", "resume")
    /\ Fill
    /\ UNCHANGED <<irq, locals, history>>

PollResume ==
    /\ App("resume", IF ByteCount > 0 THEN "wait" ELSE "stop")
    /\ SetControlReg(cr \ {"INHIBIT"})
    /\ UNCHANGED <<irq, modf, spi, locals, history>>

PollStop ==
    /\ App("stop", "deselect")
    /\ SetControlReg(cr \cup {"INHIBIT"})
    /\ UNCHANGED <<irq, modf, spi, locals, history>>

PollDone ==
    /\ App("deselect", "idle")
    /\ SetSlaveSelectReg("mask")
    /\ spi' = [spi EXCEPT !.IsBusy = FALSE]
    /\ report' = Report("DONE", length)
    /\ UNCHANGED <<irq, modf, locals, calls, length, swallowed, cut, hasty, events, resets>>

-----------------------------------------------------------------------------
(* XSpi_InterruptHandler().                                                *)

Isr(from, to) == ipc = from /\ ipc' = to /\ UNCHANGED <<pc, locals>>

Interrupt ==
    /\ irq.global /\ irq.enable \cap irq.status # {}
    /\ Isr("none", "clear")
    /\ isr' = [isr EXCEPT !.IntrStatus = irq.status]
    /\ UNCHANGED <<coreVars, irq, modf, spi, history>>

(* The events read before are cleared, and the first to be served chosen.  *)
(* They are read whether enabled or not: TX_HALF_EMPTY, which the driver   *)
(* never enables, is served when the handler was entered for another.      *)
IsrClear ==
    LET served == isr.IntrStatus \cap TxEvents
        fault == "MODE_FAULT" \in isr.IntrStatus
    IN  /\ Isr("clear", IF fault THEN "abortselect"
                        ELSE IF served # {} THEN "inhibit" ELSE "rest")
        /\ IntrClear(isr.IntrStatus)
        /\ hasty' = (hasty \/ (~fault /\ served = {"TX_HALF_EMPTY"}))
        /\ UNCHANGED <<coreVars, modf, spi, isr, calls, length, report, cut, events, resets>>

IsrAbortSelect ==
    /\ Isr("abortselect", "abortcontrol")
    /\ SetSlaveSelectReg("mask")
    /\ UNCHANGED <<irq, modf, spi, isr, history>>

(* The rest of XSpi_Abort(), the status read and the report; return.       *)
IsrAbort ==
    /\ Isr("abortcontrol", "none")
    /\ SetControlReg(cr \cup AbortMask)
    /\ spi' = [spi EXCEPT !.RemainingBytes = 0, !.RequestedBytes = 0,
                          !.IsBusy = FALSE]
    /\ modf' = FALSE
    /\ cut' = (cut \/ shift # NoByte \/ irq.status \cap TxEvents # {})
    /\ report' = IF spi.IsBusy THEN Report("MODE_FAULT", 0) ELSE report
    /\ UNCHANGED <<irq, isr, calls, length, swallowed, hasty, events, resets>>

IsrInhibit ==
    /\ Isr("inhibit", "drain")
    /\ isr' = [isr EXCEPT !.ControlReg = cr]
    /\ SetControlReg(cr \cup {"INHIBIT"})
    /\ UNCHANGED <<irq, modf, spi, history>>

IsrDrain ==
    /\ Isr("drain", "drain")
    /\ Drain
    /\ UNCHANGED <<irq, isr, history>>

IsrDrained ==
    /\ Isr("drain", IF spi.RemainingBytes > 0 THEN "refill" ELSE "deselect")
    /\ Drained
    /\ UNCHANGED <<irq, isr, history>>

IsrRefill ==
    /\ Isr("refill", "resume")
    /\ Fill
    /\ UNCHANGED <<irq, isr, history>>


IsrResume ==
    /\ Isr("resume", "rest")
    /\ SetControlReg(isr.ControlReg)
    /\ UNCHANGED <<irq, modf, spi, isr, history>>

IsrDeselect ==
    /\ Isr("deselect", "done")
    /\ SetSlaveSelectReg("mask")
    /\ UNCHANGED <<irq, modf, spi, isr, history>>

IsrDone ==
    /\ Isr("done", "rest")
    /\ irq' = [irq EXCEPT !.enable = @ \ {"TX_EMPTY"}]
    /\ spi' = [spi EXCEPT !.IsBusy = FALSE]
    /\ report' = Report("DONE", spi.RequestedBytes)
    /\ UNCHANGED <<coreVars, modf, isr, calls, length, swallowed, cut, hasty, events, resets>>

(* The other events are only passed on to the status handler.              *)
IsrRest ==
    /\ Isr("rest", "none")
    /\ UNCHANGED <<coreVars, irq, modf, spi, isr, history>>

-----------------------------------------------------------------------------
(* The core.                                                               *)

Raise(e) == irq' = [irq EXCEPT !.status = @ \cup {e}]

CoreShiftStart ==
    /\ ~modf /\ ShiftStart
    /\ IF Len(tx) = FifoDepth \div 2 THEN Raise("TX_HALF_EMPTY") ELSE UNCHANGED irq
    /\ UNCHANGED <<modf, spi, pc, locals, ipc, isr, history>>

CoreShiftDone ==
    /\ ~modf /\ ShiftDone
    /\ IF tx = <<>> THEN Raise("TX_EMPTY") ELSE UNCHANGED irq
    /\ UNCHANGED <<modf, spi, pc, locals, ipc, isr, history>>

ErrorEvent ==
    /\ events < MaxEvents /\ {"ENABLE", "MASTER"} \subseteq cr
    /\ events' = events + 1
    /\ UNCHANGED <<cr, selected, tx, rx, clocked, spi, pc, locals, ipc, isr,
                   calls, length, report, swallowed, cut, hasty, resets>>

ModeFault ==
    /\ ErrorEvent
    /\ Raise("MODE_FAULT")
    /\ modf' = TRUE
    /\ shift' = NoByte

(* A command the core does not know, reported when its byte is shifted.    *)
CmdErr ==
    /\ ErrorEvent
    /\ shift # NoByte
    /\ Raise("CMD_ERR")
    /\ UNCHANGED <<modf, shift>>

-----------------------------------------------------------------------------
Application ==
    \/ Transfer \/ EnterCritical \/ NoSlave \/ Accept \/ Send \/ Select \/ Go
    \/ LeaveCritical
    \/ PollWait \/ PollClear \/ PollInhibit \/ PollDrain \/ PollDrained
    \/ PollRefill \/ PollResume \/ PollStop \/ PollDone
    \/ ResetControl \/ ResetCounts \/ ResetDevice

Requests ==
    \/ Start \/ Stop \/ IntrGlobalDisable \/ SetOptions \/ SetSlaveSelect
    \/ ResetSelect

Handler ==
    \/ Interrupt \/ IsrClear \/ IsrAbortSelect \/ IsrAbort \/ IsrInhibit
    \/ IsrDrain \/ IsrDrained \/ IsrRefill \/ IsrResume \/ IsrDeselect
    \/ IsrDone \/ IsrRest

Core == CoreShiftStart \/ CoreShiftDone

Next == Application \/ Requests \/ Handler \/ Core \/ ModeFault \/ CmdErr

(* Calls go on, the interrupt is taken, the handler runs, the core shifts. *)
Fairness ==
    /\ WF_vars(pc # "idle" /\ Application)
    /\ WF_vars(Handler)
    /\ WF_vars(Core)

Spec == Init /\ [][Next]_vars /\ Fairness

-----------------------------------------------------------------------------
(* A transfer reported as done was received completely: the receive buffer *)
(* holds the answers to its bytes in order, in either mode.  Not so if the *)
(* handler interrupts XSpi_Reset(), which has reset the FIFOs but not yet  *)
(* the busy flag: it then reports a transfer as done whose bytes are lost. *)
(* Nor once the handler, entered for an error, has found TX_HALF_EMPTY     *)
(* pending without TX_EMPTY (xspi.c:1151): it goes on as if a transmission *)
(* were over, and reports a transfer as done with bytes still in the FIFO, *)
(* or refills the FIFO beyond what the receive FIFO can take.              *)
DoneMeansDelivered ==
    report.kind = "DONE" /\ ~report.reset /\ ~cut /\ ~hasty =>
        /\ report.bytes = length
        /\ \E sel \in BOOLEAN : spi.recv =
               [k \in 1..length |-> Miso(Mosi(calls, k), IF sel THEN k ELSE 0)]

(* Between transfers nothing is left that would be taken for a part of the *)
(* next one: no byte in the core, no event waiting that the handler would  *)
(* serve, the transmitter inhibited and the flash not selected.  The       *)
(* exceptions are a mode fault whose condition a status read has ended     *)
(* before the handler aborts the transfer, which may then cut a byte, and  *)
(* TX_HALF_EMPTY served alone, as above.                                   *)
QuietBetweenTransfers ==
    /\ ~spi.IsBusy /\ ipc = "none" /\ ~cut /\ ~hasty
    /\ pc \in {"idle", "disable", "noslave", "fill"}
    => /\ tx = <<>> /\ shift = NoByte /\ rx = <<>>
       /\ irq.status \cap TxEvents = {}
       /\ "INHIBIT" \in cr /\ ~selected

=============================================================================

--------------------------- MODULE XSpiDriver_proofs ---------------------------
(***************************************************************************)
(* Proofs about the XSpi driver, for every FIFO depth, length, number of   *)
(* transfers, error events and resets.                                     *)
(***************************************************************************)
EXTENDS XSpiDriver, TLAPS

(* The places of the application with interrupts off, those of them before *)
(* the busy flag is set, and the places of the handler serving TX_EMPTY.   *)
Critical == {"noslave", "fill", "send", "select", "go", "intr", "wait", "clear",
             "inhibit", "drain", "refill", "resume", "stop", "deselect"}
Before == {"disable", "noslave", "fill"}
Serving == {"inhibit", "drain", "refill", "resume", "deselect", "done"}

Types ==
    /\ DOMAIN spi = {"IsStarted", "IsBusy", "SlaveSelectReg", "RequestedBytes",
                     "RemainingBytes", "recv"}
    /\ DOMAIN irq = {"status", "enable", "global"}
    /\ DOMAIN isr = {"IntrStatus", "ControlReg"}
    /\ cr \cap FifoResets = {} /\ isr.ControlReg \cap FifoResets = {}
    /\ calls \in Nat /\ clocked \in Nat
    /\ pc \in Critical \cup {"idle", "disable", "rcontrol", "rcounts", "rdevice"}
    /\ ipc \in Serving \cup {"none", "clear", "abortselect", "abortcontrol", "rest"}

(* What the places say of the busy flag and of the interrupts.             *)
Control ==
    /\ pc \in Critical => ~irq.global /\ ipc = "none"
    /\ pc \in Before => ~spi.IsBusy /\ spi.IsStarted
    /\ pc \in Critical \ Before => spi.IsBusy
    /\ spi.IsBusy => spi.IsStarted
    /\ report.kind = "DONE" => ~spi.IsBusy
    /\ ipc = "clear" => isr.IntrStatus \subseteq irq.status

(* The transmitter has nothing to send, or does not move.                  *)
Empty == tx = <<>> /\ shift = NoByte
Still == "INHIBIT" \in cr /\ shift = NoByte /\ "TX_EMPTY" \notin irq.status

(* No transfer: the core is as QuietBetweenTransfers has it, and the       *)
(* handler has no TX_EMPTY to serve.                                       *)
Free ==
    ~spi.IsBusy => /\ Empty /\ Still /\ rx = <<>> /\ ~selected
                   /\ ipc \notin Serving
                   /\ ipc = "clear" => "TX_EMPTY" \notin isr.IntrStatus

(* TX_EMPTY means what it says until it is served, and where the handler   *)
(* or the application is tells what it has made of the core.               *)
Stage ==
    /\ "TX_EMPTY" \in irq.status => Empty
    /\ ipc = "clear" /\ "TX_EMPTY" \in isr.IntrStatus => Empty
    /\ pc = "clear" => "TX_EMPTY" \in irq.status
    /\ ipc = "inhibit" \/ pc \in {"inhibit", "stop"}
          => Empty /\ "TX_EMPTY" \notin irq.status
    /\ ipc \in {"drain", "refill", "deselect", "done"}
             \/ pc \in {"send", "drain", "refill", "deselect"}
          => Empty /\ Still
    /\ ipc = "resume" \/ pc \in {"select", "go", "resume"} => Still
    /\ ipc \in {"refill", "deselect", "done"}
             \/ pc \in {"send", "select", "go", "refill", "stop", "deselect"}
          => rx = <<>>
    /\ ipc \in {"abortcontrol", "done"} \/ pc \in {"send", "select"} => ~selected

(* A mode fault has made the core drop a byte: it stands still, and nobody *)
(* who could let it go on is anywhere near.                                *)
Lost ==
    /\ modf /\ shift = NoByte /\ "TX_EMPTY" \notin irq.status
    /\ ipc \in {"none", "clear", "abortselect", "rest"}
    /\ ipc = "clear" => "TX_EMPTY" \notin isr.IntrStatus
    /\ pc \in {"idle", "intr", "wait"}

(* Where the bytes of the transfer are: received, in the receive FIFO, in  *)
(* the shifter, in the transmit FIFO, in this order, or still to be sent.  *)
Answer(c, k, s) == Miso(Mosi(c, k), IF s = "slave" THEN k ELSE 0)
Got == Len(spi.recv)

Content ==
    /\ spi.recv \in Seq(Byte) /\ rx \in Seq(Byte) /\ tx \in Seq(Byte)
    /\ shift \in Byte /\ clocked \in Nat
    /\ \A k \in 1 .. Got : spi.recv[k] = Answer(calls, k, spi.SlaveSelectReg)
    /\ \A j \in 1 .. Len(rx) : rx[j] = Answer(calls, Got + j, spi.SlaveSelectReg)
    /\ shift # NoByte => shift = Mosi(calls, Got + Len(rx) + 1)
    /\ \A j \in 1 .. Len(tx) : tx[j] = Mosi(calls, Got + Len(rx) + InShifter + j)
    /\ Len(rx) + InShifter + Len(tx) <= FifoDepth
    /\ Got + Len(rx) + InShifter + Len(tx) = length - spi.RemainingBytes
    /\ selected => clocked = Got + Len(rx)

(* What the counters of the driver say of them.                            *)
Amounts ==
    /\ spi.RequestedBytes = length /\ length \in 1 .. MaxLen
    /\ spi.RemainingBytes \in 0 .. length
    /\ ipc = "refill" \/ pc = "refill" => spi.RemainingBytes > 0
    /\ ipc \in {"deselect", "done"} \/ pc \in {"stop", "deselect"}
          => spi.RemainingBytes = 0
    /\ pc = "resume" => tx # <<>>
    /\ pc \in {"send", "select", "go"} => spi.recv = <<>>
    /\ pc = "send" => spi.RemainingBytes = length
    /\ pc \in Critical \ {"intr"} => ByteCount = length - Got
    /\ pc \notin {"send", "select"} /\ ipc # "done"
          => (selected <=> spi.SlaveSelectReg = "slave")

(* A transfer that is not being aborted or reset is all there, or lost.    *)
Whole ==
    spi.IsBusy /\ ~Resetting /\ ipc # "abortcontrol" => Lost \/ (Content /\ Amounts)

(* TX_HALF_EMPTY is cleared with TX_EMPTY, and not raised again as long as *)
(* the transmitter has nothing to send or does not move.                   *)
Resting ==
    \/ ~spi.IsBusy \/ ipc \in Serving
    \/ pc \in {"send", "select", "go", "inhibit", "drain", "refill", "resume", "stop",
               "deselect"}
Half == Resting => "TX_HALF_EMPTY" \notin irq.status

(* The inductive invariant; nothing is claimed of the core once the        *)
(* handler has cut a byte or served TX_HALF_EMPTY alone, until the device  *)
(* is reset.                                                               *)
Body == Free /\ Stage /\ Half /\ Whole /\ DoneMeansDelivered
IInv == Types /\ Control /\ (~cut /\ ~hasty => Body)

-----------------------------------------------------------------------------
(* The core raises at most TX_HALF_EMPTY when it takes a byte.             *)
LEMMA StartRaises ==
    ASSUME Types, CoreShiftStart
    PROVE  /\ DOMAIN irq' = DOMAIN irq /\ irq'.global = irq.global
           /\ irq.status \subseteq irq'.status
           /\ "TX_EMPTY" \in irq'.status => "TX_EMPTY" \in irq.status
<1>1. CASE Len(tx) = FifoDepth \div 2
  BY <1>1, SMTT(30) DEF Types, CoreShiftStart, Raise
<1>2. CASE Len(tx) # FifoDepth \div 2
  BY <1>2, Zenon DEF CoreShiftStart
<1> QED
  BY <1>1, <1>2, Zenon

(* Unless it serves TX_HALF_EMPTY alone, the handler serves TX_EMPTY.      *)
LEMMA ServesEmpty ==
    ASSUME IsrClear, ~hasty'
    PROVE  /\ ~hasty /\ ipc = "clear" /\ ipc' \in {"abortselect", "inhibit", "rest"}
           /\ ipc' = "inhibit" => "TX_EMPTY" \in isr.IntrStatus
<1> DEFINE served == isr.IntrStatus \cap TxEvents
           fault == "MODE_FAULT" \in isr.IntrStatus
<1>1. /\ hasty' = (hasty \/ (~fault /\ served = {"TX_HALF_EMPTY"})) /\ ipc = "clear"
      /\ ipc' = IF fault THEN "abortselect" ELSE IF served # {} THEN "inhibit" ELSE "rest"
  BY Zenon DEF IsrClear, Isr
<1>2. served # {} /\ "TX_EMPTY" \notin isr.IntrStatus => served = {"TX_HALF_EMPTY"}
  BY Zenon DEF TxEvents
<1> HIDE DEF served, fault
<1> QED
  BY <1>1, <1>2, Zenon

(* It clears every event pending.                                          *)
LEMMA ClearsAll ==
    ASSUME Types, Control, IsrClear
    PROVE  irq'.status = {}
<1>1. isr.IntrStatus \subseteq irq.status
  BY Zenon DEF Control, IsrClear, Isr
<1> QED
  BY <1>1, SMTT(30) DEF Types, IsrClear, IntrClear

(* An abort that cuts nothing leaves no event of a transmission.           *)
LEMMA AbortCuts ==
    ASSUME IsrAbort, ~cut'
    PROVE  /\ ~cut /\ shift = NoByte
           /\ "TX_EMPTY" \notin irq.status /\ "TX_HALF_EMPTY" \notin irq.status
  BY Zenon DEF IsrAbort, TxEvents

(* Every step keeps the types and what the places say.                     *)
LEMMA ControlStep == Types /\ Control /\ [Next]_vars => Types' /\ Control'
<1> SUFFICES ASSUME Types, Control, [Next]_vars PROVE Types' /\ Control'
  OBVIOUS
<1> USE DEF Critical, Before, Serving
<1>1. CASE Transfer
  <2>1. Types'
    BY <1>1, Zenon DEF Types, Transfer, App, coreVars, history
  <2>2. Control'
    BY <1>1, Zenon DEF Control, Transfer, App
  <2> QED
    BY <2>1, <2>2, Zenon
<1>2. CASE EnterCritical
  <2>1. Types'
    BY <1>2, Zenon DEF Types, EnterCritical, App, coreVars, history
  <2>2. Control'
    BY <1>2, SMTT(30) DEF Control, EnterCritical, App
  <2> QED
    BY <2>1, <2>2, Zenon
<1>3. CASE NoSlave
  <2>1. Types'
    BY <1>3, Zenon DEF Types, NoSlave, App, coreVars, history
  <2>2. Control'
    BY <1>3, Zenon DEF Control, NoSlave, App
  <2> QED
    BY <2>1, <2>2, Zenon
<1>4. CASE Accept
  <2>1. Types'
    BY <1>4, SMTT(30) DEF Types, Accept, App, coreVars
  <2>2. Control'
    BY <1>4, SMTT(30) DEF Control, Accept, App, Nothing
  <2> QED
    BY <2>1, <2>2, Zenon
<1>5. CASE Send
  <2>1. Types'
    BY <1>5, Zenon DEF Types, Send, App, Fill, history
  <2>2. Control'
    BY <1>5, SMTT(30) DEF Control, Send, App, Fill, history
  <2> QED
    BY <2>1, <2>2, Zenon
<1>6. CASE Select
  <2>1. Types'
    BY <1>6, Zenon DEF Types, Select, App, SetSlaveSelectReg, history, WriteSSR
  <2>2. Control'
    BY <1>6, Zenon DEF Control, Select, App, history
  <2> QED
    BY <2>1, <2>2, Zenon
<1>7. CASE Go
  <2>1. Types'
    BY <1>7, Zenon DEF Types, Go, App, SetControlReg, history, WriteCR
  <2>2. Control'
    BY <1>7, Zenon DEF Control, Go, App, history
  <2> QED
    BY <2>1, <2>2, Zenon
<1>8. CASE LeaveCritical
  <2>1. Types'
    BY <1>8, Zenon DEF Types, LeaveCritical, App, coreVars, history
  <2>2. Control'
    BY <1>8, Zenon DEF Control, LeaveCritical, App, history
  <2> QED
    BY <2>1, <2>2, Zenon
<1>9. CASE PollWait
  <2>1. Types'
    BY <1>9, Zenon DEF Types, PollWait, App, coreVars, history
  <2>2. Control'
    BY <1>9, Zenon DEF Control, PollWait, App, history
  <2> QED
    BY <2>1, <2>2, Zenon
<1>10. CASE PollClear
  <2>1. Types'
    BY <1>10, Zenon DEF Types, PollClear, App, IntrClear, coreVars
  <2>2. Control'
    BY <1>10, SMTT(30) DEF Control, PollClear, App, IntrClear
  <2> QED
    BY <2>1, <2>2, Zenon
<1>11. CASE PollInhibit
  <2>1. Types'
    BY <1>11, Zenon DEF Types, PollInhibit, App, SetControlReg, history, WriteCR
  <2>2. Control'
    BY <1>11, Zenon DEF Control, PollInhibit, App, history
  <2> QED
    BY <2>1, <2>2, Zenon
<1>12. CASE PollDrain
  <2>1. Types'
    BY <1>12, Zenon DEF Types, PollDrain, App, Drain, history
  <2>2. Control'
    BY <1>12, SMTT(30) DEF Control, PollDrain, App, Drain, history
  <2> QED
    BY <2>1, <2>2, Zenon
<1>13. CASE PollDrained
  <2>1. Types'
    BY <1>13, Zenon DEF Types, PollDrained, App, Drained, history, coreVars
  <2>2. Control'
    BY <1>13, Zenon DEF Control, PollDrained, App, Drained, history
  <2> QED
    BY <2>1, <2>2, Zenon
<1>14. CASE PollRefill
  <2>1. Types'
    BY <1>14, Zenon DEF Types, PollRefill, App, Fill, history
  <2>2. Control'
    BY <1>14, SMTT(30) DEF Control, PollRefill, App, Fill, history
  <2> QED
    BY <2>1, <2>2, Zenon
<1>15. CASE PollResume
  <2>1. Types'
    BY <1>15, Zenon DEF Types, PollResume, App, SetControlReg, history, WriteCR
  <2>2. Control'
    BY <1>15, Zenon DEF Control, PollResume, App, history
  <2> QED
    BY <2>1, <2>2, Zenon
<1>16. CASE PollStop
  <2>1. Types'
    BY <1>16, Zenon DEF Types, PollStop, App, SetControlReg, history, WriteCR
  <2>2. Control'
    BY <1>16, Zenon DEF Control, PollStop, App, history
  <2> QED
    BY <2>1, <2>2, Zenon
<1>17. CASE PollDone
  <2>1. Types'
    BY <1>17, Zenon DEF Types, PollDone, App, SetSlaveSelectReg, WriteSSR
  <2>2. Control'
    BY <1>17, SMTT(30) DEF Control, PollDone, App
  <2> QED
    BY <2>1, <2>2, Zenon
<1>18. CASE ResetControl
  <2>1. Types'
    BY <1>18, Zenon DEF Types, ResetControl, App, SetControlReg, history, WriteCR
  <2>2. Control'
    BY <1>18, Zenon DEF Control, ResetControl, App, history
  <2> QED
    BY <2>1, <2>2, Zenon
<1>19. CASE ResetCounts
  <2>1. Types'
    BY <1>19, Zenon DEF Types, ResetCounts, App, coreVars, history
  <2>2. Control'
    BY <1>19, SMTT(30) DEF Control, ResetCounts, App, history
  <2> QED
    BY <2>1, <2>2, Zenon
<1>20. CASE ResetDevice
  <2>1. Types'
    BY <1>20, Zenon DEF Types, ResetDevice, App, SoftReset, FifoResets
  <2>2. Control'
    BY <1>20, SMTT(30) DEF Control, ResetDevice, App
  <2> QED
    BY <2>1, <2>2, Zenon
<1>21. CASE Start
  <2>1. Types'
    BY <1>21, Zenon DEF Types, Start, App, SetControlReg, history, WriteCR
  <2>2. Control'
    BY <1>21, SMTT(30) DEF Control, Start, App
  <2> QED
    BY <2>1, <2>2, Zenon
<1>22. CASE Stop
  <2>1. Types'
    BY <1>22, Zenon DEF Types, Stop, App, SetControlReg, history, WriteCR
  <2>2. Control'
    BY <1>22, SMTT(30) DEF Control, Stop, App
  <2> QED
    BY <2>1, <2>2, Zenon
<1>23. CASE IntrGlobalDisable
  <2>1. Types'
    BY <1>23, Zenon DEF Types, IntrGlobalDisable, App, coreVars, history
  <2>2. Control'
    BY <1>23, Zenon DEF Control, IntrGlobalDisable, App
  <2> QED
    BY <2>1, <2>2, Zenon
<1>24. CASE SetOptions
  <2>1. Types'
    BY <1>24, Zenon DEF Types, SetOptions, App, SetControlReg, history, WriteCR
  <2>2. Control'
    BY <1>24, Zenon DEF Control, SetOptions, App
  <2> QED
    BY <2>1, <2>2, Zenon
<1>25. CASE SetSlaveSelect
  <2>1. Types'
    BY <1>25, Zenon DEF Types, SetSlaveSelect, App, coreVars, history
  <2>2. Control'
    BY <1>25, SMTT(30) DEF Control, SetSlaveSelect, App
  <2> QED
    BY <2>1, <2>2, Zenon
<1>26. CASE ResetSelect
  <2>1. Types'
    BY <1>26, Zenon DEF Types, ResetSelect, App, SetSlaveSelectReg, WriteSSR
  <2>2. Control'
    BY <1>26, Zenon DEF Control, ResetSelect, App
  <2> QED
    BY <2>1, <2>2, Zenon
<1>27. CASE Interrupt
  <2>1. Types'
    BY <1>27, Zenon DEF Types, Interrupt, Isr, coreVars, history
  <2>2. Control'
    BY <1>27, SMTT(30) DEF Control, Interrupt, Isr, history
  <2> QED
    BY <2>1, <2>2, Zenon
<1>28. CASE IsrClear
  <2>1. Types'
    BY <1>28, Zenon DEF Types, IsrClear, Isr, IntrClear, coreVars
  <2>2. Control'
    BY <1>28, Zenon DEF Control, IsrClear, Isr
  <2> QED
    BY <2>1, <2>2, Zenon
<1>29. CASE IsrAbortSelect
  <2>1. Types'
    BY <1>29, Zenon DEF Types, IsrAbortSelect, Isr, SetSlaveSelectReg, history,
       WriteSSR
  <2>2. Control'
    BY <1>29, Zenon DEF Control, IsrAbortSelect, Isr, history
  <2> QED
    BY <2>1, <2>2, Zenon
<1>30. CASE IsrAbort
  <2>1. Types'
    BY <1>30, Zenon DEF Types, IsrAbort, Isr, SetControlReg, WriteCR
  <2>2. Control'
    BY <1>30, SMTT(30) DEF Control, IsrAbort, Isr
  <2> QED
    BY <2>1, <2>2, Zenon
<1>31. CASE IsrInhibit
  <2>1. Types'
    BY <1>31, Zenon DEF Types, IsrInhibit, Isr, SetControlReg, history, WriteCR
  <2>2. Control'
    BY <1>31, Zenon DEF Control, IsrInhibit, Isr, history
  <2> QED
    BY <2>1, <2>2, Zenon
<1>32. CASE IsrDrain
  <2>1. Types'
    BY <1>32, Zenon DEF Types, IsrDrain, Isr, Drain, history
  <2>2. Control'
    BY <1>32, SMTT(30) DEF Control, IsrDrain, Isr, Drain, history
  <2> QED
    BY <2>1, <2>2, Zenon
<1>33. CASE IsrDrained
  <2>1. Types'
    BY <1>33, Zenon DEF Types, IsrDrained, Isr, Drained, history, coreVars
  <2>2. Control'
    BY <1>33, Zenon DEF Control, IsrDrained, Isr, Drained, history
  <2> QED
    BY <2>1, <2>2, Zenon
<1>34. CASE IsrRefill
  <2>1. Types'
    BY <1>34, Zenon DEF Types, IsrRefill, Isr, Fill, history
  <2>2. Control'
    BY <1>34, SMTT(30) DEF Control, IsrRefill, Isr, Fill, history
  <2> QED
    BY <2>1, <2>2, Zenon
<1>35. CASE IsrResume
  <2>1. Types'
    BY <1>35, Zenon DEF Types, IsrResume, Isr, SetControlReg, history, WriteCR
  <2>2. Control'
    BY <1>35, Zenon DEF Control, IsrResume, Isr, history
  <2> QED
    BY <2>1, <2>2, Zenon
<1>36. CASE IsrDeselect
  <2>1. Types'
    BY <1>36, Zenon DEF Types, IsrDeselect, Isr, SetSlaveSelectReg, history,
       WriteSSR
  <2>2. Control'
    BY <1>36, Zenon DEF Control, IsrDeselect, Isr, history
  <2> QED
    BY <2>1, <2>2, Zenon
<1>37. CASE IsrDone
  <2>1. Types'
    BY <1>37, Zenon DEF Types, IsrDone, Isr, coreVars
  <2>2. Control'
    BY <1>37, SMTT(30) DEF Control, IsrDone, Isr
  <2> QED
    BY <2>1, <2>2, Zenon
<1>38. CASE IsrRest
  <2>1. Types'
    BY <1>38, Zenon DEF Types, IsrRest, Isr, coreVars, history
  <2>2. Control'
    BY <1>38, Zenon DEF Control, IsrRest, Isr, history
  <2> QED
    BY <2>1, <2>2, Zenon
<1>39. CASE CoreShiftStart
  <2>1. Types'
    BY <1>39, StartRaises, Zenon DEF Types, CoreShiftStart, ShiftStart, history
  <2>2. Control'
    BY <1>39, StartRaises, Zenon DEF Control, CoreShiftStart, history
  <2> QED
    BY <2>1, <2>2, Zenon
<1>40. CASE CoreShiftDone
  <2>1. Types'
    BY <1>40, SMTT(30) DEF Types, CoreShiftDone, ShiftDone, Raise, history
  <2>2. Control'
    BY <1>40, SMTT(30) DEF Types, Control, CoreShiftDone, Raise, history
  <2> QED
    BY <2>1, <2>2, Zenon
<1>41. CASE ModeFault
  <2>1. Types'
    BY <1>41, Zenon DEF Types, ModeFault, ErrorEvent, Raise
  <2>2. Control'
    BY <1>41, SMTT(30) DEF Control, ModeFault, ErrorEvent, Raise
  <2> QED
    BY <2>1, <2>2, Zenon
<1>42. CASE CmdErr
  <2>1. Types'
    BY <1>42, Zenon DEF Types, CmdErr, ErrorEvent, Raise
  <2>2. Control'
    BY <1>42, SMTT(30) DEF Control, CmdErr, ErrorEvent, Raise
  <2> QED
    BY <2>1, <2>2, Zenon
<1>43. CASE UNCHANGED vars
  BY <1>43, Zenon DEF vars, coreVars, history, Types, Control
<1> QED
  BY <1>1, <1>2, <1>3, <1>4, <1>5, <1>6, <1>7, <1>8, <1>9, <1>10, <1>11, <1>12,
     <1>13, <1>14, <1>15, <1>16, <1>17, <1>18, <1>19, <1>20, <1>21, <1>22, <1>23,
     <1>24, <1>25, <1>26, <1>27, <1>28, <1>29, <1>30, <1>31, <1>32, <1>33, <1>34,
     <1>35, <1>36, <1>37, <1>38, <1>39, <1>40, <1>41, <1>42, <1>43, ZenonT(30) DEF Next,
     Application, Requests, Handler, Core

-----------------------------------------------------------------------------
(* What the steps do to the bytes of a transfer.                           *)

(* The bytes of a transfer are not the placeholder of an empty shifter.    *)
LEMMA MosiIsAByte ==
    ASSUME NEW c \in Nat, NEW k \in Nat
    PROVE  Mosi(c, k) \in Byte /\ (k # 0 => Mosi(c, k) # NoByte)
  BY Zenon DEF Mosi, Byte, NoByte

(* The answers of the flash are bytes.                                     *)
LEMMA MisoIsAByte ==
    ASSUME NEW b \in Byte, NEW n \in Nat
    PROVE  Miso(b, n) \in Byte
  BY Zenon DEF Miso, Byte

(* The byte that stands for an empty shift register is a byte.             *)
LEMMA NoByteIsAByte == NoByte \in Byte
  BY MosiIsAByte, Zenon DEF NoByte

(* The minimum the driver takes of two counts.                             *)
LEMMA MinOfTwo ==
    ASSUME NEW a \in Int, NEW b \in Int
    PROVE  Min({a, b}) = IF a <= b THEN a ELSE b
  BY DEF Min

(* The arithmetic of a transfer that has not begun.                        *)
LEMMA Zeros ==
    ASSUME NEW n \in Nat
    PROVE  n = n - 0 /\ 0 + 0 + 0 + 0 = n - n /\ 0 + 0 + 0 <= FifoDepth /\ 1 .. 0 = {}
  BY CoreAssumption

(* A transfer of which no byte is sent yet.                                *)
LEMMA NothingYet ==
    ASSUME tx' = <<>>, rx' = <<>>, shift' = NoByte, spi'.recv = <<>>, ~selected',
           clocked' \in Nat, length' \in Nat, spi'.RemainingBytes = length'
    PROVE  Content'
<1>1. Got' = 0 /\ InShifter' = 0 /\ Len(rx') = 0 /\ Len(tx') = 0
  BY Zenon DEF Got, InShifter
<1>2. spi'.recv \in Seq(Byte) /\ rx' \in Seq(Byte) /\ tx' \in Seq(Byte)
  OBVIOUS
<1>3. /\ 0 + 0 + 0 + 0 = length' - spi'.RemainingBytes
      /\ 0 + 0 + 0 <= FifoDepth /\ 1 .. 0 = {}
  BY Zeros, ZenonT(30)
<1> QED
  BY <1>1, <1>2, <1>3, NoByteIsAByte, ZenonT(30) DEF Content

(* How many bytes are where.                                               *)
LEMMA Counts ==
    ASSUME Content
    PROVE  /\ Got \in Nat /\ Len(rx) \in Nat /\ Len(tx) \in Nat /\ InShifter \in {0, 1}
           /\ tx # <<>> => Len(tx) >= 1
           /\ Got + Len(rx) + InShifter + Len(tx) = length - spi.RemainingBytes
           /\ Empty /\ rx = <<>> => Got = length - spi.RemainingBytes
<1>1. Got \in Nat /\ Len(rx) \in Nat /\ Len(tx) \in Nat /\ (tx # <<>> => Len(tx) >= 1)
  BY DEF Content, Got
<1>2. InShifter \in {0, 1} /\ (shift = NoByte => InShifter = 0)
  BY Zenon DEF InShifter
<1>3. Got + Len(rx) + InShifter + Len(tx) = length - spi.RemainingBytes
  BY Zenon DEF Content
<1>4. Empty /\ rx = <<>> => Len(rx) = 0 /\ InShifter = 0 /\ Len(tx) = 0
  BY <1>2, Zenon DEF Empty
<1> QED
  BY <1>1, <1>2, <1>3, <1>4

(* A step that moves no byte.                                              *)
LEMMA ContentSame ==
    ASSUME Content, UNCHANGED <<tx, shift, rx, clocked, calls, length>>,
           spi'.recv = spi.recv, spi'.SlaveSelectReg = spi.SlaveSelectReg,
           spi'.RemainingBytes = spi.RemainingBytes, selected' => selected
    PROVE  Content'
<1>1. Got' = Got /\ InShifter' = InShifter
  BY Zenon DEF Got, InShifter
<1> QED
  BY <1>1, Zenon DEF Content

(* The core takes the next byte into its shifter.                          *)
LEMMA ShiftStartContent ==
    ASSUME Content, ShiftStart, calls \in Nat, UNCHANGED <<spi, calls, length>>
    PROVE  Content'
<1>1. /\ shift = NoByte /\ tx # <<>> /\ shift' = Head(tx) /\ tx' = Tail(tx)
      /\ UNCHANGED <<selected, rx, clocked>>
  BY Zenon DEF ShiftStart
<1>2. /\ tx' \in Seq(Byte) /\ Len(tx) \in Nat /\ Len(tx) >= 1 /\ Len(tx') = Len(tx) - 1
      /\ shift' = tx[1] /\ \A j \in 1 .. Len(tx') : tx'[j] = tx[j + 1]
  BY <1>1 DEF Content
<1>3. Got' = Got /\ Got \in Nat /\ Len(rx) \in Nat /\ InShifter = 0
  BY <1>1 DEF Content, Got, InShifter
<1>4. shift' = Mosi(calls, Got + Len(rx) + 1)
  BY <1>2, <1>3 DEF Content
<1>5. shift' \in Byte /\ shift' # NoByte
  BY <1>3, <1>4, MosiIsAByte
<1>6. InShifter' = 1
  BY <1>5, Zenon DEF InShifter
<1>7. \A j \in 1 .. Len(tx') : tx'[j] = Mosi(calls, Got + Len(rx) + 1 + j)
  <2> TAKE j \in 1 .. Len(tx')
  <2>1. j + 1 \in 1 .. Len(tx) /\ Got + Len(rx) + 0 + (j + 1) = Got + Len(rx) + 1 + j
    BY <1>2, <1>3
  <2> QED
    BY <1>2, <1>3, <2>1, ZenonT(30) DEF Content
<1>8. /\ Len(rx) + InShifter' + Len(tx') <= FifoDepth
      /\ Got + Len(rx) + InShifter' + Len(tx') = length - spi.RemainingBytes
  <2>1. /\ Len(rx) + InShifter + Len(tx) <= FifoDepth
        /\ Got + Len(rx) + InShifter + Len(tx) = length - spi.RemainingBytes
    BY Zenon DEF Content
  <2>2. InShifter' = 1 /\ InShifter = 0 /\ Len(tx') = Len(tx) - 1
    BY <1>1, <1>2, <1>3, <1>6
  <2>3. /\ Len(rx) + InShifter' + Len(tx') = Len(rx) + InShifter + Len(tx)
        /\ Got + Len(rx) + InShifter' + Len(tx') = Got + Len(rx) + InShifter + Len(tx)
    BY <1>2, <1>3, <2>2
  <2> QED
    BY <2>1, <2>3, Zenon
<1> QED
  BY <1>1, <1>2, <1>3, <1>4, <1>5, <1>6, <1>7, <1>8, ZenonT(30) DEF Content

(* The core has exchanged the byte in its shifter for the flash's answer.  *)
LEMMA ShiftDoneContent ==
    ASSUME Content, ShiftDone, calls \in Nat, UNCHANGED <<spi, calls, length>>,
           selected <=> spi.SlaveSelectReg = "slave"
    PROVE  Content'
<1> DEFINE n == Got + Len(rx) + 1
<1>1. Got' = Got /\ Got \in Nat /\ Len(rx) \in Nat /\ Len(tx) \in Nat /\ n \in Nat
  BY DEF Content, Got
<1>2. /\ shift # NoByte /\ shift' = NoByte /\ InShifter = 1 /\ InShifter' = 0
      /\ UNCHANGED <<selected, tx>>
  BY Zenon DEF ShiftDone, InShifter
<1>3. Len(rx) < FifoDepth /\ shift = Mosi(calls, n)
  BY <1>1, <1>2, CoreAssumption DEF Content
<1>4. rx' = Append(rx, Answer(calls, n, spi.SlaveSelectReg)) /\ clocked' \in Nat
      /\ (selected => clocked' = n)
  <2>1. CASE selected
    BY <1>3, SMTT(30) DEF ShiftDone, Answer, Content
  <2>2. CASE ~selected
    BY <1>1, <1>3, <2>2, CoreAssumption DEF ShiftDone, Answer, Content
  <2> QED
    BY <2>1, <2>2, Zenon
<1>5. Answer(calls, n, spi.SlaveSelectReg) \in Byte
  BY <1>1, MosiIsAByte, MisoIsAByte, ZenonT(30) DEF Answer
<1> HIDE DEF n
<1>6. /\ rx' \in Seq(Byte) /\ Len(rx') = Len(rx) + 1
      /\ \A j \in 1 .. Len(rx) : rx'[j] = rx[j]
      /\ rx'[Len(rx) + 1] = Answer(calls, n, spi.SlaveSelectReg)
  BY <1>4, <1>5 DEF Content
<1>7. \A j \in 1 .. Len(rx') : rx'[j] = Answer(calls, Got + j, spi.SlaveSelectReg)
  <2> TAKE j \in 1 .. Len(rx')
  <2>1. CASE j = Len(rx) + 1
    BY <1>1, <1>6, <2>1 DEF n
  <2>2. CASE j # Len(rx) + 1
    <3>1. j \in 1 .. Len(rx)
      BY <1>1, <1>6, <2>2
    <3> QED
      BY <1>6, <3>1, Zenon DEF Content
  <2> QED
    BY <2>1, <2>2, Zenon
<1>8. \A j \in 1 .. Len(tx) : tx[j] = Mosi(calls, Got + Len(rx') + 0 + j)
  <2> TAKE j \in 1 .. Len(tx)
  <2>1. Got + Len(rx') + 0 + j = Got + Len(rx) + 1 + j
    BY <1>1, <1>6
  <2> QED
    BY <1>2, <2>1, Zenon DEF Content
<1> QED
  BY <1>1, <1>2, <1>4, <1>6, <1>7, NoByteIsAByte, SMTT(30) DEF Content, n

(* The driver stores the oldest byte received.                             *)
LEMMA DrainContent ==
    ASSUME Content, Drain, Types, UNCHANGED <<calls, length>>
    PROVE  /\ Content' /\ Got' = Got + 1 /\ Got \in Nat /\ Len(rx) >= 1
           /\ Got < length - spi.RemainingBytes
<1>1. /\ rx # <<>> /\ rx' = Tail(rx) /\ spi'.recv = Append(spi.recv, Head(rx))
      /\ spi'.SlaveSelectReg = spi.SlaveSelectReg
      /\ spi'.RemainingBytes = spi.RemainingBytes
      /\ UNCHANGED <<selected, tx, shift, clocked>>
  BY Zenon DEF Drain, ReadDRR, RxEmpty, Types
<1>2. /\ Got \in Nat /\ Len(rx) \in Nat /\ Len(rx) >= 1 /\ Len(tx) \in Nat
      /\ InShifter \in {0, 1} /\ InShifter' = InShifter
  BY <1>1 DEF Content, Got, InShifter
<1>3. /\ rx' \in Seq(Byte) /\ Len(rx') = Len(rx) - 1 /\ Head(rx) = rx[1] /\ rx[1] \in Byte
      /\ \A j \in 1 .. Len(rx') : rx'[j] = rx[j + 1]
  BY <1>1 DEF Content
<1>4. /\ spi'.recv \in Seq(Byte) /\ Got' = Got + 1 /\ spi'.recv[Got + 1] = rx[1]
      /\ \A k \in 1 .. Got : spi'.recv[k] = spi.recv[k]
  BY <1>1, <1>2, <1>3 DEF Content, Got
<1>5. \A k \in 1 .. Got' : spi'.recv[k] = Answer(calls, k, spi.SlaveSelectReg)
  <2> TAKE k \in 1 .. Got'
  <2>1. CASE k = Got + 1
    BY <1>2, <1>4, <2>1 DEF Content
  <2>2. CASE k # Got + 1
    <3>1. k \in 1 .. Got
      BY <1>2, <1>4, <2>2
    <3> QED
      BY <1>4, <3>1, Zenon DEF Content
  <2> QED
    BY <2>1, <2>2, Zenon
<1>6. \A j \in 1 .. Len(rx') : rx'[j] = Answer(calls, Got' + j, spi.SlaveSelectReg)
  <2> TAKE j \in 1 .. Len(rx')
  <2>1. j + 1 \in 1 .. Len(rx) /\ Got + (j + 1) = Got' + j
    BY <1>2, <1>3, <1>4
  <2> QED
    BY <1>3, <2>1, Zenon DEF Content
<1>7. Got' + Len(rx') = Got + Len(rx)
  BY <1>2, <1>3, <1>4
<1>8. Got < length - spi.RemainingBytes
  BY <1>2 DEF Content
<1>9. Len(rx') + InShifter + Len(tx) <= FifoDepth
  BY <1>2, <1>3, CoreAssumption DEF Content
<1> QED
  BY <1>1, <1>2, <1>3, <1>4, <1>5, <1>6, <1>7, <1>8, <1>9, ZenonT(30) DEF Content

(* The driver fills the transmit FIFO of a core that has nothing left.     *)
LEMMA FillContent ==
    ASSUME Content, Fill, Types, Empty, rx = <<>>, spi.RemainingBytes \in Nat,
           UNCHANGED <<calls, length>>, spi.RequestedBytes = length, length \in Nat
    PROVE  /\ Content' /\ Got' = Got
           /\ spi'.RemainingBytes \in 0 .. spi.RemainingBytes
           /\ spi.RemainingBytes > 0 => tx' # <<>>
<1> DEFINE n == Min({FifoDepth - TxOccupancy, spi.RemainingBytes})
           sent == spi.RequestedBytes - spi.RemainingBytes
           new == [k \in 1 .. n |-> Mosi(calls, sent + k)]
<1>1. /\ TxOccupancy = 0 /\ InShifter = 0 /\ Len(tx) = 0 /\ Len(rx) = 0
      /\ Got \in Nat /\ sent = Got /\ length - spi.RemainingBytes = Got
  BY SMTT(30) DEF Empty, TxOccupancy, InShifter, Content, Got
<1>2. n \in Nat /\ n <= FifoDepth /\ n <= spi.RemainingBytes
      /\ (spi.RemainingBytes > 0 => n > 0)
  BY <1>1, CoreAssumption, MinOfTwo, SMTT(30)
<1>3. /\ tx' = tx \o new /\ spi'.RemainingBytes = spi.RemainingBytes - n
      /\ spi'.recv = spi.recv /\ spi'.SlaveSelectReg = spi.SlaveSelectReg
      /\ UNCHANGED <<selected, shift, rx, clocked>>
  BY Zenon DEF Fill, Types
<1> HIDE DEF n
<1>4. \A k \in 1 .. n : Mosi(calls, sent + k) \in Byte
  BY <1>1, <1>2, MosiIsAByte DEF Types
<1>5. new \in Seq(Byte) /\ Len(new) = n
  BY <1>2, <1>4
<1>6. tx' = new
  BY <1>3, <1>5 DEF Empty
<1>7. \A j \in 1 .. Len(tx') : tx'[j] = Mosi(calls, Got + Len(rx) + 0 + j)
  BY <1>1, <1>2, <1>5, <1>6
<1>8. Got' = Got /\ InShifter' = 0
  BY <1>1, <1>3, Zenon DEF Got, InShifter
<1> HIDE DEF new, sent
<1>9. /\ Len(rx) + 0 + Len(tx') <= FifoDepth
      /\ Got + Len(rx) + 0 + Len(tx') = length - spi'.RemainingBytes
  BY <1>1, <1>2, <1>3, <1>5, <1>6, SMTT(30)
<1>10. Content'
  BY <1>1, <1>3, <1>5, <1>6, <1>7, <1>8, <1>9, Zenon DEF Content
<1>11. spi.RemainingBytes > 0 => tx' # <<>>
  BY <1>2, <1>5, <1>6, SMTT(30)
<1> QED
  BY <1>2, <1>3, <1>8, <1>10, <1>11

-----------------------------------------------------------------------------
(* The steps by who takes them; Handler is the driver's.                   *)
Sending ==
    \/ Transfer \/ EnterCritical \/ NoSlave \/ Accept \/ Send \/ Select \/ Go
    \/ LeaveCritical
Polling ==
    \/ PollWait \/ PollClear \/ PollInhibit \/ PollDrain \/ PollDrained
    \/ PollRefill \/ PollResume \/ PollStop \/ PollDone
Resets == ResetControl \/ ResetCounts \/ ResetDevice \/ Requests
Events == Core \/ ModeFault \/ CmdErr \/ UNCHANGED vars

(* There are no other steps.                                               *)
LEMMA Parts ==
    ASSUME [Next]_vars
    PROVE  Sending \/ Polling \/ Resets \/ Handler \/ Events
  BY ZenonT(30) DEF Next, Application, Sending, Polling, Resets, Events

(* The core at its places: a call begins a transfer.                       *)
LEMMA StageSending ==
    ASSUME IInv, [Next]_vars, ~cut', ~hasty', Sending
    PROVE  Free' /\ Stage'
<1> USE DEF Critical, Before, Serving, Empty, Still
<1>0. Types /\ Control /\ Types' /\ Control' /\ (~cut /\ ~hasty => Free /\ Stage /\ Whole)
  BY ControlStep, Zenon DEF IInv, Body
<1>1. CASE Transfer
  <2>1. Free'
    BY <1>0, <1>1, Zenon DEF Free, Transfer, App, coreVars, history
  <2>2. Stage'
    BY <1>0, <1>1, Zenon DEF Stage, Transfer, App, coreVars, history
  <2> QED
    BY <2>1, <2>2, Zenon
<1>2. CASE EnterCritical
  <2>1. Free'
    BY <1>0, <1>2, SMTT(30) DEF Free, EnterCritical, App, coreVars, history
  <2>2. Stage'
    BY <1>0, <1>2, SMTT(30) DEF Stage, EnterCritical, App, coreVars, history
  <2> QED
    BY <2>1, <2>2, Zenon
<1>3. CASE NoSlave
  <2>1. Free'
    BY <1>0, <1>3, SMTT(30) DEF Free, NoSlave, App, coreVars, history
  <2>2. Stage'
    BY <1>0, <1>3, SMTT(30) DEF Stage, NoSlave, App, coreVars, history
  <2> QED
    BY <2>1, <2>2, Zenon
<1>4. CASE Accept
  <2>1. Free'
    BY <1>4, SMTT(30) DEF Free, Accept
  <2>2. Stage'
    BY <1>0, <1>4, Zenon DEF Free, Stage, Accept, App, coreVars
  <2> QED
    BY <2>1, <2>2, Zenon
<1>5. CASE Send
  <2>1. Free'
    BY <1>0, <1>5, Zenon DEF Control, Free, Send, App
  <2>2. Stage'
    BY <1>0, <1>5, Zenon DEF Stage, Send, App, Fill, history
  <2> QED
    BY <2>1, <2>2, Zenon
<1>6. CASE Select
  <2>1. Free'
    BY <1>0, <1>6, Zenon DEF Control, Free, Select, App
  <2>2. Stage'
    BY <1>0, <1>6, Zenon DEF Stage, Select, App, SetSlaveSelectReg, history
  <2> QED
    BY <2>1, <2>2, Zenon
<1>7. CASE Go
  <2>1. Free'
    BY <1>0, <1>7, Zenon DEF Control, Free, Go, App
  <2>2. Stage'
    BY <1>0, <1>7, Zenon DEF Stage, Go, App, history
  <2> QED
    BY <2>1, <2>2, Zenon
<1>8. CASE LeaveCritical
  <2>1. Free'
    BY <1>0, <1>8, SMTT(30) DEF Free, LeaveCritical, App, coreVars, history
  <2>2. Stage'
    BY <1>0, <1>8, SMTT(30) DEF Stage, LeaveCritical, App, coreVars, history
  <2> QED
    BY <2>1, <2>2, Zenon
<1> QED
  BY <1>1, <1>2, <1>3, <1>4, <1>5, <1>6, <1>7, <1>8, ZenonT(30) DEF Sending

(* The core at its places: a polled transfer goes on.                      *)
LEMMA StagePolling ==
    ASSUME IInv, [Next]_vars, ~cut', ~hasty', Polling
    PROVE  Free' /\ Stage'
<1> USE DEF Critical, Before, Serving, Empty, Still
<1>0. Types /\ Control /\ Types' /\ Control' /\ (~cut /\ ~hasty => Free /\ Stage /\ Whole)
  BY ControlStep, Zenon DEF IInv, Body
<1>1. CASE PollWait
  <2>1. Free'
    BY <1>0, <1>1, Zenon DEF Free, PollWait, App, coreVars, history
  <2>2. Stage'
    BY <1>0, <1>1, Zenon DEF Stage, PollWait, App, coreVars, history
  <2> QED
    BY <2>1, <2>2, Zenon
<1>2. CASE PollClear
  <2>1. Free'
    BY <1>0, <1>2, Zenon DEF Free, Stage, PollClear, App
  <2>2. Stage'
    BY <1>0, <1>2, SMTT(30) DEF Stage, PollClear, App, IntrClear, coreVars
  <2> QED
    BY <2>1, <2>2, Zenon
<1>3. CASE PollInhibit
  <2>1. Free'
    BY <1>0, <1>3, Zenon DEF Free, PollInhibit, App, SetControlReg, history,
       WriteCR, FifoResets
  <2>2. Stage'
    BY <1>0, <1>3, Zenon DEF Stage, PollInhibit, App, SetControlReg, history,
       WriteCR, FifoResets
  <2> QED
    BY <2>1, <2>2, Zenon
<1>4. CASE PollDrain
  <2>1. Free'
    BY <1>0, <1>4, SMTT(30) DEF Free, PollDrain, Drain, history, RxEmpty
  <2>2. Stage'
    BY <1>0, <1>4, Zenon DEF Stage, PollDrain, App, Drain, history
  <2> QED
    BY <2>1, <2>2, Zenon
<1>5. CASE PollDrained
  <2>1. Free'
    BY <1>0, <1>5, Zenon DEF Free, PollDrained, App, Drained, history, coreVars
  <2>2. Stage'
    BY <1>0, <1>5, Zenon DEF Stage, PollDrained, App, Drained, history, RxEmpty,
       coreVars
  <2> QED
    BY <2>1, <2>2, Zenon
<1>6. CASE PollRefill
  <2>1. Free'
    BY <1>0, <1>6, Zenon DEF Control, Free, PollRefill, App
  <2>2. Stage'
    BY <1>0, <1>6, Zenon DEF Stage, PollRefill, App, Fill, history
  <2> QED
    BY <2>1, <2>2, Zenon
<1>7. CASE PollResume
  <2>0. ~cut /\ ~hasty /\ ByteCount > 0
    <3>1. ~cut /\ ~hasty /\ ~Lost /\ spi.IsBusy /\ ~Resetting /\ ipc # "abortcontrol"
      BY <1>0, <1>7, Zenon DEF Control, Lost, Resetting, PollResume, App, history
    <3>2. Content /\ Amounts /\ pc = "resume"
      BY <1>0, <1>7, <3>1, Zenon DEF Whole, PollResume, App
    <3>3. length - ByteCount = Got /\ ByteCount = length - Got /\ length \in Nat
          /\ spi.RemainingBytes \in Nat /\ Len(tx) >= 1
      BY <3>2, Counts, LengthAssumption DEF Amounts
    <3>4. /\ Got \in Nat /\ Len(rx) \in Nat /\ Len(tx) \in Nat /\ InShifter \in {0, 1}
          /\ Got + Len(rx) + InShifter + Len(tx) = length - spi.RemainingBytes
      BY <3>2, Counts, Zenon
    <3>5. ByteCount > 0
      BY <3>3, <3>4
    <3> QED
      BY <3>1, <3>5, Zenon
  <2>1. Free'
    BY <1>0, <1>7, Zenon DEF Control, Free, PollResume, App
  <2>2. Stage'
    BY <1>0, <1>7, <2>0, Zenon DEF Stage, PollResume, App
  <2> QED
    BY <2>1, <2>2, Zenon
<1>8. CASE PollStop
  <2>1. Free'
    BY <1>0, <1>8, Zenon DEF Free, PollStop, App, SetControlReg, history, WriteCR,
       FifoResets
  <2>2. Stage'
    BY <1>0, <1>8, Zenon DEF Stage, PollStop, App, SetControlReg, history, WriteCR,
       FifoResets
  <2> QED
    BY <2>1, <2>2, Zenon
<1>9. CASE PollDone
  <2>1. Free'
    BY <1>0, <1>9, ZenonT(30) DEF Types, Control, Free, Stage, PollDone, App,
       SetSlaveSelectReg, Report, locals, WriteSSR, Resetting
  <2>2. Stage'
    BY <1>0, <1>9, Zenon DEF Stage, PollDone, App
  <2> QED
    BY <2>1, <2>2, Zenon
<1> QED
  BY <1>1, <1>2, <1>3, <1>4, <1>5, <1>6, <1>7, <1>8, <1>9, ZenonT(30) DEF Polling

(* The core at its places: a reset or a request.                           *)
LEMMA StageRequests ==
    ASSUME IInv, [Next]_vars, ~cut', ~hasty', Resets
    PROVE  Free' /\ Stage'
<1> USE DEF Critical, Before, Serving, Empty, Still
<1>0. Types /\ Control /\ Types' /\ Control' /\ (~cut /\ ~hasty => Free /\ Stage /\ Whole)
  BY ControlStep, Zenon DEF IInv, Body
<1>1. CASE ResetControl
  <2>1. Free'
    BY <1>0, <1>1, Zenon DEF Free, ResetControl, App, SetControlReg, history,
       WriteCR, FifoResets
  <2>2. Stage'
    BY <1>0, <1>1, Zenon DEF Stage, ResetControl, App, SetControlReg, history,
       WriteCR
  <2> QED
    BY <2>1, <2>2, Zenon
<1>2. CASE ResetCounts
  <2>1. Free'
    BY <1>0, <1>2, SMTT(30) DEF Free, ResetCounts, App, coreVars, history
  <2>2. Stage'
    BY <1>0, <1>2, Zenon DEF Stage, ResetCounts, App, coreVars, history
  <2> QED
    BY <2>1, <2>2, Zenon
<1>3. CASE ResetDevice
  <2>1. Free'
    BY <1>3, Zenon DEF Free, ResetDevice, App, SoftReset
  <2>2. Stage'
    BY <1>3, Zenon DEF Stage, ResetDevice, App
  <2> QED
    BY <2>1, <2>2, Zenon
<1>4. CASE Start
  <2>1. Free'
    BY <1>0, <1>4, SMTT(30) DEF Free, Start, App, SetControlReg, FifoResets,
       history, WriteCR
  <2>2. Stage'
    BY <1>0, <1>4, SMTT(30) DEF Stage, Start, App, SetControlReg, history, WriteCR
  <2> QED
    BY <2>1, <2>2, Zenon
<1>5. CASE Stop
  <2>1. Free'
    BY <1>0, <1>5, SMTT(30) DEF Free, Stop, App, SetControlReg, history, WriteCR,
       FifoResets
  <2>2. Stage'
    BY <1>0, <1>5, SMTT(30) DEF Stage, Stop, App, SetControlReg, history, WriteCR
  <2> QED
    BY <2>1, <2>2, Zenon
<1>6. CASE IntrGlobalDisable
  <2>1. Free'
    BY <1>0, <1>6, SMTT(30) DEF Free, IntrGlobalDisable, App, coreVars, history
  <2>2. Stage'
    BY <1>0, <1>6, SMTT(30) DEF Stage, IntrGlobalDisable, App, coreVars, history
  <2> QED
    BY <2>1, <2>2, Zenon
<1>7. CASE SetOptions
  <2>1. Free'
    BY <1>0, <1>7, Zenon DEF Free, SetOptions, App, SetControlReg, history, WriteCR,
       FifoResets
  <2>2. Stage'
    BY <1>0, <1>7, Zenon DEF Stage, SetOptions, App, SetControlReg, history, WriteCR
  <2> QED
    BY <2>1, <2>2, Zenon
<1>8. CASE SetSlaveSelect
  <2>1. Free'
    BY <1>0, <1>8, Zenon DEF Free, SetSlaveSelect, App, coreVars, history
  <2>2. Stage'
    BY <1>0, <1>8, Zenon DEF Stage, SetSlaveSelect, App, coreVars, history
  <2> QED
    BY <2>1, <2>2, Zenon
<1>9. CASE ResetSelect
  <2>1. Free'
    BY <1>0, <1>9, ZenonT(30) DEF Free, ResetSelect, App, SetSlaveSelectReg, WriteSSR
  <2>2. Stage'
    BY <1>0, <1>9, Zenon DEF Stage, ResetSelect, App, SetSlaveSelectReg
  <2> QED
    BY <2>1, <2>2, Zenon
<1> QED
  BY <1>1, <1>2, <1>3, <1>4, <1>5, <1>6, <1>7, <1>8, <1>9, ZenonT(30) DEF Resets,
     Requests

(* The core at its places: the handler.                                    *)
LEMMA StageHandler ==
    ASSUME IInv, [Next]_vars, ~cut', ~hasty', Handler
    PROVE  Free' /\ Stage'
<1> USE DEF Critical, Before, Serving, Empty, Still
<1>0. Types /\ Control /\ Types' /\ Control' /\ (~cut /\ ~hasty => Free /\ Stage /\ Whole)
  BY ControlStep, Zenon DEF IInv, Body
<1>1. CASE Interrupt
  <2>1. Free'
    BY <1>0, <1>1, SMTT(30) DEF Free, Interrupt, Isr, coreVars, history
  <2>2. Stage'
    BY <1>0, <1>1, SMTT(30) DEF Stage, Interrupt, Isr, coreVars, history
  <2> QED
    BY <2>1, <2>2, Zenon
<1>2. CASE IsrClear
  <2>0. /\ ~hasty /\ ipc = "clear" /\ ipc' \in {"abortselect", "inhibit", "rest"}
        /\ ipc' = "inhibit" => "TX_EMPTY" \in isr.IntrStatus
        /\ "TX_EMPTY" \notin irq'.status
    BY <1>0, <1>2, ServesEmpty, ClearsAll, Zenon
  <2>1. Free'
    BY <1>0, <1>2, <2>0, Zenon DEF Free, IsrClear, Isr, coreVars
  <2>2. Stage'
    BY <1>0, <1>2, <2>0, Zenon DEF Control, Stage, IsrClear, Isr, coreVars
  <2> QED
    BY <2>1, <2>2, Zenon
<1>3. CASE IsrAbortSelect
  <2>1. Free'
    BY <1>0, <1>3, ZenonT(30) DEF Types, Control, Free, Stage, IsrAbortSelect, Isr,
       SetSlaveSelectReg, history, locals, WriteSSR
  <2>2. Stage'
    BY <1>0, <1>3, ZenonT(30) DEF Types, Control, Free, Stage, IsrAbortSelect, Isr,
       SetSlaveSelectReg, history, locals, WriteSSR
  <2> QED
    BY <2>1, <2>2, Zenon
<1>4. CASE IsrAbort
  <2>1. Free'
    BY <1>0, <1>4, AbortCuts, ZenonT(30) DEF Types, Control, Free, Stage, IsrAbort, Isr,
       SetControlReg, AbortMask, Report, locals, WriteCR, FifoResets, Resetting
  <2>2. Stage'
    BY <1>0, <1>4, ZenonT(30) DEF Stage, IsrAbort, Isr, SetControlReg, WriteCR,
       FifoResets
  <2> QED
    BY <2>1, <2>2, Zenon
<1>5. CASE IsrInhibit
  <2>1. Free'
    BY <1>0, <1>5, Zenon DEF Free, IsrInhibit, Isr, history
  <2>2. Stage'
    BY <1>0, <1>5, Zenon DEF Stage, IsrInhibit, Isr, SetControlReg, history,
       WriteCR, FifoResets
  <2> QED
    BY <2>1, <2>2, Zenon
<1>6. CASE IsrDrain
  <2>1. Free'
    BY <1>0, <1>6, SMTT(30) DEF Free, IsrDrain, Drain, history, RxEmpty
  <2>2. Stage'
    BY <1>0, <1>6, SMTT(30) DEF Stage, IsrDrain, Isr, Drain, history, ReadDRR
  <2> QED
    BY <2>1, <2>2, Zenon
<1>7. CASE IsrDrained
  <2>1. Free'
    BY <1>0, <1>7, Zenon DEF Free, IsrDrained, Isr, Drained, history
  <2>2. Stage'
    BY <1>0, <1>7, Zenon DEF Stage, IsrDrained, Isr, Drained, history, RxEmpty,
       coreVars
  <2> QED
    BY <2>1, <2>2, Zenon
<1>8. CASE IsrRefill
  <2>1. Free'
    BY <1>0, <1>8, SMTT(30) DEF Free, IsrRefill, Isr, Fill, history
  <2>2. Stage'
    BY <1>0, <1>8, Zenon DEF Control, Stage, IsrRefill, Isr, Fill, history
  <2> QED
    BY <2>1, <2>2, Zenon
<1>9. CASE IsrResume
  <2>1. Free'
    BY <1>0, <1>9, Zenon DEF Free, IsrResume, Isr, history
  <2>2. Stage'
    BY <1>0, <1>9, Zenon DEF Control, Stage, IsrResume, Isr, history
  <2> QED
    BY <2>1, <2>2, Zenon
<1>10. CASE IsrDeselect
  <2>1. Free'
    BY <1>0, <1>10, Zenon DEF Free, IsrDeselect, Isr, history
  <2>2. Stage'
    BY <1>0, <1>10, ZenonT(30) DEF Stage, IsrDeselect, Isr, SetSlaveSelectReg, history,
       WriteSSR
  <2> QED
    BY <2>1, <2>2, Zenon
<1>11. CASE IsrDone
  <2>1. Free'
    BY <1>0, <1>11, SMTT(30) DEF Free, Stage, IsrDone, Isr, coreVars
  <2>2. Stage'
    BY <1>0, <1>11, SMTT(30) DEF Stage, IsrDone, Isr, coreVars
  <2> QED
    BY <2>1, <2>2, Zenon
<1>12. CASE IsrRest
  <2>1. Free'
    BY <1>0, <1>12, Zenon DEF Free, IsrRest, Isr, coreVars, history
  <2>2. Stage'
    BY <1>0, <1>12, Zenon DEF Stage, IsrRest, Isr, coreVars, history
  <2> QED
    BY <2>1, <2>2, Zenon
<1> QED
  BY <1>1, <1>2, <1>3, <1>4, <1>5, <1>6, <1>7, <1>8, <1>9, <1>10, <1>11, <1>12,
     ZenonT(30) DEF Handler

(* The core at its places: the core, or nothing happens.                   *)
LEMMA StageEvents ==
    ASSUME IInv, [Next]_vars, ~cut', ~hasty', Events
    PROVE  Free' /\ Stage'
<1> USE DEF Critical, Before, Serving, Empty, Still
<1>0. Types /\ Control /\ Types' /\ Control' /\ (~cut /\ ~hasty => Free /\ Stage /\ Whole)
  BY ControlStep, Zenon DEF IInv, Body
<1>1. CASE CoreShiftStart
  <2>1. Free'
    BY <1>0, <1>1, Zenon DEF Free, CoreShiftStart, ShiftStart, history
  <2>2. Stage'
    BY <1>0, <1>1, StartRaises, Zenon DEF Stage, CoreShiftStart, ShiftStart, history
  <2> QED
    BY <2>1, <2>2, Zenon
<1>2. CASE CoreShiftDone
  <2>1. Free'
    BY <1>0, <1>2, Zenon DEF Free, CoreShiftDone, ShiftDone, history
  <2>2. Stage'
    BY <1>0, <1>2, Zenon DEF Stage, CoreShiftDone, ShiftDone, history
  <2> QED
    BY <2>1, <2>2, Zenon
<1>3. CASE ModeFault
  <2>1. Free'
    BY <1>0, <1>3, SMTT(30) DEF Free, ModeFault, ErrorEvent, Raise
  <2>2. Stage'
    BY <1>0, <1>3, SMTT(30) DEF Stage, ModeFault, ErrorEvent, Raise
  <2> QED
    BY <2>1, <2>2, Zenon
<1>4. CASE CmdErr
  <2>1. Free'
    BY <1>0, <1>4, Zenon DEF Free, CmdErr, ErrorEvent
  <2>2. Stage'
    BY <1>0, <1>4, SMTT(30) DEF Stage, CmdErr, ErrorEvent, Raise
  <2> QED
    BY <2>1, <2>2, Zenon
<1>5. CASE UNCHANGED vars
  BY <1>0, <1>5, Zenon DEF vars, coreVars, history, Free, Stage
<1> QED
  BY <1>1, <1>2, <1>3, <1>4, <1>5, ZenonT(30) DEF Events, Core

(* Every step keeps what the places say of the core.                       *)
LEMMA StageStep ==
    ASSUME IInv, [Next]_vars, ~cut', ~hasty'
    PROVE  Free' /\ Stage'
  BY Parts, StageSending, StagePolling, StageRequests, StageHandler, StageEvents,
     Zenon

-----------------------------------------------------------------------------
(* Every step that rests, or comes to rest, finds TX_HALF_EMPTY cleared.   *)
LEMMA HalfStep ==
    ASSUME IInv, [Next]_vars, ~cut', ~hasty'
    PROVE  Half'
<1> USE DEF Critical, Before, Serving, Resting
<1>0. /\ Types /\ Control /\ Types' /\ Control'
      /\ ~cut /\ ~hasty => Free /\ Stage /\ Half /\ Whole
  BY ControlStep, Zenon DEF IInv, Body
<1>1. CASE Sending
  <2>1. CASE Transfer
    BY <1>0, <2>1, Zenon DEF Half, Transfer, App, history
  <2>2. CASE EnterCritical
    BY <1>0, <2>2, Zenon DEF Types, Control, Half, EnterCritical, App, history
  <2>3. CASE NoSlave
    BY <1>0, <2>3, Zenon DEF Types, Control, Half, NoSlave, App, history
  <2>4. CASE Accept
    BY <1>0, <2>4, Zenon DEF Control, Half, Accept, App
  <2>5. CASE Send
    BY <1>0, <2>5, Zenon DEF Half, Send, App, history
  <2>6. CASE Select
    BY <1>0, <2>6, Zenon DEF Half, Select, App, history
  <2>7. CASE Go
    BY <1>0, <2>7, Zenon DEF Control, Half, Go, App, history
  <2>8. CASE LeaveCritical
    BY <1>0, <2>8, Zenon DEF Types, Control, Half, LeaveCritical, App, history
  <2> QED
    BY <1>1, <2>1, <2>2, <2>3, <2>4, <2>5, <2>6, <2>7, <2>8, Zenon DEF Sending
<1>2. CASE Polling
  <2>1. CASE PollWait
    BY <1>0, <2>1, Zenon DEF Half, PollWait, App, history
  <2>2. CASE PollClear
    BY <1>0, <2>2, Zenon DEF Types, Half, PollClear, App, IntrClear
  <2>3. CASE PollInhibit
    BY <1>0, <2>3, Zenon DEF Half, PollInhibit, App, history
  <2>4. CASE PollDrain
    BY <1>0, <2>4, Zenon DEF Half, PollDrain, App, history
  <2>5. CASE PollDrained
    BY <1>0, <2>5, Zenon DEF Half, PollDrained, App, history
  <2>6. CASE PollRefill
    BY <1>0, <2>6, Zenon DEF Half, PollRefill, App, history
  <2>7. CASE PollResume
    BY <1>0, <2>7, Zenon DEF Half, PollResume, App, history
  <2>8. CASE PollStop
    BY <1>0, <2>8, Zenon DEF Half, PollStop, App, history
  <2>9. CASE PollDone
    BY <1>0, <2>9, Zenon DEF Half, PollDone, App
  <2> QED
    BY <1>2, <2>1, <2>2, <2>3, <2>4, <2>5, <2>6, <2>7, <2>8, <2>9, Zenon DEF Polling
<1>3. CASE Resets
  <2>1. CASE ResetControl
    BY <1>0, <2>1, Zenon DEF Half, ResetControl, App, history
  <2>2. CASE ResetCounts
    BY <1>0, <2>2, Zenon DEF Types, Half, ResetCounts, App, history
  <2>3. CASE ResetDevice
    BY <2>3, Zenon DEF Half, ResetDevice
  <2>4. CASE Start
    BY <1>0, <2>4, Zenon DEF Types, Half, Start, App, history
  <2>5. CASE Stop
    BY <1>0, <2>5, Zenon DEF Types, Half, Stop, App, history
  <2>6. CASE IntrGlobalDisable
    BY <1>0, <2>6, Zenon DEF Types, Half, IntrGlobalDisable, App, history
  <2>7. CASE SetOptions
    BY <1>0, <2>7, Zenon DEF Half, SetOptions, App, history
  <2>8. CASE SetSlaveSelect
    BY <1>0, <2>8, Zenon DEF Types, Half, SetSlaveSelect, App, history
  <2>9. CASE ResetSelect
    BY <1>0, <2>9, Zenon DEF Half, ResetSelect, App
  <2> QED
    BY <1>3, <2>1, <2>2, <2>3, <2>4, <2>5, <2>6, <2>7, <2>8, <2>9, Zenon DEF Resets,
       Requests
<1>4. CASE Handler
  <2>1. CASE Interrupt
    BY <1>0, <2>1, Zenon DEF Half, Interrupt, Isr, history
  <2>2. CASE IsrClear
    BY <1>0, <2>2, ClearsAll, Zenon DEF Half
  <2>3. CASE IsrAbortSelect
    BY <1>0, <2>3, Zenon DEF Half, IsrAbortSelect, Isr, history
  <2>4. CASE IsrAbort
    BY <2>4, AbortCuts, Zenon DEF Half, IsrAbort
  <2>5. CASE IsrInhibit
    BY <1>0, <2>5, Zenon DEF Half, IsrInhibit, Isr, history
  <2>6. CASE IsrDrain
    BY <1>0, <2>6, Zenon DEF Half, IsrDrain, Isr, history
  <2>7. CASE IsrDrained
    BY <1>0, <2>7, Zenon DEF Half, IsrDrained, Isr, history
  <2>8. CASE IsrRefill
    BY <1>0, <2>8, Zenon DEF Half, IsrRefill, Isr, history
  <2>9. CASE IsrResume
    BY <1>0, <2>9, Zenon DEF Half, IsrResume, Isr, history
  <2>10. CASE IsrDeselect
    BY <1>0, <2>10, Zenon DEF Half, IsrDeselect, Isr, history
  <2>11. CASE IsrDone
    BY <1>0, <2>11, Zenon DEF Types, Half, IsrDone, Isr
  <2>12. CASE IsrRest
    BY <1>0, <2>12, Zenon DEF Half, IsrRest, Isr, history
  <2> QED
    BY <1>4, <2>1, <2>2, <2>3, <2>4, <2>5, <2>6, <2>7, <2>8, <2>9, <2>10, <2>11, <2>12,
       Zenon DEF Handler
<1>5. CASE Events
  <2>1. CASE CoreShiftStart
    <3>1. ~Resting
      BY <1>0, <2>1, Zenon DEF Free, Stage, Empty, Still, CoreShiftStart, ShiftStart,
         history
    <3> QED
      BY <2>1, <3>1, Zenon DEF Half, CoreShiftStart
  <2>2. CASE CoreShiftDone
    <3>1. "TX_HALF_EMPTY" \in irq'.status => "TX_HALF_EMPTY" \in irq.status
      <4>1. CASE tx = <<>>
        <5>1. irq' = [irq EXCEPT !.status = @ \cup {"TX_EMPTY"}]
          BY <2>2, <4>1, Zenon DEF CoreShiftDone, Raise
        <5> QED
          BY <1>0, <5>1, Zenon DEF Types
      <4>2. CASE tx # <<>>
        BY <2>2, <4>2, Zenon DEF CoreShiftDone
      <4> QED
        BY <4>1, <4>2, Zenon
    <3> QED
      BY <1>0, <2>2, <3>1, Zenon DEF Half, CoreShiftDone, history
  <2>3. CASE ModeFault
    BY <1>0, <2>3, Zenon DEF Types, Half, ModeFault, ErrorEvent, Raise
  <2>4. CASE CmdErr
    BY <1>0, <2>4, Zenon DEF Types, Half, CmdErr, ErrorEvent, Raise
  <2>5. CASE UNCHANGED vars
    BY <1>0, <2>5, Zenon DEF Half, vars, history
  <2> QED
    BY <1>5, <2>1, <2>2, <2>3, <2>4, <2>5, Zenon DEF Events, Core
<1> QED
  BY <1>1, <1>2, <1>3, <1>4, <1>5, Parts, Zenon

(* The bytes of the transfer: a call begins a transfer.                    *)
LEMMA WholeSending ==
    ASSUME IInv, [Next]_vars, ~cut', ~hasty', Sending
    PROVE  Whole'
<1> SUFFICES ASSUME spi'.IsBusy, ~Resetting', ipc' # "abortcontrol"
             PROVE  (Lost \/ (Content /\ Amounts))'
  BY Zenon DEF Whole
<1> USE DEF Critical, Before, Serving, Empty, Still
<1>0. Types /\ Control /\ Types' /\ Control' /\ (~cut /\ ~hasty => Free /\ Stage /\ Whole)
  BY ControlStep, Zenon DEF IInv, Body
<1>1. CASE Transfer
  BY <1>1, Zenon DEF Transfer
<1>2. CASE EnterCritical
  BY <1>0, <1>2, Zenon DEF Control, EnterCritical, App
<1>3. CASE NoSlave
  BY <1>0, <1>3, Zenon DEF Control, NoSlave, App
<1>4. CASE Accept
  <2>1. ~cut /\ ~hasty /\ Empty /\ rx = <<>> /\ ~selected
    BY <1>0, <1>4, Zenon DEF Free, Accept
  <2>2. /\ length' \in 1 .. MaxLen /\ ByteCount' = length' /\ calls' = calls + 1
        /\ spi'.RequestedBytes = length' /\ spi'.RemainingBytes = length'
        /\ spi'.recv = <<>> /\ UNCHANGED <<coreVars, irq, modf>>
        /\ pc' = "send" /\ ipc' = ipc /\ ipc = "none"
    BY <1>0, <1>4, Zenon DEF Types, Accept, App
  <2>3. /\ Got' = 0 /\ InShifter' = 0 /\ rx' = <<>> /\ tx' = <<>> /\ shift' = NoByte
        /\ ~selected' /\ length' \in Nat /\ clocked' = clocked
    BY <2>1, <2>2, LengthAssumption DEF Got, InShifter, coreVars
  <2>6. length' \in Nat /\ Got' = 0
    BY <2>3, ZenonT(30)
  <2>7. ByteCount' = length' - Got'
    <3>1. length' = length' - 0
      BY <2>6, Zeros, ZenonT(30)
    <3> QED
      BY <2>2, <2>6, <3>1, ZenonT(30)
  <2>4. Content'
    <3>1. clocked' \in Nat
      BY <1>0, Zenon DEF Types
    <3> QED
      BY <2>2, <2>3, <3>1, NothingYet, ZenonT(30)
  <2>5. Amounts'
    <3>1. length' \in 0 .. length' /\ length' > 0
      BY <2>2, <2>6
    <3> QED
      BY <2>2, <2>7, <3>1, LengthAssumption, Zenon DEF Amounts
  <2> QED
    BY <2>4, <2>5, Zenon
<1>5. CASE Send
  <2>0. ~cut /\ ~hasty /\ (Lost \/ (Content /\ Amounts))
    BY <1>0, <1>5, SMTT(30) DEF Whole, Resetting, Send, App, Fill, history
  <2>1. Content /\ Amounts /\ Empty /\ rx = <<>>
    BY <1>0, <1>5, <2>0, Zenon DEF Stage, Lost, Send, App
  <2>2. /\ Content' /\ Got' = Got /\ spi'.RemainingBytes \in 0 .. spi.RemainingBytes
        /\ spi.RemainingBytes > 0 => tx' # <<>>
    BY <1>0, <1>5, <2>1, FillContent DEF Amounts, Send, history
  <2>3. /\ spi'.RequestedBytes = spi.RequestedBytes /\ spi'.recv = spi.recv
        /\ spi'.SlaveSelectReg = spi.SlaveSelectReg
    BY <1>0, <1>5, Zenon DEF Types, Send, Fill
  <2>4. UNCHANGED <<selected, length, ByteCount>> /\ pc = "send" /\ pc' = "select"
        /\ ipc = "none" /\ ipc' = ipc
    BY <1>5, Zenon DEF Send, App, Fill, history, locals
  <2>5. Amounts'
    BY <2>1, <2>2, <2>3, <2>4, LengthAssumption, Zenon DEF Amounts
  <2> QED
    BY <2>2, <2>5, Zenon
<1>6. CASE Select
  <2>0. ~cut /\ ~hasty /\ (Lost \/ (Content /\ Amounts))
    BY <1>0, <1>6, Zenon DEF Whole, Resetting, Select, App, history
  <2>1. Content /\ Amounts /\ ~selected /\ rx = <<>>
    BY <1>0, <1>6, <2>0, Zenon DEF Lost, Stage, Select, App
  <2>2. selected' => clocked' = Got + Len(rx)
    <3>1. CASE spi.SlaveSelectReg = "slave"
      <4>1. clocked' = 0
        BY <1>6, <2>1, <3>1, Zenon DEF Select, SetSlaveSelectReg, WriteSSR
      <4>2. Got = 0 /\ Len(rx) = 0
        BY <1>6, <2>1, Zenon DEF Select, App, Amounts, Got
      <4> QED
        BY <4>1, <4>2
    <3>2. CASE spi.SlaveSelectReg # "slave"
      BY <1>6, <3>2, ZenonT(30) DEF Select, SetSlaveSelectReg, WriteSSR
    <3> QED
      BY <3>1, <3>2, Zenon
  <2>3. Content'
    BY <1>6, <2>1, <2>2, ZenonT(30) DEF Content, Got, InShifter, Select,
       SetSlaveSelectReg, history, WriteSSR
  <2>4. Amounts'
    BY <1>6, <2>1, ZenonT(30) DEF Amounts, Got, Select, App, SetSlaveSelectReg,
       locals, history, WriteSSR
  <2> QED
    BY <2>3, <2>4, Zenon
<1>7. CASE Go
  <2>0. ~cut /\ ~hasty /\ (Lost \/ (Content /\ Amounts))
    BY <1>0, <1>7, Zenon DEF Whole, Resetting, Go, App, history
  <2>1. Lost => Lost'
    BY <1>7, Zenon DEF Lost, Go, App
  <2>2. Content => Content'
    BY <1>0, <1>7, ContentSame, Zenon DEF Types, Stage, Go, App, SetControlReg,
       history, WriteCR, FifoResets
  <2>3. Content /\ Amounts => Amounts'
    BY <1>7, Zenon DEF Amounts, Got, Go, App, SetControlReg, locals, history
  <2> QED
    BY <2>0, <2>1, <2>2, <2>3, Zenon
<1>8. CASE LeaveCritical
  <2>0. ~cut /\ ~hasty /\ (Lost \/ (Content /\ Amounts))
    BY <1>0, <1>8, Zenon DEF Whole, Resetting, LeaveCritical, App, history
  <2>1. Lost => Lost'
    BY <1>8, SMTT(30) DEF Lost, LeaveCritical, App, coreVars
  <2>2. Content => Content'
    BY <1>8, ContentSame, ZenonT(30) DEF LeaveCritical, coreVars, history
  <2>3. Content /\ Amounts => Amounts'
    BY <1>8, Zenon DEF Amounts, LeaveCritical, App, coreVars, history
  <2> QED
    BY <2>0, <2>1, <2>2, <2>3, Zenon
<1> QED
  BY <1>1, <1>2, <1>3, <1>4, <1>5, <1>6, <1>7, <1>8, ZenonT(30) DEF Sending

(* The bytes of the transfer: a polled transfer goes on.                   *)
LEMMA WholePolling ==
    ASSUME IInv, [Next]_vars, ~cut', ~hasty', Polling
    PROVE  Whole'
<1> SUFFICES ASSUME spi'.IsBusy, ~Resetting', ipc' # "abortcontrol"
             PROVE  (Lost \/ (Content /\ Amounts))'
  BY Zenon DEF Whole
<1> USE DEF Critical, Before, Serving, Empty, Still
<1>0. Types /\ Control /\ Types' /\ Control' /\ (~cut /\ ~hasty => Free /\ Stage /\ Whole)
  BY ControlStep, Zenon DEF IInv, Body
<1>1. CASE PollWait
  <2>0. ~cut /\ ~hasty /\ (Lost \/ (Content /\ Amounts))
    BY <1>0, <1>1, Zenon DEF Whole, Resetting, PollWait, App, history
  <2>1. Lost => Lost'
    BY <1>1, Zenon DEF Lost, PollWait, App, coreVars
  <2>2. Content => Content'
    BY <1>1, ContentSame, Zenon DEF PollWait, coreVars, history
  <2>3. Content /\ Amounts => Amounts'
    BY <1>1, Zenon DEF Amounts, Got, PollWait, App, coreVars, locals, history
  <2> QED
    BY <2>0, <2>1, <2>2, <2>3, Zenon
<1>2. CASE PollClear
  <2>0. ~cut /\ ~hasty /\ (Lost \/ (Content /\ Amounts))
    BY <1>0, <1>2, Zenon DEF Whole, Resetting, PollClear, App
  <2>1. Lost => Lost'
    BY <1>2, Zenon DEF Lost, PollClear, App
  <2>2. Content => Content'
    BY <1>2, ContentSame, Zenon DEF PollClear, coreVars
  <2>3. Content /\ Amounts => Amounts'
    BY <1>2, Zenon DEF Amounts, Got, PollClear, App, coreVars, locals
  <2> QED
    BY <2>0, <2>1, <2>2, <2>3, Zenon
<1>3. CASE PollInhibit
  <2>0. ~cut /\ ~hasty /\ (Lost \/ (Content /\ Amounts))
    BY <1>0, <1>3, Zenon DEF Whole, Resetting, PollInhibit, App, history
  <2>1. Lost => Lost'
    BY <1>3, Zenon DEF Lost, PollInhibit, App
  <2>2. Content => Content'
    BY <1>0, <1>3, ContentSame, Zenon DEF Types, Stage, PollInhibit, App,
       SetControlReg, history, WriteCR, FifoResets
  <2>3. Content /\ Amounts => Amounts'
    BY <1>3, Zenon DEF Amounts, Got, PollInhibit, App, SetControlReg, locals,
       history
  <2> QED
    BY <2>0, <2>1, <2>2, <2>3, Zenon
<1>4. CASE PollDrain
  <2>0. ~cut /\ ~hasty /\ (Lost \/ (Content /\ Amounts))
    BY <1>0, <1>4, SMTT(30) DEF Whole, Resetting, PollDrain, App, Drain, history
  <2>1. Content /\ Amounts
    BY <1>4, <2>0, Zenon DEF Lost, PollDrain, App
  <2>2. /\ Content' /\ Got' = Got + 1 /\ Got \in Nat
        /\ Got < length - spi.RemainingBytes
    BY <1>0, <1>4, <2>1, DrainContent, Zenon DEF PollDrain, history
  <2>3. ByteCount' = length - Got'
    <3>1. ByteCount' = (ByteCount - 1) % Wrap
      BY <1>4, Zenon DEF PollDrain
    <3>2. ByteCount = length - Got /\ length \in 1 .. MaxLen /\ spi.RemainingBytes \in Nat
      BY <1>0, <1>4, <2>1, SMTT(30) DEF PollDrain, App, Amounts
    <3>3. ByteCount - 1 \in 0 .. Wrap - 1
      BY <2>2, <3>2, LengthAssumption
    <3>4. (ByteCount - 1) % Wrap = ByteCount - 1
      BY <3>3, LengthAssumption
    <3> QED
      BY <2>2, <3>1, <3>2, <3>4, LengthAssumption, SMTT(30)
  <2>4. /\ spi'.RequestedBytes = spi.RequestedBytes
        /\ spi'.SlaveSelectReg = spi.SlaveSelectReg
        /\ spi'.RemainingBytes = spi.RemainingBytes
        /\ UNCHANGED <<pc, ipc, selected, length>> /\ pc = "drain"
        /\ ipc = "none"
    BY <1>4, SMTT(30) DEF PollDrain, App, Drain, history
  <2>5. Amounts'
    BY <2>1, <2>2, <2>4, <2>3, ZenonT(30) DEF Amounts
  <2> QED
    BY <2>2, <2>5, Zenon
<1>5. CASE PollDrained
  <2>0. ~cut /\ ~hasty /\ (Lost \/ (Content /\ Amounts))
    BY <1>0, <1>5, Zenon DEF Whole, Resetting, PollDrained, App, Drained, history
  <2>1. Lost => Lost'
    BY <1>5, Zenon DEF Lost, PollDrained, App
  <2>2. Content => Content'
    BY <1>5, ContentSame, Zenon DEF PollDrained, Drained, history, coreVars
  <2>3. Content /\ Amounts => Amounts'
    <3> SUFFICES ASSUME Content, Amounts PROVE Amounts'
      BY Zenon
    <3>1. Got = length - spi.RemainingBytes /\ length \in Nat /\ spi.RemainingBytes \in Nat
      BY <1>0, <1>5, <2>0, Counts, SMTT(30) DEF Stage, Amounts, Drained, RxEmpty,
         PollDrained, App
    <3>2. UNCHANGED <<coreVars, spi, length, ByteCount>>
      BY <1>5, Zenon DEF PollDrained, Drained, history, locals
    <3>3. /\ pc = "drain" /\ pc' \in {"refill", "wait", "stop"} /\ ipc = "none" /\ ipc' = ipc
          /\ pc' = "refill" => spi.RemainingBytes > 0
          /\ pc' = "stop" => ~(spi.RemainingBytes > 0)
      BY <1>0, <1>5, ZenonT(30) DEF Control, PollDrained, App
    <3>4. Got' = Got /\ UNCHANGED <<selected, tx>>
      BY <3>2, Zenon DEF Got, coreVars
    <3>5. ipc' = "deselect" \/ pc' = "stop" => spi.RemainingBytes = 0
      BY <3>1, <3>3
    <3> QED
      BY <3>2, <3>3, <3>4, <3>5, ZenonT(30) DEF Amounts
  <2> QED
    BY <2>0, <2>1, <2>2, <2>3, Zenon
<1>6. CASE PollRefill
  <2>0. ~cut /\ ~hasty /\ (Lost \/ (Content /\ Amounts))
    BY <1>0, <1>6, SMTT(30) DEF Whole, Resetting, PollRefill, App, Fill, history
  <2>1. Content /\ Amounts /\ Empty /\ rx = <<>>
    BY <1>0, <1>6, <2>0, Zenon DEF Stage, Lost, PollRefill, App
  <2>2. /\ Content' /\ Got' = Got /\ spi'.RemainingBytes \in 0 .. spi.RemainingBytes
        /\ spi.RemainingBytes > 0 => tx' # <<>>
    BY <1>0, <1>6, <2>1, FillContent DEF Amounts, PollRefill, history
  <2>3. /\ spi'.RequestedBytes = spi.RequestedBytes /\ spi'.recv = spi.recv
        /\ spi'.SlaveSelectReg = spi.SlaveSelectReg
    BY <1>0, <1>6, Zenon DEF Types, PollRefill, Fill
  <2>4. UNCHANGED <<selected, length, ByteCount>> /\ pc = "refill" /\ pc' = "resume"
        /\ ipc = "none" /\ ipc' = ipc
    BY <1>6, Zenon DEF PollRefill, App, Fill, history, locals
  <2>5. Amounts'
    BY <2>1, <2>2, <2>3, <2>4, SMTT(30) DEF Amounts
  <2> QED
    BY <2>2, <2>5, Zenon
<1>7. CASE PollResume
  <2>0. ~cut /\ ~hasty /\ (Lost \/ (Content /\ Amounts))
    BY <1>0, <1>7, Zenon DEF Whole, Resetting, PollResume, App, history
  <2>1. Lost => Lost'
    BY <1>7, Zenon DEF Lost, PollResume, App
  <2>2. Content => Content'
    BY <1>0, <1>7, ContentSame, Zenon DEF Types, Stage, PollResume, App,
       SetControlReg, history, WriteCR, FifoResets
  <2>3. Content /\ Amounts => Amounts'
    <3> SUFFICES ASSUME Content, Amounts PROVE Amounts'
      BY ZenonT(30)
    <3>0. ByteCount > 0
      <4>1. pc = "resume"
        BY <1>7, ZenonT(30) DEF PollResume, App
      <4>2. /\ ByteCount = length - Got /\ tx # <<>> /\ length \in 1 .. MaxLen
            /\ spi.RemainingBytes \in 0 .. length
        BY <4>1, Zenon DEF Amounts
      <4>3. Len(tx) \in Nat /\ Len(tx) # 0 /\ Len(rx) \in Nat /\ Got \in Nat /\ InShifter \in Nat
        BY <4>2 DEF Content, Got, InShifter
      <4>4. Got + Len(rx) + InShifter + Len(tx) = length - spi.RemainingBytes
        BY Zenon DEF Content
      <4> QED
        BY <4>2, <4>3, <4>4, LengthAssumption
    <3>1. /\ UNCHANGED <<spi, length, ByteCount, selected, tx>>
          /\ pc = "resume" /\ pc' = "wait" /\ ipc' = ipc
      BY <1>0, <1>7, <3>0, Zenon DEF Types, PollResume, App, SetControlReg, locals,
         history, WriteCR, FifoResets
    <3>2. Got' = Got
      BY <3>1, ZenonT(30) DEF Got
    <3>3. pc \in Critical \ {"intr"} /\ pc' \notin {"refill", "resume", "stop", "deselect", "send", "select", "go"}
      BY <3>1, Zenon
    <3>4. ByteCount = length - Got /\ (ipc # "done" => (selected <=> spi.SlaveSelectReg = "slave"))
      BY <3>1, Zenon DEF Amounts
    <3> QED
      BY <3>1, <3>2, <3>3, <3>4, ZenonT(30) DEF Amounts
  <2> QED
    BY <2>0, <2>1, <2>2, <2>3, Zenon
<1>8. CASE PollStop
  <2>0. ~cut /\ ~hasty /\ (Lost \/ (Content /\ Amounts))
    BY <1>0, <1>8, Zenon DEF Whole, Resetting, PollStop, App, history
  <2>1. Lost => Lost'
    BY <1>8, ZenonT(30) DEF Lost, PollStop, App
  <2>2. Content => Content'
    BY <1>0, <1>8, ContentSame, Zenon DEF Stage, PollStop, App, SetControlReg,
       history, WriteCR
  <2>3. Content /\ Amounts => Amounts'
    BY <1>0, <1>8, <2>0, ZenonT(30) DEF Types, Stage, Content, Amounts, Got, InShifter,
       PollStop, App, SetControlReg, locals, history, WriteCR, FifoResets
  <2> QED
    BY <2>0, <2>1, <2>2, <2>3, Zenon
<1>9. CASE PollDone
  BY <1>9, SMTT(30) DEF PollDone
<1> QED
  BY <1>1, <1>2, <1>3, <1>4, <1>5, <1>6, <1>7, <1>8, <1>9, ZenonT(30) DEF Polling

(* The bytes of the transfer: a reset or a request.                        *)
LEMMA WholeRequests ==
    ASSUME IInv, [Next]_vars, ~cut', ~hasty', Resets
    PROVE  Whole'
<1> SUFFICES ASSUME spi'.IsBusy, ~Resetting', ipc' # "abortcontrol"
             PROVE  (Lost \/ (Content /\ Amounts))'
  BY Zenon DEF Whole
<1> USE DEF Critical, Before, Serving, Empty, Still
<1>0. Types /\ Control /\ Types' /\ Control' /\ (~cut /\ ~hasty => Free /\ Stage /\ Whole)
  BY ControlStep, Zenon DEF IInv, Body
<1>1. CASE ResetControl
  BY <1>1, Zenon DEF Resetting, ResetControl, App
<1>2. CASE ResetCounts
  BY <1>2, Zenon DEF Resetting, ResetCounts, App
<1>3. CASE ResetDevice
  BY <1>3, SMTT(30) DEF ResetDevice
<1>4. CASE Start
  BY <1>0, <1>4, SMTT(30) DEF Control, Start
<1>5. CASE Stop
  BY <1>5, SMTT(30) DEF Stop
<1>6. CASE IntrGlobalDisable
  BY <1>6, ZenonT(30) DEF IntrGlobalDisable
<1>7. CASE SetOptions
  BY <1>7, Zenon DEF SetOptions
<1>8. CASE SetSlaveSelect
  BY <1>8, SMTT(30) DEF SetSlaveSelect
<1>9. CASE ResetSelect
  BY <1>9, Zenon DEF Resetting, ResetSelect, App
<1> QED
  BY <1>1, <1>2, <1>3, <1>4, <1>5, <1>6, <1>7, <1>8, <1>9, ZenonT(30) DEF Resets,
     Requests

(* The bytes of the transfer: the handler.                                 *)
LEMMA WholeHandler ==
    ASSUME IInv, [Next]_vars, ~cut', ~hasty', Handler
    PROVE  Whole'
<1> SUFFICES ASSUME spi'.IsBusy, ~Resetting', ipc' # "abortcontrol"
             PROVE  (Lost \/ (Content /\ Amounts))'
  BY Zenon DEF Whole
<1> USE DEF Critical, Before, Serving, Empty, Still
<1>0. Types /\ Control /\ Types' /\ Control' /\ (~cut /\ ~hasty => Free /\ Stage /\ Whole)
  BY ControlStep, Zenon DEF IInv, Body
<1>1. CASE Interrupt
  <2>0. ~cut /\ ~hasty /\ (Lost \/ (Content /\ Amounts))
    BY <1>0, <1>1, Zenon DEF Whole, Resetting, Interrupt, Isr, history
  <2>1. Lost => Lost'
    BY <1>1, SMTT(30) DEF Lost, Interrupt, Isr, coreVars
  <2>2. Content => Content'
    BY <1>1, ContentSame, Zenon DEF Interrupt, coreVars, history
  <2>3. Content /\ Amounts => Amounts'
    BY <1>1, Zenon DEF Amounts, Got, Interrupt, Isr, coreVars, history, locals
  <2> QED
    BY <2>0, <2>1, <2>2, <2>3, Zenon
<1>2. CASE IsrClear
  <2>0. ~cut /\ ~hasty /\ (Lost \/ (Content /\ Amounts))
    BY <1>0, <1>2, Zenon DEF Whole, Resetting, IsrClear, Isr
  <2>1. Lost => Lost'
    BY <1>0, <1>2, ServesEmpty, ClearsAll, Zenon DEF Lost, IsrClear, Isr, coreVars
  <2>2. Content => Content'
    BY <1>2, ContentSame, Zenon DEF IsrClear, coreVars
  <2>3. Content /\ Amounts => Amounts'
    BY <1>2, Zenon DEF Amounts, Got, IsrClear, Isr, coreVars, locals
  <2> QED
    BY <2>0, <2>1, <2>2, <2>3, Zenon
<1>3. CASE IsrAbortSelect
  BY <1>3, Zenon DEF IsrAbortSelect, Isr
<1>4. CASE IsrAbort
  BY <1>4, SMTT(30) DEF IsrAbort
<1>5. CASE IsrInhibit
  <2>0. ~cut /\ ~hasty /\ (Lost \/ (Content /\ Amounts))
    BY <1>0, <1>5, Zenon DEF Whole, Resetting, IsrInhibit, Isr, history
  <2>1. Lost => Lost'
    BY <1>5, Zenon DEF Lost, IsrInhibit, Isr
  <2>2. Content => Content'
    BY <1>0, <1>5, ContentSame, Zenon DEF Types, Stage, IsrInhibit, Isr,
       SetControlReg, history, WriteCR, FifoResets
  <2>3. Content /\ Amounts => Amounts'
    BY <1>0, <1>5, Zenon DEF Stage, Amounts, Got, IsrInhibit, Isr, SetControlReg,
       history, locals
  <2> QED
    BY <2>0, <2>1, <2>2, <2>3, Zenon
<1>6. CASE IsrDrain
  <2>0. ~cut /\ ~hasty /\ (Lost \/ (Content /\ Amounts))
    BY <1>0, <1>6, SMTT(30) DEF Whole, Resetting, IsrDrain, Isr, Drain, history
  <2>1. Content /\ Amounts
    BY <1>0, <1>6, <2>0, Zenon DEF Lost, IsrDrain, Isr
  <2>2. /\ Content' /\ Got' = Got + 1 /\ Got \in Nat
        /\ Got < length - spi.RemainingBytes
    BY <1>0, <1>6, <2>1, DrainContent, Zenon DEF IsrDrain, history
  <2>4. /\ spi'.RequestedBytes = spi.RequestedBytes
        /\ spi'.SlaveSelectReg = spi.SlaveSelectReg
        /\ spi'.RemainingBytes = spi.RemainingBytes
        /\ UNCHANGED <<pc, ipc, selected, length>> /\ ipc = "drain"
        /\ pc \notin Critical
    BY <1>0, <1>6, SMTT(30) DEF Control, IsrDrain, Isr, Drain, history
  <2>5. Amounts'
    BY <2>1, <2>4, Zenon DEF Amounts
  <2> QED
    BY <2>2, <2>5, Zenon
<1>7. CASE IsrDrained
  <2>0. ~cut /\ ~hasty /\ (Lost \/ (Content /\ Amounts))
    BY <1>0, <1>7, Zenon DEF Whole, Resetting, IsrDrained, Isr, Drained, history
  <2>1. Lost => Lost'
    BY <1>7, Zenon DEF Lost, IsrDrained, Isr
  <2>2. Content => Content'
    BY <1>7, ContentSame, ZenonT(30) DEF IsrDrained, Drained, history, coreVars
  <2>3. Content /\ Amounts => Amounts'
    <3> SUFFICES ASSUME Content, Amounts PROVE Amounts'
      OBVIOUS
    <3>1. Got = length - spi.RemainingBytes /\ length \in Nat /\ spi.RemainingBytes \in Nat
      BY <1>0, <1>7, <2>0, Counts, SMTT(30) DEF Stage, Amounts, Drained, RxEmpty,
         IsrDrained, Isr
    <3>2. UNCHANGED <<coreVars, spi, length, ByteCount>>
      BY <1>7, Zenon DEF IsrDrained, Isr, Drained, history, locals
    <3>3. /\ ipc = "drain" /\ ipc' \in {"refill", "deselect"} /\ pc \notin Critical /\ pc' = pc
          /\ ipc' = "refill" => spi.RemainingBytes > 0
          /\ ipc' = "deselect" => ~(spi.RemainingBytes > 0)
      BY <1>0, <1>7, Zenon DEF Control, IsrDrained, Isr
    <3>4. Got' = Got /\ UNCHANGED <<selected, tx>>
      BY <3>2, Zenon DEF Got, coreVars
    <3>5. ipc' = "deselect" \/ pc' = "stop" => spi.RemainingBytes = 0
      BY <3>1, <3>3
    <3> QED
      BY <3>2, <3>3, <3>4, SMTT(30) DEF Amounts
  <2> QED
    BY <2>0, <2>1, <2>2, <2>3, Zenon
<1>8. CASE IsrRefill
  <2>0. ~cut /\ ~hasty /\ (Lost \/ (Content /\ Amounts))
    BY <1>0, <1>8, SMTT(30) DEF Whole, Resetting, IsrRefill, Isr, Fill, history
  <2>1. Content /\ Amounts /\ Empty /\ rx = <<>>
    BY <1>0, <1>8, <2>0, Zenon DEF Stage, Lost, IsrRefill, Isr
  <2>2. /\ Content' /\ Got' = Got /\ spi'.RemainingBytes \in 0 .. spi.RemainingBytes
        /\ spi.RemainingBytes > 0 => tx' # <<>>
    BY <1>0, <1>8, <2>1, FillContent DEF Amounts, IsrRefill, history
  <2>3. /\ spi'.RequestedBytes = spi.RequestedBytes /\ spi'.recv = spi.recv
        /\ spi'.SlaveSelectReg = spi.SlaveSelectReg
    BY <1>0, <1>8, Zenon DEF Types, IsrRefill, Fill
  <2>4. UNCHANGED <<selected, length, ByteCount>> /\ ipc = "refill" /\ ipc' = "resume"
        /\ pc \notin Critical /\ pc' = pc
    BY <1>0, <1>8, Zenon DEF Control, IsrRefill, Isr, Fill, history, locals
  <2>5. Amounts'
    BY <2>1, <2>2, <2>3, <2>4, SMTT(30) DEF Amounts
  <2> QED
    BY <2>2, <2>5, Zenon
<1>9. CASE IsrResume
  <2>0. ~cut /\ ~hasty /\ (Lost \/ (Content /\ Amounts))
    BY <1>0, <1>9, Zenon DEF Whole, Resetting, IsrResume, Isr, history
  <2>1. Lost => Lost'
    BY <1>9, Zenon DEF Lost, IsrResume, Isr
  <2>2. Content => Content'
    BY <1>0, <1>9, ContentSame, Zenon DEF Types, Stage, IsrResume, Isr,
       SetControlReg, history, WriteCR, FifoResets
  <2>3. Content /\ Amounts => Amounts'
    BY <1>0, <1>9, Zenon DEF Types, Amounts, Got, IsrResume, Isr, SetControlReg,
       history, locals, WriteCR, FifoResets
  <2> QED
    BY <2>0, <2>1, <2>2, <2>3, Zenon
<1>10. CASE IsrDeselect
  <2>0. ~cut /\ ~hasty /\ (Lost \/ (Content /\ Amounts))
    BY <1>0, <1>10, ZenonT(30) DEF Whole, Resetting, IsrDeselect, Isr, history
  <2>1. Lost => Lost'
    BY <1>10, Zenon DEF Lost, IsrDeselect, Isr
  <2>2. Content => Content'
    BY <1>0, <1>10, <2>0, ContentSame, ZenonT(30) DEF Types, Stage, IsrDeselect, Isr,
       SetSlaveSelectReg, history, locals, WriteSSR
  <2>3. Content /\ Amounts => Amounts'
    BY <1>10, Zenon DEF Amounts, Got, IsrDeselect, Isr, SetSlaveSelectReg, history,
       locals
  <2> QED
    BY <2>0, <2>1, <2>2, <2>3, Zenon
<1>11. CASE IsrDone
  BY <1>11, SMTT(30) DEF IsrDone
<1>12. CASE IsrRest
  <2>0. ~cut /\ ~hasty /\ (Lost \/ (Content /\ Amounts))
    BY <1>0, <1>12, Zenon DEF Whole, Resetting, IsrRest, Isr, history
  <2>1. Lost => Lost'
    BY <1>12, Zenon DEF Lost, IsrRest, Isr, coreVars
  <2>2. Content => Content'
    BY <1>12, ContentSame, Zenon DEF IsrRest, coreVars, history
  <2>3. Content /\ Amounts => Amounts'
    BY <1>12, Zenon DEF Amounts, Got, IsrRest, Isr, coreVars, history, locals
  <2> QED
    BY <2>0, <2>1, <2>2, <2>3, Zenon
<1> QED
  BY <1>1, <1>2, <1>3, <1>4, <1>5, <1>6, <1>7, <1>8, <1>9, <1>10, <1>11, <1>12,
     ZenonT(30) DEF Handler

(* The bytes of the transfer: the core, or nothing happens.                *)
LEMMA WholeEvents ==
    ASSUME IInv, [Next]_vars, ~cut', ~hasty', Events
    PROVE  Whole'
<1> SUFFICES ASSUME spi'.IsBusy, ~Resetting', ipc' # "abortcontrol"
             PROVE  (Lost \/ (Content /\ Amounts))'
  BY Zenon DEF Whole
<1> USE DEF Critical, Before, Serving, Empty, Still
<1>0. Types /\ Control /\ Types' /\ Control' /\ (~cut /\ ~hasty => Free /\ Stage /\ Whole)
  BY ControlStep, Zenon DEF IInv, Body
<1>1. CASE CoreShiftStart
  <2>0. ~cut /\ ~hasty /\ (Lost \/ (Content /\ Amounts))
    BY <1>0, <1>1, ZenonT(30) DEF Whole, Resetting, CoreShiftStart, history
  <2>1. Content /\ Amounts
    BY <1>1, <2>0, Zenon DEF Lost, CoreShiftStart
  <2>2. Content'
    BY <1>0, <1>1, <2>1, ShiftStartContent, Zenon DEF Types, CoreShiftStart, history
  <2>3. Amounts'
    BY <1>0, <1>1, <2>1, Zenon DEF Stage, Amounts, Got, CoreShiftStart, ShiftStart,
       locals, history
  <2> QED
    BY <2>2, <2>3, Zenon
<1>2. CASE CoreShiftDone
  <2>0. ~cut /\ ~hasty /\ (Lost \/ (Content /\ Amounts))
    BY <1>0, <1>2, Zenon DEF Whole, Resetting, CoreShiftDone, history
  <2>1. Content /\ Amounts
    BY <1>2, <2>0, Zenon DEF Lost, CoreShiftDone
  <2>2. selected <=> spi.SlaveSelectReg = "slave"
    BY <1>0, <1>2, <2>0, <2>1, Zenon DEF Stage, Amounts, CoreShiftDone, ShiftDone
  <2>4. Content'
    BY <1>0, <1>2, <2>1, <2>2, ShiftDoneContent, Zenon DEF Types, CoreShiftDone,
       history
  <2>3. Amounts'
    BY <1>2, <2>1, Zenon DEF Amounts, Got, CoreShiftDone, ShiftDone, locals, history
  <2> QED
    BY <2>2, <2>3, <2>4, Zenon
<1>3. CASE ModeFault
  <2>0. ~cut /\ ~hasty /\ (Lost \/ (Content /\ Amounts))
    BY <1>0, <1>3, Zenon DEF Whole, Resetting, ModeFault, ErrorEvent
  <2>1. CASE Lost
    BY <1>3, <2>1, SMTT(30) DEF Lost, ModeFault, ErrorEvent, Raise
  <2>2. CASE Content /\ Amounts /\ shift = NoByte
    <3>1. Content'
      BY <1>3, <2>2, ContentSame, Zenon DEF ModeFault, ErrorEvent
    <3>2. Amounts'
      BY <1>3, <2>2, Zenon DEF Amounts, Got, ModeFault, ErrorEvent, locals
    <3> QED
      BY <3>1, <3>2, Zenon
  <2>3. CASE shift # NoByte
    BY <1>0, <1>3, <2>3, Zenon DEF Types, Control, Stage, Lost, Resetting,
       ModeFault, ErrorEvent, Raise
  <2> QED
    BY <2>0, <2>1, <2>2, <2>3, Zenon
<1>4. CASE CmdErr
  <2>0. ~cut /\ ~hasty /\ (Lost \/ (Content /\ Amounts))
    BY <1>0, <1>4, Zenon DEF Whole, Resetting, CmdErr, ErrorEvent
  <2>1. Lost => Lost'
    BY <1>4, Zenon DEF Lost, CmdErr
  <2>2. Content => Content'
    BY <1>4, ContentSame, Zenon DEF CmdErr, ErrorEvent
  <2>3. Content /\ Amounts => Amounts'
    BY <1>4, Zenon DEF Amounts, Got, CmdErr, ErrorEvent, locals
  <2> QED
    BY <2>0, <2>1, <2>2, <2>3, Zenon
<1>5. CASE UNCHANGED vars
  <2>0. UNCHANGED <<coreVars, irq, modf, spi, pc, ipc, isr, calls, length, cut, hasty, ByteCount>>
    BY <1>5, Zenon DEF vars, locals, history
  <2>1. ~cut /\ ~hasty /\ (Lost \/ (Content /\ Amounts))
    BY <1>0, <2>0, Zenon DEF Whole, Resetting
  <2>2. Lost => Lost'
    BY <2>0, Zenon DEF Lost, coreVars
  <2>3. Content => Content'
    BY <2>0, ContentSame, Zenon DEF coreVars
  <2>4. Amounts => Amounts'
    BY <2>0, Zenon DEF Amounts, Got, coreVars
  <2> QED
    BY <2>1, <2>2, <2>3, <2>4, ZenonT(30)
<1> QED
  BY <1>1, <1>2, <1>3, <1>4, <1>5, ZenonT(30) DEF Events, Core

(* Every step keeps account of the bytes of the transfer.                  *)
LEMMA WholeStep ==
    ASSUME IInv, [Next]_vars, ~cut', ~hasty'
    PROVE  Whole'
  BY Parts, WholeSending, WholePolling, WholeRequests, WholeHandler, WholeEvents,
     Zenon

-----------------------------------------------------------------------------
(* A transfer of which nothing is left in the core or to be sent.          *)
LEMMA AllDelivered ==
    ASSUME Content, Amounts, Empty, rx = <<>>, spi.RemainingBytes = 0
    PROVE  \E sel \in BOOLEAN : spi.recv =
               [k \in 1 .. length |-> Miso(Mosi(calls, k), IF sel THEN k ELSE 0)]
<1>1. Got = length /\ spi.recv \in Seq(Byte)
  <2>1. Got = length - spi.RemainingBytes
    BY Counts, ZenonT(30)
  <2>2. length \in Nat
    BY LengthAssumption DEF Amounts
  <2> QED
    BY <2>1, <2>2 DEF Content
<1>2. DOMAIN spi.recv = 1 .. length /\ spi.recv = [k \in 1 .. length |-> spi.recv[k]]
  BY <1>1, SMTT(30) DEF Got
<1>3. \A k \in 1 .. length : spi.recv[k] = Answer(calls, k, spi.SlaveSelectReg)
  BY <1>1, Zenon DEF Content
<1>4. CASE spi.SlaveSelectReg = "slave"
  <2>1. \A k \in 1 .. length : spi.recv[k] = Miso(Mosi(calls, k), IF TRUE THEN k ELSE 0)
    BY <1>3, <1>4, Zenon DEF Answer
  <2> QED
    BY <1>2, <2>1, ZenonT(30)
<1>5. CASE spi.SlaveSelectReg # "slave"
  <2>1. \A k \in 1 .. length : spi.recv[k] = Miso(Mosi(calls, k), IF FALSE THEN k ELSE 0)
    BY <1>3, <1>5, Zenon DEF Answer
  <2> QED
    BY <1>2, <2>1, ZenonT(30)
<1> QED
  BY <1>4, <1>5, ZenonT(30)

(* A step that does not touch what was reported.                           *)
LEMMA DeliveredSame ==
    ASSUME ~cut /\ ~hasty => DoneMeansDelivered, ~cut' /\ ~hasty' => ~cut /\ ~hasty,
           report'.kind = "DONE" /\ ~report'.reset =>
               UNCHANGED <<report, calls, length>> /\ spi'.recv = spi.recv
    PROVE  DoneMeansDelivered'
  BY Zenon DEF DoneMeansDelivered

(* Every step keeps what a transfer reported as done has delivered.        *)
LEMMA DeliveredStep ==
    ASSUME IInv, [Next]_vars, ~cut', ~hasty'
    PROVE  DoneMeansDelivered'
<1> USE DEF Critical, Before, Serving
<1>0. Types /\ Control /\ Types' /\ Control' /\ (~cut /\ ~hasty => Free /\ Stage /\ Whole /\ DoneMeansDelivered)
  BY ControlStep, Zenon DEF IInv, Body
<1>1. CASE Transfer
  BY <1>0, <1>1, DeliveredSame, ZenonT(30) DEF Types, Transfer, App, coreVars, history
<1>2. CASE EnterCritical
  BY <1>0, <1>2, DeliveredSame, Zenon DEF EnterCritical, history
<1>3. CASE NoSlave
  BY <1>0, <1>3, DeliveredSame, Zenon DEF NoSlave, history
<1>4. CASE Accept
  BY <1>0, <1>4, DeliveredSame, Zenon DEF Accept, Nothing
<1>5. CASE Send
  BY <1>0, <1>5, DeliveredSame, SMTT(30) DEF Send, Fill, history
<1>6. CASE Select
  BY <1>0, <1>6, DeliveredSame, ZenonT(30) DEF Select, history
<1>7. CASE Go
  BY <1>0, <1>7, DeliveredSame, Zenon DEF Go, history
<1>8. CASE LeaveCritical
  BY <1>0, <1>8, DeliveredSame, Zenon DEF LeaveCritical, history
<1>9. CASE PollWait
  BY <1>0, <1>9, DeliveredSame, Zenon DEF PollWait, history
<1>10. CASE PollClear
  BY <1>0, <1>10, DeliveredSame, Zenon DEF PollClear
<1>11. CASE PollInhibit
  BY <1>0, <1>11, DeliveredSame, Zenon DEF PollInhibit, history
<1>12. CASE PollDrain
  BY <1>0, <1>12, DeliveredSame, Zenon DEF Control, PollDrain, App, history
<1>13. CASE PollDrained
  BY <1>0, <1>13, DeliveredSame, Zenon DEF PollDrained, Drained, history
<1>14. CASE PollRefill
  BY <1>0, <1>14, DeliveredSame, SMTT(30) DEF PollRefill, Fill, history
<1>15. CASE PollResume
  BY <1>0, <1>15, DeliveredSame, Zenon DEF PollResume, history
<1>16. CASE PollStop
  BY <1>0, <1>16, DeliveredSame, Zenon DEF PollStop, history
<1>17. CASE PollDone
  <2>1. /\ ~cut /\ ~hasty /\ Free /\ Stage /\ Whole /\ report'.bytes = length
        /\ report'.reset = Resetting /\ spi'.recv = spi.recv
        /\ UNCHANGED <<calls, length>>
    BY <1>0, <1>17, SMTT(30) DEF PollDone, Report
  <2> SUFFICES ASSUME ~Resetting
               PROVE  /\ report'.bytes = length
                      /\ \E sel \in BOOLEAN : spi.recv =
                            [k \in 1 .. length |-> Miso(Mosi(calls, k), IF sel THEN k ELSE 0)]
    BY <2>1, ZenonT(30) DEF DoneMeansDelivered
  <2>2. Content /\ Amounts /\ Empty /\ rx = <<>> /\ spi.RemainingBytes = 0
    <3>1. spi.IsBusy /\ ~Lost
      BY <1>0, <1>17, Zenon DEF Control, Lost, PollDone, App
    <3>2. Content /\ Amounts
      BY <1>0, <1>17, <2>1, <3>1, Zenon DEF Whole, PollDone, App
    <3> QED
      BY <1>0, <1>17, <3>2, Zenon DEF Stage, Amounts, PollDone, App
  <2> QED
    BY <2>1, <2>2, AllDelivered, ZenonT(30) DEF Amounts
<1>18. CASE ResetControl
  BY <1>0, <1>18, DeliveredSame, Zenon DEF ResetControl, history
<1>19. CASE ResetCounts
  BY <1>0, <1>19, DeliveredSame, SMTT(30) DEF ResetCounts, history
<1>20. CASE ResetDevice
  BY <1>20, Zenon DEF DoneMeansDelivered, ResetDevice, Nothing
<1>21. CASE Start
  BY <1>0, <1>21, DeliveredSame, SMTT(30) DEF Start, history
<1>22. CASE Stop
  BY <1>0, <1>22, DeliveredSame, SMTT(30) DEF Stop, history
<1>23. CASE IntrGlobalDisable
  BY <1>0, <1>23, DeliveredSame, Zenon DEF IntrGlobalDisable, history
<1>24. CASE SetOptions
  BY <1>0, <1>24, DeliveredSame, Zenon DEF SetOptions, history
<1>25. CASE SetSlaveSelect
  BY <1>0, <1>25, DeliveredSame, SMTT(30) DEF SetSlaveSelect, history
<1>26. CASE ResetSelect
  BY <1>0, <1>26, DeliveredSame, Zenon DEF ResetSelect
<1>27. CASE Interrupt
  BY <1>0, <1>27, DeliveredSame, Zenon DEF Interrupt, history
<1>28. CASE IsrClear
  BY <1>0, <1>28, DeliveredSame, Zenon DEF IsrClear
<1>29. CASE IsrAbortSelect
  BY <1>0, <1>29, DeliveredSame, ZenonT(30) DEF IsrAbortSelect, history
<1>30. CASE IsrAbort
  BY <1>0, <1>30, DeliveredSame, ZenonT(30) DEF Types, IsrAbort, Report
<1>31. CASE IsrInhibit
  BY <1>0, <1>31, DeliveredSame, Zenon DEF IsrInhibit, history
<1>32. CASE IsrDrain
  BY <1>0, <1>32, DeliveredSame, Zenon DEF Control, Free, IsrDrain, Drain, history,
     RxEmpty
<1>33. CASE IsrDrained
  BY <1>0, <1>33, DeliveredSame, Zenon DEF IsrDrained, Drained, history
<1>34. CASE IsrRefill
  BY <1>0, <1>34, DeliveredSame, SMTT(30) DEF IsrRefill, Fill, history
<1>35. CASE IsrResume
  BY <1>0, <1>35, DeliveredSame, Zenon DEF IsrResume, history
<1>36. CASE IsrDeselect
  BY <1>0, <1>36, DeliveredSame, Zenon DEF IsrDeselect, history
<1>37. CASE IsrDone
  <2>1. /\ ~cut /\ ~hasty /\ Free /\ Stage /\ Whole /\ report'.bytes = spi.RequestedBytes
        /\ report'.reset = Resetting /\ spi'.recv = spi.recv
        /\ UNCHANGED <<calls, length>>
    BY <1>0, <1>37, SMTT(30) DEF IsrDone, Report
  <2> SUFFICES ASSUME ~Resetting
               PROVE  /\ report'.bytes = length
                      /\ \E sel \in BOOLEAN : spi.recv =
                            [k \in 1 .. length |-> Miso(Mosi(calls, k), IF sel THEN k ELSE 0)]
    BY <2>1, ZenonT(30) DEF DoneMeansDelivered
  <2>2. Content /\ Amounts /\ Empty /\ rx = <<>> /\ spi.RemainingBytes = 0
    <3>1. spi.IsBusy /\ ~Lost
      BY <1>0, <1>37, Zenon DEF Free, Lost, IsrDone, Isr
    <3>2. Content /\ Amounts
      BY <1>0, <1>37, <2>1, <3>1, Zenon DEF Whole, IsrDone, Isr
    <3> QED
      BY <1>0, <1>37, <3>2, Zenon DEF Stage, Amounts, IsrDone, Isr
  <2> QED
    BY <2>1, <2>2, AllDelivered, ZenonT(30) DEF Amounts
<1>38. CASE IsrRest
  BY <1>0, <1>38, DeliveredSame, ZenonT(30) DEF IsrRest, history
<1>39. CASE CoreShiftStart
  BY <1>0, <1>39, DeliveredSame, ZenonT(30) DEF CoreShiftStart, history
<1>40. CASE CoreShiftDone
  BY <1>0, <1>40, DeliveredSame, ZenonT(30) DEF CoreShiftDone, history
<1>41. CASE ModeFault
  BY <1>0, <1>41, DeliveredSame, Zenon DEF ModeFault, ErrorEvent
<1>42. CASE CmdErr
  BY <1>0, <1>42, DeliveredSame, Zenon DEF CmdErr, ErrorEvent
<1>43. CASE UNCHANGED vars
  BY <1>0, <1>43, DeliveredSame, Zenon DEF vars, history
<1> QED
  BY <1>1, <1>2, <1>3, <1>4, <1>5, <1>6, <1>7, <1>8, <1>9, <1>10, <1>11, <1>12,
     <1>13, <1>14, <1>15, <1>16, <1>17, <1>18, <1>19, <1>20, <1>21, <1>22, <1>23,
     <1>24, <1>25, <1>26, <1>27, <1>28, <1>29, <1>30, <1>31, <1>32, <1>33, <1>34,
     <1>35, <1>36, <1>37, <1>38, <1>39, <1>40, <1>41, <1>42, <1>43, ZenonT(30) DEF
     Next, Application, Requests, Handler, Core

-----------------------------------------------------------------------------
(* The driver and the core before XSpi_Start().                            *)
LEMMA InitInv == Init => IInv
<1> SUFFICES ASSUME Init PROVE IInv
  BY Zenon
<1>1. Types /\ Control
  BY ZenonT(30) DEF Init, CoreReady, Types, Control, Critical, Before, Serving, Nothing, FifoResets
<1>2. Free /\ Stage /\ Half /\ Whole
  BY ZenonT(30) DEF Init, CoreReady, Free, Stage, Half, Whole, Empty, Still, Serving
<1>3. DoneMeansDelivered
  BY ZenonT(30) DEF Init, Nothing, DoneMeansDelivered
<1> QED
  BY <1>1, <1>2, <1>3, Zenon DEF IInv, Body

(* Every step of Next preserves the inductive invariant.                   *)
LEMMA NextInv == IInv /\ [Next]_vars => IInv'
<1> SUFFICES ASSUME IInv, [Next]_vars PROVE IInv'
  OBVIOUS
<1>1. Types' /\ Control'
  BY ControlStep, Zenon DEF IInv
<1>2. ASSUME ~cut', ~hasty' PROVE Body'
  BY <1>2, StageStep, HalfStep, WholeStep, DeliveredStep, Zenon DEF Body
<1> QED
  BY <1>1, <1>2, Zenon DEF IInv

(* The driver keeps account of the bytes of a transfer, whatever the       *)
(* interleaving of application, handler and core.                          *)
THEOREM DriverInvariant == Spec => []IInv
  BY InitInv, NextInv, PTL DEF Spec

(* A transfer reported as done, polled or by the handler, was received     *)
(* completely and in order, unless the report came in the middle of        *)
(* XSpi_Reset(), or after a mode fault cut a byte or TX_HALF_EMPTY was     *)
(* served alone.                                                           *)
THEOREM DoneMeansDeliveredHolds == Spec => []DoneMeansDelivered
<1>1. IInv => DoneMeansDelivered
  <2>1. cut \/ hasty => DoneMeansDelivered
    BY ZenonT(30) DEF DoneMeansDelivered
  <2> QED
    BY <2>1, Zenon DEF IInv, Body
<1> QED
  BY <1>1, DriverInvariant, PTL

(* XSpi_Transfer() starts every transfer from a quiet core: nothing of the *)
(* transfer before is left in it, and no event of it waits to be served.   *)
THEOREM QuietBetweenTransfersHolds == Spec => []QuietBetweenTransfers
<1>1. IInv => QuietBetweenTransfers
  BY Zenon DEF IInv, Body, Free, Half, Resting, Empty, Still, TxEvents,
     QuietBetweenTransfers
<1> QED
  BY <1>1, DriverInvariant, PTL
=============================================================================

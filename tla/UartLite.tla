------------------------------- MODULE UartLite -------------------------------
(***************************************************************************)
(* The UART Lite driver used with interrupts (xuartlite.c and              *)
(* xuartlite_intr.c): sending and receiving a buffer, the handler that     *)
(* goes on with both, the FIFO reset and the interrupt enable.             *)
(*                                                                         *)
(* Two threads, "app" and "isr".  The processor takes a pending interrupt  *)
(* before the next instruction of the application and the handler runs to  *)
(* its end; the UART sends and receives at any time.                       *)
(*                                                                         *)
(* Of the hardware (xuartlite_intr.c on XUartLite_EnableInterrupt()): "an  *)
(* interrupt is generated anytime there is data in the receive FIFO and    *)
(* when the transmit FIFO transitions from not empty to empty".  The input *)
(* of the interrupt controller is of the edge kind (KIND_OF_INTR in        *)
(* xparameters.h), so what counts is a rise.                               *)
(***************************************************************************)
EXTENDS Integers, Sequences

CONSTANTS
    FifoSize,                         \* XUL_FIFO_SIZE
    MaxLen, MaxCalls, MaxArrivals     \* bounds of the model

ASSUME LenAssumption == MaxLen \in Nat

VARIABLES
    uart,       \* the UART: tx, rx, and its interrupt enable
    irq,        \* the interrupt is pending
    SendBuffer, \* RequestedBytes, RemainingBytes, and the next byte to send
    ReceiveBuffer,   \* RequestedBytes, RemainingBytes, the next place, and
                     \* what the buffer got (0 where nothing is stored)
    pc,         \* by thread; the handler's is "none" when it is not running
    status,     \* by thread: TX_FIFO_FULL in the copy of the status register
    saved,      \* by thread: the interrupt enable to be restored
    count,      \* by thread: SentCount or ReceivedCount
    IsrStatus,  \* the handler's copy of the status register
    calls,      \* number of the latest send
    wire,       \* history: bytes that left, each <<call, position>>
    arrived,    \* number of bytes that came in
    dropped,    \* history: bytes lost in the UART, full or reset
    done,       \* history: what the send handler was told, by call
    missed,     \* history: the transmit FIFO ran empty with the enable off
    reset       \* history: XUartLite_ResetFifos() was called

buffers == <<SendBuffer, ReceiveBuffer>>
locals == <<status, saved, count, IsrStatus>>
history == <<calls, wire, arrived, dropped, done, missed, reset>>
vars == <<uart, irq, buffers, pc, locals, history>>

Threads == {"app", "isr"}
Untouched == [k \in 1..MaxLen |-> 0]

Init ==
    /\ uart = [tx |-> <<>>, rx |-> <<>>, enable |-> FALSE] /\ irq = FALSE
    /\ SendBuffer = [RequestedBytes |-> 0, RemainingBytes |-> 0, next |-> 1]
    /\ ReceiveBuffer = [RequestedBytes |-> 0, RemainingBytes |-> 0, next |-> 1,
                        got |-> Untouched]
    /\ pc = [app |-> "idle", isr |-> "none"]
    /\ status = [t \in Threads |-> FALSE]
    /\ saved = [t \in Threads |-> FALSE] /\ count = [t \in Threads |-> 0]
    /\ IsrStatus = {}
    /\ calls = 0 /\ wire = <<>> /\ arrived = 0 /\ dropped = {}
    /\ done = [c \in {} |-> 0] /\ missed = FALSE /\ reset = FALSE

-----------------------------------------------------------------------------
(* The UART.                                                               *)

(* A write to the control register.  With data waiting, the enable raises  *)
(* the interrupt.                                                          *)
WriteControl(e) ==
    /\ uart' = [uart EXCEPT !.enable = e]
    /\ irq' = (irq \/ (e /\ ~uart.enable /\ uart.rx # <<>>))

(* A byte leaves the transmit FIFO.                                        *)
Transmit ==
    /\ uart.tx # <<>>
    /\ uart' = [uart EXCEPT !.tx = Tail(@)]
    /\ wire' = Append(wire, Head(uart.tx))
    /\ irq' = (irq \/ (uart.enable /\ Len(uart.tx) = 1))
    /\ missed' = (missed \/ (~uart.enable /\ Len(uart.tx) = 1))
    /\ UNCHANGED <<buffers, pc, locals, calls, arrived, dropped, done, reset>>

(* A byte comes in; with the receive FIFO full it is lost.                 *)
Arrive ==
    /\ arrived < MaxArrivals
    /\ arrived' = arrived + 1
    /\ IF Len(uart.rx) < FifoSize
       THEN /\ uart' = [uart EXCEPT !.rx = Append(@, arrived + 1)]
            /\ irq' = (irq \/ (uart.enable /\ uart.rx = <<>>))
            /\ UNCHANGED dropped
       ELSE dropped' = dropped \cup {arrived + 1} /\ UNCHANGED <<uart, irq>>
    /\ UNCHANGED <<buffers, pc, locals, calls, wire, done, missed, reset>>

-----------------------------------------------------------------------------
(* XUartLite_SendBuffer() and XUartLite_ReceiveBuffer(), which both        *)
(* threads run.  The application gives way to a pending interrupt.         *)

Runs(t) == IF t = "app" THEN pc.isr = "none" /\ ~irq ELSE pc.isr # "none"
Goto(t, to) == pc' = [pc EXCEPT ![t] = to]
At(t, from, to) == Runs(t) /\ pc[t] = from /\ Goto(t, to)

TxFull == Len(uart.tx) = FifoSize

(* Locals that are dead are cleared, to keep the state space small.        *)
Forget(t) ==
    /\ status' = [status EXCEPT ![t] = FALSE]
    /\ saved' = [saved EXCEPT ![t] = FALSE]
    /\ count' = [count EXCEPT ![t] = 0]
    /\ UNCHANGED IsrStatus

(* Mutant of Advance: NextBytePtr stays where it was.                      *)
AdvanceCount(b, n) == [b EXCEPT !.RemainingBytes = @ - n]

(* The update of a buffer for the n bytes taken from it or put into it.    *)
Advance(b, n) == [b EXCEPT !.next = @ + n, !.RemainingBytes = @ - n]

(* Entering: the status register is read, then the enable is cleared.      *)
SendRead(t) ==
    /\ At(t, "send", "sdisable")
    /\ status' = [status EXCEPT ![t] = TxFull]
    /\ saved' = [saved EXCEPT ![t] = uart.enable]
    /\ count' = [count EXCEPT ![t] = 0]
    /\ UNCHANGED <<uart, irq, buffers, IsrStatus, history>>

(* Mutant of SendDisable: the critical region is not entered.              *)
SendDisableNot(t) == At(t, "sdisable", "sloop") /\ UNCHANGED <<uart, irq, buffers, locals, history>>

SendDisable(t) ==
    /\ At(t, "sdisable", "sloop")
    /\ WriteControl(FALSE)
    /\ UNCHANGED <<buffers, locals, history>>

(* One turn of the loop: a byte to the FIFO, which drops it when full.     *)
SendByte(t) ==
    /\ At(t, "sloop", "sstatus")
    /\ ~status[t] /\ count[t] < SendBuffer.RemainingBytes
    /\ uart' = [uart EXCEPT !.tx =
          IF Len(@) < FifoSize THEN Append(@, <<calls, SendBuffer.next + count[t]>>) ELSE @]
    /\ count' = [count EXCEPT ![t] = @ + 1]
    /\ UNCHANGED <<irq, buffers, status, saved, IsrStatus, history>>

SendStatus(t) ==
    /\ At(t, "sstatus", "sloop")
    /\ status' = [status EXCEPT ![t] = TxFull]
    /\ UNCHANGED <<uart, irq, buffers, saved, count, IsrStatus, history>>

(* Leaving: the buffer is advanced and the enable restored.                *)
SendLeave(t) ==
    /\ At(t, "sloop", IF t = "app" THEN "idle" ELSE "none")
    /\ status[t] \/ count[t] >= SendBuffer.RemainingBytes
    /\ SendBuffer' = Advance(SendBuffer, count[t])
    /\ WriteControl(saved[t])
    /\ Forget(t)
    /\ UNCHANGED <<ReceiveBuffer, history>>

RecvRead(t) ==
    /\ At(t, "recv", "rdisable")
    /\ saved' = [saved EXCEPT ![t] = uart.enable]
    /\ count' = [count EXCEPT ![t] = 0]
    /\ UNCHANGED <<uart, irq, buffers, status, IsrStatus, history>>

RecvDisable(t) ==
    /\ At(t, "rdisable", "rloop")
    /\ WriteControl(FALSE)
    /\ UNCHANGED <<buffers, locals, history>>

(* One turn of the loop: the status register is read and a byte stored.    *)
RecvByte(t) ==
    /\ At(t, "rloop", "rloop")
    /\ count[t] < ReceiveBuffer.RemainingBytes /\ uart.rx # <<>>
    /\ uart' = [uart EXCEPT !.rx = Tail(@)]
    /\ ReceiveBuffer' = [ReceiveBuffer EXCEPT !.got[ReceiveBuffer.next + count[t]] = Head(uart.rx)]
    /\ count' = [count EXCEPT ![t] = @ + 1]
    /\ UNCHANGED <<irq, SendBuffer, status, saved, IsrStatus, history>>

RecvLeave(t) ==
    /\ At(t, "rloop", IF t = "app" THEN "idle" ELSE "transmit")
    /\ count[t] >= ReceiveBuffer.RemainingBytes \/ uart.rx = <<>>
    /\ ReceiveBuffer' = Advance(ReceiveBuffer, count[t])
    /\ WriteControl(saved[t])
    /\ Forget(t)
    /\ UNCHANGED <<SendBuffer, history>>

-----------------------------------------------------------------------------
(* The application.                                                        *)

(* XUartLite_Send() and XUartLite_Recv(): the enable is saved, cleared,    *)
(* and restored around the new buffer, a length of 0 stopping the old one. *)
Enter(at) ==
    /\ At("app", "idle", at)
    /\ saved' = [saved EXCEPT !.app = uart.enable]
    /\ UNCHANGED <<uart, irq, buffers, status, count, IsrStatus, history>>

Send == calls < MaxCalls /\ Enter("send1")
Recv == Enter("recv1")

Disable(from, to) ==
    /\ At("app", from, to)
    /\ WriteControl(FALSE)
    /\ UNCHANGED <<buffers, locals, history>>

SendSetup ==
    /\ At("app", "send2", "send3")
    /\ calls' = calls + 1
    /\ \E n \in 0..MaxLen :
          SendBuffer' = [RequestedBytes |-> n, RemainingBytes |-> n, next |-> 1]
    /\ UNCHANGED <<uart, irq, ReceiveBuffer, locals, wire, arrived, dropped, done, missed, reset>>

RecvSetup ==
    /\ At("app", "recv2", "recv3")
    /\ \E n \in 0..MaxLen :
          ReceiveBuffer' = [RequestedBytes |-> n, RemainingBytes |-> n, next |-> 1,
                            got |-> Untouched]
    /\ UNCHANGED <<uart, irq, SendBuffer, locals, history>>

Restore(from, to) ==
    /\ At("app", from, to)
    /\ WriteControl(saved.app)
    /\ Forget("app")
    /\ UNCHANGED <<buffers, history>>

(* XUartLite_EnableInterrupt() and XUartLite_DisableInterrupt().           *)
EnableInterrupt ==
    /\ At("app", "idle", "idle")
    /\ WriteControl(TRUE)
    /\ UNCHANGED <<buffers, locals, history>>

DisableInterrupt == Disable("idle", "idle")

(* XUartLite_ResetFifos(): the enable is read, and written back along with *)
(* the reset bits.                                                         *)
ResetFifos == ~reset /\ Enter("reset1")

ResetWrite ==
    /\ At("app", "reset1", "idle")
    /\ reset' = TRUE
    /\ uart' = [tx |-> <<>>, rx |-> <<>>, enable |-> saved.app]
    /\ irq' = (irq \/ (uart.enable /\ uart.tx # <<>>))
    /\ missed' = (missed \/ (~uart.enable /\ uart.tx # <<>>))
    /\ dropped' = dropped \cup {uart.rx[k] : k \in 1..Len(uart.rx)}
    /\ Forget("app")
    /\ UNCHANGED <<buffers, calls, wire, arrived, done>>

-----------------------------------------------------------------------------
(* XUartLite_InterruptHandler().                                           *)

Interrupt ==
    /\ irq /\ pc.isr = "none"
    /\ irq' = FALSE
    /\ IsrStatus' = {f \in {"RX_VALID", "TX_EMPTY"} :
                       IF f = "RX_VALID" THEN uart.rx # <<>> ELSE uart.tx = <<>>}
    /\ Goto("isr", "receive")
    /\ UNCHANGED <<uart, buffers, status, saved, count, history>>

(* The last test of the handler's status also forgets it.                  *)
Finish(to) ==
    /\ At("isr", "transmit", to)
    /\ IsrStatus' = {}
    /\ UNCHANGED <<uart, irq, status, saved, count>>

(* ReceiveDataHandler(): the rest of the buffer, if any.  The handler of   *)
(* the application is called when nothing remains.                         *)
ReceiveDataHandler ==
    /\ At("isr", "receive", IF "RX_VALID" \in IsrStatus /\ ReceiveBuffer.RemainingBytes # 0
                            THEN "recv" ELSE "transmit")
    /\ UNCHANGED <<uart, irq, buffers, locals, history>>

(* Mutants of SendDue: the empty FIFO is not waited for; a send that is    *)
(* all in the FIFO is not seen to.                                         *)
SendDueAlways == SendBuffer.RequestedBytes > 0
SendDueRemaining == "TX_EMPTY" \in IsrStatus /\ SendBuffer.RemainingBytes > 0

SendDue == "TX_EMPTY" \in IsrStatus /\ SendBuffer.RequestedBytes > 0

(* SendDataHandler(): the rest of the buffer, or the send handler.         *)
SendDataHandler ==
    /\ SendDue
    /\ SendBuffer.RemainingBytes # 0
    /\ Finish("send")
    /\ UNCHANGED <<buffers, history>>

SendDone ==
    /\ SendDue
    /\ SendBuffer.RemainingBytes = 0
    /\ Finish("none")
    /\ SendBuffer' = [SendBuffer EXCEPT !.RequestedBytes = 0]
    /\ done' = [c \in DOMAIN done \cup {calls} |->
                 IF c = calls THEN SendBuffer.RequestedBytes ELSE done[c]]
    /\ UNCHANGED <<ReceiveBuffer, calls, wire, arrived, dropped, missed, reset>>

SendNot ==
    /\ ~SendDue
    /\ Finish("none")
    /\ UNCHANGED <<buffers, history>>

-----------------------------------------------------------------------------
Working(t) == SendRead(t) \/ SendDisable(t) \/ SendByte(t) \/ SendStatus(t) \/ SendLeave(t)
              \/ RecvRead(t) \/ RecvDisable(t) \/ RecvByte(t) \/ RecvLeave(t)

Call == Send \/ Recv \/ EnableInterrupt \/ DisableInterrupt \/ ResetFifos

AppStep ==
    \/ Disable("send1", "send2") \/ SendSetup \/ Restore("send3", "send")
    \/ Disable("recv1", "recv2") \/ RecvSetup \/ Restore("recv3", "recv")
    \/ ResetWrite
    \/ Working("app")

Handler == Interrupt \/ ReceiveDataHandler \/ SendDataHandler \/ SendDone \/ SendNot
           \/ Working("isr")

Next == Call \/ AppStep \/ Handler \/ Transmit \/ Arrive

(* A call returns, the handler runs to its end, and the UART sends what is *)
(* in its FIFO; nothing need ever be called or come in.                    *)
Spec == Init /\ [][Next]_vars /\ WF_vars(AppStep) /\ WF_vars(Handler) /\ WF_vars(Transmit)

-----------------------------------------------------------------------------
(* Bytes leave in the order of their buffers and none leaves twice,        *)
(* although the application and the handler both take them from            *)
(* SendBuffer: the read and the advance of NextBytePtr are inside the      *)
(* critical region of XUartLite_SendBuffer().                              *)
SentInOrder ==
    LET s == wire \o uart.tx
    IN  \A k \in 1..(Len(s) - 1) :
           \/ s[k][1] < s[k + 1][1]
           \/ s[k][1] = s[k + 1][1] /\ s[k][2] < s[k + 1][2]

(* What has been counted into the receive buffer is what came in, in that  *)
(* order, and between two of its bytes only bytes are missing that the     *)
(* UART itself lost.                                                       *)
ReceivedGenuine ==
    LET got == ReceiveBuffer.got
        n == ReceiveBuffer.next - 1
    IN  /\ n + ReceiveBuffer.RemainingBytes = ReceiveBuffer.RequestedBytes
        /\ \A k \in 1..n : got[k] # 0
        /\ \A k \in 1..(n - 1) :
              got[k] < got[k + 1] /\ (got[k] + 1)..(got[k + 1] - 1) \subseteq dropped

(* When the send handler has been called for a send, no byte of it is      *)
(* still waiting in the transmit FIFO, although the handler goes by a      *)
(* status it read before it received.                                      *)
DoneMeansOut ==
    \A c \in DOMAIN done : \A k \in 1..Len(uart.tx) : uart.tx[k][1] # c

(* "A callback function, as specified by the application, will be called   *)
(* to indicate the completion of sending the buffer" (xuartlite.c:196):    *)
(* all its bytes have left.  A status read before the enable is cleared is *)
(* stale when the handler fills the FIFO in between, and a byte is lost.   *)
DoneMeansSent ==
    ~reset => \A c \in DOMAIN done :
                 \A n \in 1..done[c] : \E k \in 1..Len(wire) : wire[k] = <<c, n>>

(* A send in interrupt mode completes, unless it is replaced, interrupts   *)
(* are off, or the FIFO ran empty inside somebody's critical region, where *)
(* the event is lost.                                                      *)
SendCompletes ==
    \A c \in 1..MaxCalls :
        (calls = c /\ SendBuffer.RequestedBytes > 0)
           ~> (SendBuffer.RequestedBytes = 0 \/ calls # c \/ missed
               \/ (pc.app = "idle" /\ ~uart.enable))
=============================================================================

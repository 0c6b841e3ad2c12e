------------------------------- MODULE SendSpi -------------------------------
(***************************************************************************)
(* send_spi() of spi.c: one call exchanges len bytes with the flash, in    *)
(* chunks no longer than the FIFO, polling the core.                       *)
(*                                                                         *)
(* The processor makes one register access per step; between two accesses  *)
(* the core (SpiCore) may take any number of steps of its own.  The caller *)
(* is anyone who may call send_spi() with a length, the SEND_SPI_MORE      *)
(* option or not, and a destination that is the source (in place) or not.  *)
(***************************************************************************)
EXTENDS SpiCore

CONSTANTS
    Chunk,        \* 16 in the code: the longest run of bytes put in the FIFO
    MaxPolls,     \* 1000 in the code: how often TX_EMPTY is polled
    MaxLen,       \* bound of the model: the longest transfer asked for
    MaxCalls      \* bound of the model: the number of calls

ASSUME SendAssumption ==
    /\ Chunk \in Nat \ {0} /\ Chunk <= FifoDepth
    /\ MaxPolls \in Nat \ {0}
    /\ MaxLen \in Nat
    /\ MaxCalls \in Nat

VARIABLES
    pc,                \* what send_spi() does next; "idle": no call is running
    calls,             \* number of the latest call
    len, more,         \* its arguments: length, and opt & SEND_SPI_MORE
    inPlace,           \* its arguments: is dst the same buffer as src?
    buf,               \* the destination buffer
    src,               \* bytes read from the source buffer so far (src++)
    bytes_remaining,   \* the locals of the same names
    bytes_to_xfer,
    i,
    ret,               \* the value the latest call returned
    brokenBy           \* history: the first call that returned less than len
                       \* since the transaction was opened, or 0

callVars == <<calls, len, more, inPlace>>
localVars == <<buf, src, bytes_remaining, bytes_to_xfer, i>>
vars == <<coreVars, pc, callVars, localVars, ret, brokenBy>>

(* Bytes stored through dst++ so far.                                      *)
dst == len - bytes_remaining

(* *src: in place, bytes already received have replaced the source.        *)
SrcByte(k) == IF inPlace THEN buf[k] ELSE Mosi(calls, k)

(* The state init_spi() leaves: module SpiInit shows that it does.         *)
Init ==
    /\ CoreReady /\ clocked = 0
    /\ pc = "idle"
    /\ calls = 0 /\ len = 0 /\ more = FALSE /\ inPlace = FALSE
    /\ buf = <<>> /\ src = 0 /\ bytes_remaining = 0 /\ bytes_to_xfer = 0
    /\ i = 0 /\ ret = 0 /\ brokenBy = 0

-----------------------------------------------------------------------------
(* Entry: the locals, and the test whether a transaction is already open.  *)
Call(l, m, p) ==
    /\ pc = "idle"
    /\ calls < MaxCalls
    /\ calls' = calls + 1
    /\ len' = l /\ more' = m /\ inPlace' = p
    /\ buf' = [k \in 1..l |-> IF p THEN Mosi(calls + 1, k) ELSE NoByte]
    /\ src' = 0
    /\ bytes_remaining' = l
    /\ pc' = IF "ENABLE" \in cr THEN "while" ELSE "reset"
    /\ UNCHANGED <<coreVars, bytes_to_xfer, i, ret, brokenBy>>

(* Mutant of Reset: the FIFOs are not reset.                               *)
ResetKeepsFifos ==
    /\ pc = "reset"
    /\ WriteCR(cr)
    /\ brokenBy' = 0
    /\ pc' = "enable"
    /\ UNCHANGED <<selected, clocked, callVars, localVars, ret>>

(* Mutant of Reset: the receive FIFO is not reset.                         *)
ResetKeepsRx ==
    /\ pc = "reset"
    /\ WriteCR(cr \cup {"TXFIFO_RESET"})
    /\ brokenBy' = 0
    /\ pc' = "enable"
    /\ UNCHANGED <<selected, clocked, callVars, localVars, ret>>

(* control_reg |= the FIFO resets, written back.                           *)
Reset ==
    /\ pc = "reset"
    /\ WriteCR(cr \cup FifoResets)
    /\ brokenBy' = 0
    /\ pc' = "enable"
    /\ UNCHANGED <<selected, clocked, callVars, localVars, ret>>

(* XSpi_Enable().                                                          *)
Enable ==
    /\ pc = "enable"
    /\ WriteCR((cr \cup {"ENABLE"}) \ {"INHIBIT"})
    /\ pc' = "select"
    /\ UNCHANGED <<selected, clocked, callVars, localVars, ret, brokenBy>>

Select ==
    /\ pc = "select"
    /\ WriteSSR(TRUE)
    /\ pc' = "while"
    /\ UNCHANGED <<cr, tx, shift, rx, callVars, localVars, ret, brokenBy>>

(* Mutant of NextChunk: a chunk may be one byte too long.                  *)
NextChunkTooLong ==
    /\ pc = "while" /\ bytes_remaining > 0
    /\ bytes_to_xfer' = IF bytes_remaining <= Chunk THEN bytes_remaining
                                                    ELSE Chunk + 1
    /\ i' = 0
    /\ pc' = "fill"
    /\ UNCHANGED <<coreVars, callVars, buf, src, bytes_remaining, ret, brokenBy>>

(* while(bytes_remaining > 0): the next chunk, at most Chunk bytes long.   *)
NextChunk ==
    /\ pc = "while" /\ bytes_remaining > 0
    /\ bytes_to_xfer' = IF bytes_remaining < Chunk THEN bytes_remaining
                                                   ELSE Chunk
    /\ i' = 0
    /\ pc' = "fill"
    /\ UNCHANGED <<coreVars, callVars, buf, src, bytes_remaining, ret, brokenBy>>

Fill ==
    /\ pc = "fill"
    /\ WriteDTR(SrcByte(src + 1))
    /\ src' = src + 1
    /\ IF i + 1 < bytes_to_xfer THEN i' = i + 1 /\ pc' = "fill"
                                ELSE i' = 0 /\ pc' = "poll"
    /\ UNCHANGED <<cr, selected, shift, rx, clocked, callVars,
                   buf, bytes_remaining, bytes_to_xfer, ret, brokenBy>>

(* Mutant of Poll: the polls are not counted.                              *)
PollUncounted ==
    /\ pc = "poll" /\ i < MaxPolls
    /\ IF TxEmpty THEN i' = 0 /\ pc' = "drain"
                  ELSE UNCHANGED <<i, pc>>
    /\ UNCHANGED <<coreVars, callVars, buf, src, bytes_remaining,
                   bytes_to_xfer, ret, brokenBy>>

(* One read of the status register while waiting for TX_EMPTY.             *)
Poll ==
    /\ pc = "poll" /\ i < MaxPolls
    /\ IF TxEmpty THEN i' = 0 /\ pc' = "drain"
                  ELSE i' = i + 1 /\ pc' = "poll"
    /\ UNCHANGED <<coreVars, callVars, buf, src, bytes_remaining,
                   bytes_to_xfer, ret, brokenBy>>

(* return len - bytes_remaining: the transaction is left as it is.         *)
ReturnShort ==
    /\ ret' = len - bytes_remaining
    /\ brokenBy' = IF brokenBy = 0 THEN calls ELSE brokenBy
    /\ pc' = "idle"
    /\ UNCHANGED <<coreVars, callVars, localVars>>

(* Mutant of TimedOut: the drain loop follows all the same.                *)
TimedOutIgnored ==
    /\ pc = "poll" /\ i = MaxPolls
    /\ i' = 0 /\ pc' = "drain"
    /\ UNCHANGED <<coreVars, callVars, buf, src, bytes_remaining,
                   bytes_to_xfer, ret, brokenBy>>

TimedOut ==
    /\ pc = "poll" /\ i = MaxPolls
    /\ ReturnShort

(* Mutant of Underflow: the data register is read although it is empty.    *)
UnderflowIgnored ==
    /\ pc = "drain" /\ RxEmpty
    /\ buf' = [buf EXCEPT ![dst + 1] = NoByte]
    /\ bytes_remaining' = bytes_remaining - 1
    /\ IF i + 1 < bytes_to_xfer THEN i' = i + 1 /\ pc' = "drain"
                                ELSE i' = 0 /\ pc' = "while"
    /\ UNCHANGED <<coreVars, callVars, src, bytes_to_xfer, ret, brokenBy>>

Underflow ==
    /\ pc = "drain" /\ RxEmpty
    /\ ReturnShort

(* Mutant of Drain: dst is incremented before the store.                   *)
DrainPreIncrement ==
    /\ pc = "drain" /\ ~RxEmpty
    /\ buf' = [k \in DOMAIN buf |-> IF k = dst + 2 THEN Head(rx) ELSE buf[k]]
    /\ ReadDRR
    /\ bytes_remaining' = bytes_remaining - 1
    /\ IF i + 1 < bytes_to_xfer THEN i' = i + 1 /\ pc' = "drain"
                                ELSE i' = 0 /\ pc' = "while"
    /\ UNCHANGED <<cr, selected, tx, shift, clocked, callVars,
                   src, bytes_to_xfer, ret, brokenBy>>

(* The status read and the data read in one step: only the processor takes *)
(* bytes out of the receive FIFO.                                          *)
Drain ==
    /\ pc = "drain" /\ ~RxEmpty
    /\ buf' = [buf EXCEPT ![dst + 1] = Head(rx)]
    /\ ReadDRR
    /\ bytes_remaining' = bytes_remaining - 1
    /\ IF i + 1 < bytes_to_xfer THEN i' = i + 1 /\ pc' = "drain"
                                ELSE i' = 0 /\ pc' = "while"
    /\ UNCHANGED <<cr, selected, tx, shift, clocked, callVars,
                   src, bytes_to_xfer, ret, brokenBy>>

(* The loop is over: if not doing more, de-select the slave.               *)
Deselect ==
    /\ pc = "while" /\ bytes_remaining = 0 /\ ~more
    /\ WriteSSR(FALSE)
    /\ pc' = "disable"
    /\ UNCHANGED <<cr, tx, shift, rx, callVars, localVars, ret, brokenBy>>

(* Mutant of Disable: the core stays enabled.                              *)
DisableForgotten ==
    /\ pc = "disable"
    /\ ret' = len
    /\ pc' = "idle"
    /\ UNCHANGED <<coreVars, callVars, localVars, brokenBy>>

(* XSpi_Disable(), then return len.                                        *)
Disable ==
    /\ pc = "disable"
    /\ WriteCR(cr \ {"ENABLE"})
    /\ ret' = len
    /\ pc' = "idle"
    /\ UNCHANGED <<selected, clocked, callVars, localVars, brokenBy>>

ReturnMore ==
    /\ pc = "while" /\ bytes_remaining = 0 /\ more
    /\ ret' = len
    /\ pc' = "idle"
    /\ UNCHANGED <<coreVars, callVars, localVars, brokenBy>>

-----------------------------------------------------------------------------
Processor ==
    \/ Reset \/ Enable \/ Select
    \/ NextChunk \/ Fill \/ Poll \/ TimedOut \/ Drain \/ Underflow
    \/ Deselect \/ Disable \/ ReturnMore

Core ==
    /\ ShiftStart \/ ShiftDone
    /\ UNCHANGED <<pc, callVars, localVars, ret, brokenBy>>

(* The bound on the calls is the model's: the last one may be followed by  *)
(* nothing.                                                                *)
NoMoreCalls ==
    /\ pc = "idle" /\ calls = MaxCalls
    /\ UNCHANGED vars

Next ==
    \/ \E l \in 0..MaxLen, m, p \in BOOLEAN : Call(l, m, p)
    \/ Processor
    \/ Core
    \/ NoMoreCalls

(* The processor keeps executing; nothing is assumed of the core.          *)
Spec == Init /\ [][Next]_vars /\ WF_vars(Processor)

-----------------------------------------------------------------------------
(***************************************************************************)
(* Properties.                                                             *)
(***************************************************************************)

PCs == {"idle", "reset", "enable", "select", "while", "fill", "poll",
        "drain", "disable"}

TypeOK ==
    /\ CoreTypeOK
    /\ pc \in PCs
    /\ calls \in 0..MaxCalls
    /\ len \in 0..MaxLen /\ more \in BOOLEAN /\ inPlace \in BOOLEAN
    /\ buf \in [1..len -> Byte]
    /\ src \in 0..len /\ bytes_remaining \in 0..len
    /\ bytes_to_xfer \in 0..Chunk
    /\ i \in 0..(IF Chunk < MaxPolls THEN MaxPolls ELSE Chunk)
    /\ ret \in 0..MaxLen
    /\ brokenBy \in 0..calls

(* No call before the latest one failed in the transaction it works in.    *)
Sound == brokenBy \in {0, calls}

Open == "ENABLE" \in cr /\ selected

(* The FIFOs are neither overrun nor out of step: in an open transaction   *)
(* in which no earlier call failed, every byte taken from src is in the    *)
(* transmit FIFO, in the shifter, in the receive FIFO, or stored through   *)
(* dst, and at most one chunk of them is under way.                        *)
InFlight ==
    Sound /\ Open => /\ Len(tx) + InShifter + Len(rx) = src - dst
                     /\ src - dst <= Chunk

(* What dst holds for byte k: the answer of the flash to byte k of this    *)
(* call, at its place in the sequence of bytes of the transaction.         *)
Delivered(k) ==
    buf[k] = Miso(Mosi(calls, k), clocked - Len(rx) - dst + k)

(* A call that returns n, no earlier call having failed in its             *)
(* transaction, has stored the answers to its first n bytes, in order and  *)
(* without a gap, and left the rest of dst alone; n is len exactly when    *)
(* the call did not fail.                                                  *)
RepliesDelivered ==
    pc = "idle" /\ calls > 0 /\ Sound =>
        /\ \A k \in 1..ret : Delivered(k)
        /\ \A k \in (ret + 1)..len :
               buf[k] = IF inPlace THEN Mosi(calls, k) ELSE NoByte
        /\ (ret = len) <=> (brokenBy = 0)

(* In place (dst equal to src) is safe: whatever has been received, the    *)
(* bytes of the source still to be sent are those the caller put there.    *)
SourceIntact ==
    pc # "idle" =>
        \A k \in (src + 1)..len : SrcByte(k) = Mosi(calls, k)

(* Between calls the flash is selected exactly when the core is enabled,   *)
(* and that is exactly when the latest call asked for SEND_SPI_MORE or     *)
(* failed.                                                                 *)
OpenBetweenCalls ==
    pc = "idle" /\ calls > 0 =>
        /\ ("ENABLE" \in cr) <=> selected
        /\ selected <=> more \/ ret < len

(* The flash is never de-selected while a byte is under way, unless an     *)
(* earlier call of the transaction returned short (Sound).                 *)
CleanDeselect ==
    [][Sound /\ selected /\ ~selected' =>
         tx = <<>> /\ shift = NoByte /\ rx = <<>>]_vars

(* Every call returns, whatever the core does: the polling is bounded.     *)
CallReturns == pc # "idle" ~> pc = "idle"

(* With a core that holds TX_EMPTY back until the last byte is out, a byte *)
(* is there whenever the drain loop looks for one: the underflow return is *)
(* not reached unless an earlier call failed.                              *)
NoUnderflow == Sound /\ pc = "drain" => ~RxEmpty

(* spi.c:63, "Returns `len` on success; less than `len` on error.": a call *)
(* that returns len has received the answers to its own bytes.             *)
LenMeansSuccess ==
    pc = "idle" /\ calls > 0 /\ ret = len =>
        \A k \in 1..len : /\ buf[k].kind = "miso"
                          /\ buf[k].call = calls
                          /\ buf[k].idx = k

-----------------------------------------------------------------------------
(***************************************************************************)
(* send_spi() implements SpiExchange.                                      *)
(***************************************************************************)
Starting == pc \in {"reset", "enable", "select"}

Exchange == INSTANCE SpiExchange WITH
    busy <- pc # "idle",
    open <- pc # "idle" \/ "ENABLE" \in cr,
    broken <- brokenBy # 0 /\ pc # "reset",
    count <- IF \/ Starting
                \/ brokenBy # 0
                \/ pc = "idle" /\ "ENABLE" \notin cr
             THEN 0 ELSE clocked - Len(rx),
    call <- calls,
    got <- SubSeq(buf, 1, dst)

(* Seen through the mapping, every step of the program and of the core is  *)
(* a step of SpiExchange or changes nothing: the caller gets, call after   *)
(* call, the answers the flash gave in the transaction, none missing,      *)
(* doubled or out of order, until a call fails.                            *)
ExchangeSpec == Exchange!Spec
=============================================================================

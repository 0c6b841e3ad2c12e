------------------------------- MODULE SpiCore -------------------------------
(***************************************************************************)
(* The AXI Quad SPI core and the serial flash behind it, as the code under *)
(* src/ uses them (external: no source in the repository).                 *)
(*                                                                         *)
(* Software reaches the core through its registers: the control register   *)
(* SPICR, the slave select register SPISSR, the transmit and receive data  *)
(* FIFOs and the status register.  On its own the core moves bytes: from   *)
(* the transmit FIFO to the shifter, and from the shifter, exchanged for   *)
(* the byte the flash clocked out, to the receive FIFO.                    *)
(*                                                                         *)
(* A byte is abstracted to where it comes from.  Mosi(c, k) is the k-th    *)
(* byte of the source buffer of the c-th call; Miso(b, n) is the byte the  *)
(* flash answers while b is clocked in as the n-th byte since the flash    *)
(* was selected (n = 0: the flash was not selected and the line floats).   *)
(***************************************************************************)
EXTENDS Integers, Sequences

CONSTANTS
    FifoDepth,    \* XPAR_SPI_0_FIFO_DEPTH, 16 in xparameters.h
    EarlyEmpty    \* does TX_EMPTY rise when the last byte enters the shifter
                  \* (TRUE), or when it has left it (FALSE)?

ASSUME CoreAssumption ==
    /\ FifoDepth \in Nat \ {0}
    /\ EarlyEmpty \in BOOLEAN

VARIABLES
    cr,         \* SPICR: the set of the bits that are on
    selected,   \* SPISSR: is the flash's select line asserted?
    tx,         \* transmit FIFO
    shift,      \* the byte in the shifter, or NoByte
    rx,         \* receive FIFO
    clocked     \* bytes the flash has seen since it was last selected

coreVars == <<cr, selected, tx, shift, rx, clocked>>

CrBits == {"LOOPBACK", "ENABLE", "MASTER", "MANUAL_SS", "INHIBIT"}
FifoResets == {"TXFIFO_RESET", "RXFIFO_RESET"}

Byte == [kind : {"mosi", "miso"}, call : Nat, idx : Nat, pos : Nat]

Mosi(c, k) == [kind |-> "mosi", call |-> c, idx |-> k, pos |-> 0]
Miso(b, n) == [kind |-> "miso", call |-> b.call, idx |-> b.idx, pos |-> n]

NoByte == Mosi(0, 0)

-----------------------------------------------------------------------------
(* What the status register says.                                          *)

InShifter == IF shift = NoByte THEN 0 ELSE 1

(* Entries of the transmit FIFO in use, the one being shifted included if  *)
(* the core frees it only when the byte is out.                            *)
TxOccupancy == Len(tx) + IF EarlyEmpty THEN 0 ELSE InShifter

TxEmpty == TxOccupancy = 0
TxFull == TxOccupancy = FifoDepth
RxEmpty == rx = <<>>

CoreTypeOK ==
    /\ cr \subseteq CrBits
    /\ selected \in BOOLEAN
    /\ tx \in Seq(Byte) /\ TxOccupancy <= FifoDepth
    /\ shift \in Byte
    /\ rx \in Seq(Byte) /\ Len(rx) <= FifoDepth
    /\ clocked \in Nat

-----------------------------------------------------------------------------
(* Register accesses.                                                      *)

(* The FIFO reset bits clear themselves; a core that is not enabled has    *)
(* its pins in tri-state and abandons the byte in its shifter.             *)
WriteCR(v) ==
    /\ cr' = v \ FifoResets
    /\ tx' = IF "TXFIFO_RESET" \in v THEN <<>> ELSE tx
    /\ rx' = IF "RXFIFO_RESET" \in v THEN <<>> ELSE rx
    /\ shift' = IF "ENABLE" \in v THEN shift ELSE NoByte

(* Asserting the select line starts a new command in the flash.            *)
WriteSSR(sel) ==
    /\ selected' = sel
    /\ clocked' = IF sel /\ ~selected THEN 0 ELSE clocked

(* A byte written to a full transmit FIFO is lost.                         *)
WriteDTR(b) == tx' = IF TxFull THEN tx ELSE Append(tx, b)

(* Reading an empty receive FIFO leaves it empty.                          *)
ReadDRR == rx' = IF RxEmpty THEN rx ELSE Tail(rx)

(* SRR: every register returns to its reset value.                         *)
SoftReset ==
    /\ cr' = {"MANUAL_SS", "INHIBIT"}
    /\ selected' = FALSE
    /\ tx' = <<>>
    /\ rx' = <<>>
    /\ shift' = NoByte
    /\ UNCHANGED clocked

(* The state send_spi() expects to find the core in at its first call.     *)
CoreReady ==
    /\ cr = {"MASTER", "MANUAL_SS", "INHIBIT"}
    /\ selected = FALSE
    /\ tx = <<>> /\ shift = NoByte /\ rx = <<>>

-----------------------------------------------------------------------------
(* What the core does by itself.                                           *)

ShiftStart ==
    /\ {"ENABLE", "MASTER"} \subseteq cr /\ "INHIBIT" \notin cr
    /\ shift = NoByte
    /\ tx # <<>>
    /\ shift' = Head(tx)
    /\ tx' = Tail(tx)
    /\ UNCHANGED <<cr, selected, rx, clocked>>

(* A byte received while the receive FIFO is full is lost.                 *)
ShiftDone ==
    LET pos == IF selected THEN clocked + 1 ELSE 0 IN
    /\ shift # NoByte
    /\ rx' = IF Len(rx) = FifoDepth THEN rx ELSE Append(rx, Miso(shift, pos))
    /\ clocked' = IF selected THEN pos ELSE clocked
    /\ shift' = NoByte
    /\ UNCHANGED <<cr, selected, tx>>
=============================================================================

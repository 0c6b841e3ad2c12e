---------------------------- MODULE SendSpi_proofs ----------------------------
(***************************************************************************)
(* Proofs about send_spi(), for every FIFO depth, chunk, number of polls,  *)
(* length and number of calls, and for both kinds of core.                 *)
(***************************************************************************)
EXTENDS SendSpi, SequenceTheorems, TLAPS

Loop == {"while", "fill", "poll", "drain"}

(* Where the program is tells how far src is ahead of dst, and in what     *)
(* state it has put the core.                                              *)
Control ==
    /\ dst <= src
    /\ pc \in {"reset", "enable", "select", "while", "disable"} => src = dst
    /\ pc \in {"reset", "enable", "select"} => src = 0
    /\ pc \in {"fill", "poll", "drain"} => bytes_to_xfer \in 1..Chunk
    /\ pc = "fill" => /\ i < bytes_to_xfer
                      /\ src - dst = i
                      /\ bytes_to_xfer <= bytes_remaining
    /\ pc = "poll" => src - dst = bytes_to_xfer
    /\ pc = "drain" => i < bytes_to_xfer /\ src - dst = bytes_to_xfer - i
    /\ pc = "idle" => src - dst <= Chunk /\ ret = dst
    /\ pc = "disable" => bytes_remaining = 0 /\ ~more
    /\ pc \in {"reset", "enable"} => "ENABLE" \notin cr
    /\ pc \in {"select", "disable"} \cup Loop => "ENABLE" \in cr
    /\ pc \in Loop => selected
    /\ pc \in {"reset", "enable", "select", "disable"} => ~selected
    /\ pc = "idle" => /\ ("ENABLE" \in cr) <=> selected
                      /\ selected <=> more \/ ret < len
    /\ shift # NoByte => "ENABLE" \in cr
    /\ calls = 0 => pc = "idle" /\ len = 0 /\ ~more
    /\ pc # "idle" => brokenBy < calls
    /\ pc \in {"enable", "select"} => brokenBy = 0
    /\ pc = "idle" => /\ brokenBy = 0 => ret = len
                      /\ calls > 0 /\ brokenBy = calls => ret < len

(* What dst holds beyond the bytes stored so far: what the caller left     *)
(* there.                                                                  *)
Untouched == \A k \in (dst + 1)..len :
                 buf[k] = IF inPlace THEN Mosi(calls, k) ELSE NoByte

(* Where the bytes between dst and src are.                                *)
Content ==
    /\ Len(tx) + InShifter + Len(rx) = src - dst
    /\ \A j \in 1..Len(rx) :
          rx[j] = Miso(Mosi(calls, dst + j), clocked - Len(rx) + j)
    /\ shift # NoByte => shift = Mosi(calls, dst + Len(rx) + 1)
    /\ \A j \in 1..Len(tx) :
          tx[j] = Mosi(calls, dst + Len(rx) + InShifter + j)
    /\ \A k \in 1..dst : Delivered(k)

(* The account of the bytes, given up once a call has failed in the        *)
(* transaction and not yet taken up before the FIFOs are reset.            *)
Data ==
    /\ Untouched
    /\ Sound /\ pc # "reset" => Content

(* The invariant of send_spi() that its steps and those of the core keep:  *)
(* the types, where the program is, and where each byte is that it has     *)
(* taken from src and not yet stored through dst.                          *)
IInv == TypeOK /\ Control /\ Data

-----------------------------------------------------------------------------
(* The bytes of a call are not the placeholder of an empty shifter.        *)
LEMMA MosiIsAByte ==
    ASSUME NEW c \in Nat, NEW k \in Nat
    PROVE  Mosi(c, k) \in Byte /\ (k # 0 => Mosi(c, k) # NoByte)
BY DEF Mosi, Byte, NoByte

(* The answers of the flash are bytes.                                     *)
LEMMA MisoIsAByte ==
    ASSUME NEW b \in Byte, NEW n \in Nat
    PROVE  Miso(b, n) \in Byte
BY DEF Miso, Byte

(* The placeholder of an empty shifter is typed as a byte.                 *)
LEMMA NoByteIsAByte == NoByte \in Byte
BY MosiIsAByte DEF NoByte

(* The state init_spi() leaves has the types and the control facts.        *)
LEMMA InitTypeControl == Init => TypeOK /\ Control
<1> SUFFICES ASSUME Init PROVE TypeOK /\ Control
    OBVIOUS
<1> USE CoreAssumption, SendAssumption DEF Init, CoreReady
<1>1. CoreTypeOK
    <2>1. <<>> \in Seq(Byte) /\ Len(<<>>) = 0
        OBVIOUS
    <2>2. InShifter = 0
        BY DEF InShifter
    <2>3. TxOccupancy = 0
        BY <2>1, <2>2 DEF TxOccupancy
    <2>4. cr \subseteq CrBits
        BY DEF CrBits
    <2>5. tx \in Seq(Byte) /\ Len(tx) <= FifoDepth /\ rx \in Seq(Byte)
            /\ Len(rx) <= FifoDepth /\ TxOccupancy <= FifoDepth /\ clocked \in Nat
        BY <2>1, <2>3
    <2>6. selected \in BOOLEAN
        BY Zenon
    <2>7. shift \in Byte
        BY NoByteIsAByte
    <2> QED
        BY <2>4, <2>5, <2>6, <2>7, Zenon DEF CoreTypeOK
<1>2. buf \in [1..len -> Byte]
    OBVIOUS
<1>3. TypeOK
    <2>1. more \in BOOLEAN /\ inPlace \in BOOLEAN
        BY Zenon
    <2>2. /\ pc \in PCs /\ calls \in 0..MaxCalls /\ len \in 0..MaxLen
          /\ src \in 0..len /\ bytes_remaining \in 0..len
          /\ bytes_to_xfer \in 0..Chunk
          /\ i \in 0..(IF Chunk < MaxPolls THEN MaxPolls ELSE Chunk)
          /\ ret \in 0..MaxLen /\ brokenBy \in 0..calls
        BY DEF PCs
    <2> QED
        BY <1>1, <1>2, <2>1, <2>2, Zenon DEF TypeOK
<1>4. Control
    BY DEF Control, Loop, dst
<1> QED
    BY <1>3, <1>4

-----------------------------------------------------------------------------
(* TypeOK in two parts: the provers that do arithmetic are poor at Boolean *)
(* variables.                                                              *)
Bools == selected \in BOOLEAN /\ more \in BOOLEAN /\ inPlace \in BOOLEAN

CoreRanges ==
    /\ cr \subseteq CrBits
    /\ tx \in Seq(Byte) /\ TxOccupancy <= FifoDepth
    /\ shift \in Byte
    /\ rx \in Seq(Byte) /\ Len(rx) <= FifoDepth
    /\ clocked \in Nat

Ranges ==
    /\ pc \in PCs
    /\ calls \in 0..MaxCalls
    /\ len \in 0..MaxLen
    /\ src \in 0..len /\ bytes_remaining \in 0..len
    /\ bytes_to_xfer \in 0..Chunk
    /\ i \in 0..(IF Chunk < MaxPolls THEN MaxPolls ELSE Chunk)
    /\ ret \in 0..MaxLen
    /\ brokenBy \in 0..calls

(* dst has room for the bytes asked for.                                   *)
Buffer == buf \in [1..len -> Byte]

(* The parts make up TypeOK, in a state and in its successor.              *)
LEMMA TypeParts == TypeOK <=> Bools /\ CoreRanges /\ Ranges /\ Buffer
BY Zenon DEF TypeOK, CoreTypeOK, Bools, CoreRanges, Ranges, Buffer

(* The same of the next state.                                             *)
LEMMA TypePartsNext ==
    TypeOK' <=> Bools' /\ CoreRanges' /\ Ranges' /\ Buffer'
BY Zenon DEF TypeOK, CoreTypeOK, Bools, CoreRanges, Ranges, Buffer

(* Writing the control register keeps the ranges of the core's state.        *)
LEMMA WriteCRRanges ==
    ASSUME CoreRanges, NEW v \in SUBSET (CrBits \cup FifoResets), WriteCR(v),
           UNCHANGED clocked
    PROVE  CoreRanges'
<1>1. cr' \subseteq CrBits /\ clocked' \in Nat
    BY DEF CoreRanges, WriteCR, CrBits, FifoResets
<1>2. shift' \in Byte /\ (shift' = shift \/ shift' = NoByte)
    BY NoByteIsAByte DEF CoreRanges, WriteCR
<1>3. /\ tx' \in Seq(Byte) /\ Len(tx') <= Len(tx)
      /\ rx' \in Seq(Byte) /\ Len(rx') <= FifoDepth
    BY CoreAssumption DEF CoreRanges, WriteCR
<1>4. InShifter' <= InShifter /\ InShifter' \in {0, 1} /\ InShifter \in {0, 1}
    BY <1>2 DEF InShifter
<1>5. TxOccupancy' <= TxOccupancy /\ TxOccupancy' \in Nat /\ TxOccupancy \in Nat
    BY <1>3, <1>4, CoreAssumption DEF TxOccupancy, CoreRanges
<1> QED
    BY <1>1, <1>2, <1>3, <1>5, CoreAssumption DEF CoreRanges

(* Writing the data register, even to a full FIFO, keeps the ranges.       *)
LEMMA WriteDTRRanges ==
    ASSUME CoreRanges, NEW b \in Byte, WriteDTR(b),
           UNCHANGED <<cr, shift, rx, clocked>>
    PROVE  CoreRanges'
<1>1. InShifter' = InShifter /\ InShifter \in {0, 1}
    BY DEF InShifter
<1>2. CASE TxFull
    <2>1. tx' = tx /\ TxOccupancy' = TxOccupancy
        BY <1>1, <1>2 DEF WriteDTR, TxOccupancy
    <2> QED
        BY <2>1 DEF CoreRanges
<1>3. CASE ~TxFull
    <2>1. tx' \in Seq(Byte) /\ Len(tx') = Len(tx) + 1 /\ Len(tx) \in Nat
        BY <1>3, AppendProperties, LenProperties DEF WriteDTR, CoreRanges
    <2>2. TxOccupancy' = TxOccupancy + 1 /\ TxOccupancy \in Nat
        BY <1>1, <2>1, CoreAssumption DEF TxOccupancy
    <2>3. TxOccupancy' <= FifoDepth
        BY <1>3, <2>2, CoreAssumption DEF TxFull, CoreRanges
    <2> QED
        BY <2>1, <2>3 DEF CoreRanges
<1> QED
    BY <1>2, <1>3

(* Reading the data register takes the oldest byte received.               *)
LEMMA ReadDRRRanges ==
    ASSUME CoreRanges, rx # <<>>, ReadDRR, UNCHANGED <<cr, tx, shift, clocked>>
    PROVE  /\ CoreRanges'
           /\ Head(rx) \in Byte /\ rx' = Tail(rx)
           /\ Len(rx) \in Nat \ {0} /\ Len(rx') = Len(rx) - 1
           /\ \A j \in 1..Len(rx') : rx'[j] = rx[j + 1]
<1>1. rx' = Tail(rx)
    BY DEF ReadDRR, RxEmpty
<1>2. /\ Head(rx) \in Byte /\ rx' \in Seq(Byte)
      /\ Len(rx) \in Nat \ {0} /\ Len(rx') = Len(rx) - 1
      /\ \A j \in 1..Len(rx') : rx'[j] = rx[j + 1]
    BY <1>1, HeadTailProperties, LenProperties, EmptySeq DEF CoreRanges
<1>3. TxOccupancy' = TxOccupancy
    BY DEF TxOccupancy, InShifter
<1> QED
    BY <1>1, <1>2, <1>3, CoreAssumption DEF CoreRanges

(* The core takes the oldest byte to send into its shifter.                *)
LEMMA ShiftStartRanges ==
    ASSUME CoreRanges, ShiftStart
    PROVE  /\ CoreRanges'
           /\ shift' = tx[1] /\ tx' = Tail(tx) /\ tx # <<>>
           /\ Len(tx) \in Nat \ {0} /\ Len(tx') = Len(tx) - 1
           /\ \A j \in 1..Len(tx') : tx'[j] = tx[j + 1]
<1>1. /\ shift' \in Byte /\ tx' \in Seq(Byte)
      /\ Len(tx) \in Nat \ {0} /\ Len(tx') = Len(tx) - 1
      /\ \A j \in 1..Len(tx') : tx'[j] = tx[j + 1]
    BY HeadTailProperties, EmptySeq DEF CoreRanges, ShiftStart
<1>2. shift' = tx[1]
    BY <1>1 DEF ShiftStart, CoreRanges
<1>3. InShifter = 0 /\ InShifter' \in {0, 1}
    BY DEF InShifter, ShiftStart
<1>4. TxOccupancy' <= TxOccupancy /\ TxOccupancy' \in Int /\ TxOccupancy \in Int
    BY <1>1, <1>3, CoreAssumption DEF TxOccupancy
<1>5. tx' = Tail(tx) /\ tx # <<>>
    BY DEF ShiftStart
<1>6. cr' = cr /\ rx' = rx /\ clocked' = clocked
    BY DEF ShiftStart
<1>7. TxOccupancy' <= FifoDepth
    BY <1>4, CoreAssumption DEF CoreRanges
<1> QED
    BY <1>1, <1>2, <1>5, <1>6, <1>7 DEF CoreRanges

(* The core stores the answer to the byte in its shifter, if there is room.*)
LEMMA ShiftDoneRanges ==
    ASSUME CoreRanges, selected \in BOOLEAN, ShiftDone
    PROVE  /\ CoreRanges'
           /\ shift # NoByte /\ shift' = NoByte
           /\ UNCHANGED <<cr, selected, tx>>
           /\ Len(rx) < FifoDepth /\ selected =>
                /\ clocked' = clocked + 1
                /\ rx' = Append(rx, Miso(shift, clocked + 1))
<1> DEFINE pos == IF selected THEN clocked + 1 ELSE 0
<1>1. pos \in Nat
    BY DEF CoreRanges
<1>2. clocked' \in Nat
    BY <1>1 DEF ShiftDone, CoreRanges
<1>3. Miso(shift, pos) \in Byte
    BY <1>1, MisoIsAByte DEF CoreRanges
<1>4. rx' \in Seq(Byte) /\ Len(rx') <= FifoDepth
    <2>1. rx' = IF Len(rx) = FifoDepth THEN rx ELSE Append(rx, Miso(shift, pos))
        BY DEF ShiftDone
    <2>2. Append(rx, Miso(shift, pos)) \in Seq(Byte)
          /\ Len(Append(rx, Miso(shift, pos))) = Len(rx) + 1
        BY <1>3, AppendProperties DEF CoreRanges
    <2>3. Len(rx) \in Nat
        BY LenProperties DEF CoreRanges
    <2> HIDE DEF pos
    <2> QED
        BY <2>1, <2>2, <2>3, CoreAssumption DEF CoreRanges
<1>5. /\ shift # NoByte /\ shift' = NoByte
      /\ UNCHANGED <<cr, selected, tx>>
    BY DEF ShiftDone
<1>6. TxOccupancy' <= FifoDepth
    <2>1. InShifter' = 0 /\ InShifter = 1
        BY <1>5 DEF InShifter
    <2>2. Len(tx) \in Nat
        BY LenProperties DEF CoreRanges
    <2> QED
        BY <1>5, <2>1, <2>2, CoreAssumption DEF TxOccupancy, CoreRanges
<1>7. Len(rx) < FifoDepth /\ selected =>
          /\ clocked' = clocked + 1
          /\ rx' = Append(rx, Miso(shift, clocked + 1))
    BY CoreAssumption, LenProperties DEF ShiftDone, CoreRanges
<1> QED
    BY <1>2, <1>4, <1>5, <1>6, <1>7, NoByteIsAByte DEF CoreRanges

-----------------------------------------------------------------------------
(* Every step keeps the types and the control facts.                       *)
LEMMA NextTypeControl ==
    TypeOK /\ Control /\ [Next]_vars => TypeOK' /\ Control'
<1> SUFFICES ASSUME TypeOK, Control, [Next]_vars
             PROVE  TypeOK' /\ Control'
    OBVIOUS
<1> USE CoreAssumption, SendAssumption
<1>a. Bools /\ CoreRanges /\ Ranges /\ Buffer
    BY TypeParts
<1>b. ASSUME Bools', CoreRanges', Ranges', Buffer'
      PROVE  TypeOK'
    BY <1>b, TypePartsNext
<1>1. CASE Reset
    <2>1. Bools'
        BY <1>1, <1>a, Zenon DEF Bools, Reset, callVars, localVars
    <2>2. CoreRanges'
        <3>1. cr \cup FifoResets \in SUBSET (CrBits \cup FifoResets)
            BY <1>a DEF CoreRanges, CrBits, FifoResets
        <3> QED
            BY <1>1, <1>a, <3>1, WriteCRRanges DEF Reset
    <2>3. Ranges'
        BY <1>1, <1>a DEF Ranges, PCs, Reset, callVars, localVars
    <2>4. Buffer'
        BY <1>1, <1>a DEF Buffer, Reset, callVars, localVars
    <2>5. Control'
        BY <1>1, <1>a DEF Control, Loop, dst, Bools, Ranges, CoreRanges, PCs,
           Reset, callVars, localVars, WriteCR, FifoResets
    <2> QED
        BY <2>1, <2>2, <2>3, <2>4, <2>5, <1>b
<1>2. CASE Enable
    <2>1. Bools'
        BY <1>2, <1>a, Zenon DEF Bools, Enable, callVars, localVars
    <2>2. CoreRanges'
        <3>1. (cr \cup {"ENABLE"}) \ {"INHIBIT"} \in SUBSET (CrBits \cup FifoResets)
            BY <1>a DEF CoreRanges, CrBits, FifoResets
        <3> QED
            BY <1>2, <1>a, <3>1, WriteCRRanges DEF Enable
    <2>3. Ranges'
        BY <1>2, <1>a DEF Ranges, PCs, Enable, callVars, localVars
    <2>4. Buffer'
        BY <1>2, <1>a DEF Buffer, Enable, callVars, localVars
    <2>5. Control'
        BY <1>2, <1>a DEF Control, Loop, dst, Bools, Ranges, CoreRanges, PCs,
           Enable, callVars, localVars, WriteCR, FifoResets
    <2> QED
        BY <2>1, <2>2, <2>3, <2>4, <2>5, <1>b
<1>3. CASE Select
    <2>1. Bools'
        BY <1>3, <1>a, Zenon DEF Bools, Select, callVars, localVars, WriteSSR
    <2>2. CoreRanges'
        BY <1>3, <1>a DEF CoreRanges, Select, WriteSSR, TxOccupancy, InShifter
    <2>3. Ranges'
        BY <1>3, <1>a DEF Ranges, PCs, Select, callVars, localVars
    <2>4. Buffer'
        BY <1>3, <1>a DEF Buffer, Select, callVars, localVars
    <2>5. Control'
        BY <1>3, <1>a DEF Control, Loop, dst, Bools, Ranges, CoreRanges, PCs,
           Select, callVars, localVars, WriteSSR
    <2> QED
        BY <2>1, <2>2, <2>3, <2>4, <2>5, <1>b
<1>4. CASE NextChunk
    <2>1. Bools'
        BY <1>4, <1>a, Zenon DEF Bools, NextChunk, callVars, localVars,
           coreVars
    <2>2. CoreRanges'
        BY <1>4, <1>a DEF CoreRanges, NextChunk, coreVars, TxOccupancy,
           InShifter
    <2>3. Ranges'
        BY <1>4, <1>a DEF Ranges, PCs, NextChunk, callVars, localVars,
           coreVars
    <2>4. Buffer'
        BY <1>4, <1>a DEF Buffer, NextChunk, callVars, localVars, coreVars
    <2>5. Control'
        BY <1>4, <1>a DEF Control, Loop, dst, Bools, Ranges, CoreRanges, PCs,
           NextChunk, callVars, localVars, coreVars
    <2> QED
        BY <2>1, <2>2, <2>3, <2>4, <2>5, <1>b
<1>5. CASE Fill
    <2>1. Bools'
        BY <1>5, <1>a, Zenon DEF Bools, Fill, callVars, localVars
    <2>2. CoreRanges'
        <3>1. src + 1 \in 1..len
            BY <1>5, <1>a DEF Control, Ranges, Fill, dst
        <3>2. SrcByte(src + 1) \in Byte
            BY <1>a, <3>1, MosiIsAByte DEF SrcByte, Buffer, Ranges
        <3> QED
            BY <1>5, <1>a, <3>2, WriteDTRRanges DEF Fill
    <2>3. Ranges'
        BY <1>5, <1>a DEF Ranges, PCs, Fill, callVars, localVars, Control, dst
    <2>4. Buffer'
        BY <1>5, <1>a DEF Buffer, Fill, callVars, localVars, Control, dst
    <2>5. Control'
        BY <1>5, <1>a DEF Control, Loop, dst, Bools, Ranges, CoreRanges, PCs,
           Fill, callVars, localVars
    <2> QED
        BY <2>1, <2>2, <2>3, <2>4, <2>5, <1>b
<1>6. CASE Poll
    <2>1. Bools'
        BY <1>6, <1>a, Zenon DEF Bools, Poll, callVars, localVars, coreVars
    <2>2. CoreRanges'
        BY <1>6, <1>a DEF CoreRanges, Poll, coreVars, TxOccupancy, InShifter
    <2>3. Ranges'
        BY <1>6, <1>a DEF Ranges, PCs, Poll, callVars, localVars, coreVars,
           Control
    <2>4. Buffer'
        BY <1>6, <1>a DEF Buffer, Poll, callVars, localVars, coreVars, Control
    <2>5. Control'
        BY <1>6, <1>a DEF Control, Loop, dst, Bools, Ranges, CoreRanges, PCs,
           Poll, callVars, localVars, coreVars
    <2> QED
        BY <2>1, <2>2, <2>3, <2>4, <2>5, <1>b
<1>7. CASE TimedOut
    <2>1. Bools'
        BY <1>7, <1>a, Zenon DEF Bools, TimedOut, callVars, localVars,
           coreVars, ReturnShort
    <2>2. CoreRanges'
        BY <1>7, <1>a DEF CoreRanges, TimedOut, ReturnShort, coreVars,
           TxOccupancy, InShifter
    <2>3. Ranges'
        BY <1>7, <1>a DEF Ranges, PCs, TimedOut, callVars, localVars,
           coreVars, ReturnShort
    <2>4. Buffer'
        BY <1>7, <1>a DEF Buffer, TimedOut, callVars, localVars, coreVars,
           ReturnShort
    <2>5. Control'
        BY <1>7, <1>a DEF Control, Loop, dst, Bools, Ranges, CoreRanges, PCs,
           TimedOut, callVars, localVars, coreVars, ReturnShort
    <2> QED
        BY <2>1, <2>2, <2>3, <2>4, <2>5, <1>b
<1>8. CASE Underflow
    <2>1. Bools'
        BY <1>8, <1>a, Zenon DEF Bools, Underflow, callVars, localVars,
           coreVars, ReturnShort
    <2>2. CoreRanges'
        BY <1>8, <1>a DEF CoreRanges, Underflow, ReturnShort, coreVars,
           TxOccupancy, InShifter
    <2>3. Ranges'
        BY <1>8, <1>a DEF Ranges, PCs, Underflow, callVars, localVars,
           coreVars, ReturnShort
    <2>4. Buffer'
        BY <1>8, <1>a DEF Buffer, Underflow, callVars, localVars, coreVars,
           ReturnShort
    <2>5. Control'
        BY <1>8, <1>a DEF Control, Loop, dst, Bools, Ranges, CoreRanges, PCs,
           Underflow, callVars, localVars, coreVars, ReturnShort
    <2> QED
        BY <2>1, <2>2, <2>3, <2>4, <2>5, <1>b
<1>9. CASE Drain
    <2>1. Bools'
        BY <1>9, <1>a, Zenon DEF Bools, Drain, callVars, localVars
    <2>2. CoreRanges'
        BY <1>9, <1>a, ReadDRRRanges DEF Drain, RxEmpty
    <2>3. Ranges'
        BY <1>9, <1>a DEF Ranges, PCs, Drain, callVars, localVars, Control,
           dst
    <2>4. Buffer'
        <3>1. Head(rx) \in Byte
            BY <1>9, <1>a, ReadDRRRanges DEF Drain, RxEmpty
        <3> QED
            BY <1>9, <1>a, <3>1, Zenon DEF Buffer, Drain, callVars
    <2>5. Control'
        BY <1>9, <1>a DEF Control, Loop, dst, Bools, Ranges, CoreRanges, PCs,
           Drain, callVars, localVars
    <2> QED
        BY <2>1, <2>2, <2>3, <2>4, <2>5, <1>b
<1>10. CASE Deselect
    <2>1. Bools'
        BY <1>10, <1>a, Zenon DEF Bools, Deselect, callVars, localVars,
           WriteSSR
    <2>2. CoreRanges'
        BY <1>10, <1>a DEF CoreRanges, Deselect, WriteSSR, TxOccupancy,
           InShifter
    <2>3. Ranges'
        BY <1>10, <1>a DEF Ranges, PCs, Deselect, callVars, localVars
    <2>4. Buffer'
        BY <1>10, <1>a DEF Buffer, Deselect, callVars, localVars
    <2>5. Control'
        BY <1>10, <1>a DEF Control, Loop, dst, Bools, Ranges, CoreRanges, PCs,
           Deselect, callVars, localVars, WriteSSR
    <2> QED
        BY <2>1, <2>2, <2>3, <2>4, <2>5, <1>b
<1>11. CASE Disable
    <2>1. Bools'
        BY <1>11, <1>a, Zenon DEF Bools, Disable, callVars, localVars
    <2>2. CoreRanges'
        <3>1. cr \ {"ENABLE"} \in SUBSET (CrBits \cup FifoResets)
            BY <1>a DEF CoreRanges, CrBits, FifoResets
        <3> QED
            BY <1>11, <1>a, <3>1, WriteCRRanges DEF Disable
    <2>3. Ranges'
        BY <1>11, <1>a DEF Ranges, PCs, Disable, callVars, localVars
    <2>4. Buffer'
        BY <1>11, <1>a, SMTT(30) DEF Buffer, Disable, callVars, localVars
    <2>5. Control'
        BY <1>11, <1>a DEF Control, Loop, dst, Bools, Ranges, CoreRanges, PCs,
           Disable, callVars, localVars, WriteCR, FifoResets
    <2> QED
        BY <2>1, <2>2, <2>3, <2>4, <2>5, <1>b
<1>12. CASE ReturnMore
    <2>1. Bools'
        BY <1>12, <1>a, Zenon DEF Bools, ReturnMore, callVars, localVars,
           coreVars
    <2>2. CoreRanges'
        BY <1>12, <1>a DEF CoreRanges, ReturnMore, coreVars, TxOccupancy,
           InShifter
    <2>3. Ranges'
        BY <1>12, <1>a DEF Ranges, PCs, ReturnMore, callVars, localVars,
           coreVars
    <2>4. Buffer'
        BY <1>12, <1>a, SMTT(30) DEF Buffer, ReturnMore, callVars, localVars, coreVars
    <2>5. Control'
        BY <1>12, <1>a DEF Control, Loop, dst, Bools, Ranges, CoreRanges, PCs,
           ReturnMore, callVars, localVars, coreVars
    <2> QED
        BY <2>1, <2>2, <2>3, <2>4, <2>5, <1>b
<1>13. CASE \E l \in 0..MaxLen, m, p \in BOOLEAN : Call(l, m, p)
    <2> PICK l \in 0..MaxLen, m \in BOOLEAN, p \in BOOLEAN : Call(l, m, p)
        BY <1>13
    <2>1. Bools'
        BY <1>a, Zenon DEF Bools, Call, coreVars
    <2>2. CoreRanges'
        BY <1>a DEF CoreRanges, Call, coreVars, TxOccupancy, InShifter
    <2>3. Ranges'
        BY <1>a DEF Ranges, PCs, Call
    <2>4. Buffer'
        BY <1>a, MosiIsAByte, NoByteIsAByte, SMTT(30) DEF Buffer, Call, Ranges
    <2>5. Control'
        BY <1>a DEF Control, Loop, dst, Bools, Ranges, CoreRanges, PCs, Call,
           coreVars
    <2> QED
        BY <2>1, <2>2, <2>3, <2>4, <2>5, <1>b
<1>14. CASE ShiftStart /\ UNCHANGED <<pc, callVars, localVars, ret, brokenBy>>
    <2>1. Bools'
        BY <1>14, <1>a, Zenon DEF Bools, ShiftStart, callVars, localVars
    <2>2. CoreRanges'
        BY <1>14, <1>a, ShiftStartRanges DEF Bools
    <2>3. Ranges'
        BY <1>14, <1>a DEF Ranges, PCs, callVars, localVars
    <2>4. Buffer'
        BY <1>14, <1>a, SMTT(30) DEF Buffer, callVars, localVars
    <2>5. Control'
        BY <1>14, <1>a DEF Control, Loop, dst, Bools, Ranges, CoreRanges, PCs,
           ShiftStart, callVars, localVars
    <2> QED
        BY <2>1, <2>2, <2>3, <2>4, <2>5, <1>b
<1>15. CASE ShiftDone /\ UNCHANGED <<pc, callVars, localVars, ret, brokenBy>>
    <2>1. Bools'
        BY <1>15, <1>a, Zenon DEF Bools, ShiftDone, callVars, localVars
    <2>2. CoreRanges'
        BY <1>15, <1>a, ShiftDoneRanges, SMTT(30) DEF Bools
    <2>3. Ranges'
        BY <1>15, <1>a DEF Ranges, PCs, callVars, localVars
    <2>4. Buffer'
        BY <1>15, <1>a DEF Buffer, callVars, localVars
    <2>5. Control'
        BY <1>15, <1>a DEF Control, Loop, dst, Bools, Ranges, CoreRanges, PCs,
           ShiftDone, callVars, localVars
    <2> QED
        BY <2>1, <2>2, <2>3, <2>4, <2>5, <1>b
<1>16. CASE UNCHANGED vars
    <2>1. Bools' /\ CoreRanges' /\ Ranges' /\ Buffer'
        BY <1>16, <1>a, SMTT(30) DEF Bools, CoreRanges, Ranges, Buffer, vars, coreVars,
            callVars, localVars, TxOccupancy, InShifter, PCs
    <2>2. Control'
        BY <1>16 DEF Control, Loop, dst, vars, coreVars, callVars, localVars
    <2> QED
        BY <2>1, <2>2, <1>b
<1> QED
    BY <1>1, <1>2, <1>3, <1>4, <1>5, <1>6, <1>7, <1>8, <1>9, <1>10, <1>11,
       <1>12, <1>13, <1>14, <1>15, <1>16, SMTT(30) DEF Next, Processor, Core,
       NoMoreCalls

(* Types and control facts hold in every state of send_spi() and the core. *)
LEMMA TypeControlHolds == Spec => [](TypeOK /\ Control)
<1>1. Init => TypeOK /\ Control
    BY InitTypeControl
<1>2. TypeOK /\ Control /\ [Next]_vars => (TypeOK /\ Control)'
    BY NextTypeControl
<1> QED
    BY <1>1, <1>2, PTL DEF Spec

(* For every bound, no step of the program or of the core takes a FIFO     *)
(* over its depth, an index of send_spi() out of its buffers or a counter  *)
(* out of its range.                                                       *)
THEOREM TypeCorrect == Spec => []TypeOK
BY TypeControlHolds, PTL

(* Between calls the flash is selected exactly when the core is enabled,   *)
(* and exactly when the latest call asked for SEND_SPI_MORE or failed.     *)
THEOREM OpenBetweenCallsHolds == Spec => []OpenBetweenCalls
<1>1. Control => OpenBetweenCalls
    BY SMTT(30) DEF Control, OpenBetweenCalls
<1> QED
    BY <1>1, TypeControlHolds, PTL

-----------------------------------------------------------------------------
(* A step that moves no byte keeps the account of the bytes.               *)
LEMMA ContentFrame ==
    ASSUME Content,
           UNCHANGED <<tx, shift, rx, clocked, buf, src,
                       bytes_remaining, len, calls>>
    PROVE  Content'
BY DEF Content, InShifter, Delivered, dst

(* When everything read from src has been stored, no byte is left in the   *)
(* core.                                                                   *)
LEMMA NothingUnderWay ==
    ASSUME CoreRanges, Content, src = dst, dst \in Int
    PROVE  tx = <<>> /\ rx = <<>> /\ shift = NoByte
<1>1. Len(tx) \in Nat /\ Len(rx) \in Nat /\ InShifter \in {0, 1}
    BY LenProperties DEF CoreRanges, InShifter
<1>2. Len(tx) = 0 /\ Len(rx) = 0 /\ InShifter = 0
    BY <1>1 DEF Content
<1>3. tx = <<>> /\ rx = <<>>
    BY <1>2, EmptySeq DEF CoreRanges
<1>4. shift = NoByte
    BY <1>2 DEF InShifter
<1> QED
    BY <1>3, <1>4

(* The initial state of a transfer: nothing sent, nothing stored.          *)
LEMMA EmptyContent ==
    ASSUME tx = <<>>, rx = <<>>, shift = NoByte, src = 0, dst = 0
    PROVE  Content
<1>1. Len(tx) = 0 /\ Len(rx) = 0 /\ InShifter = 0
    BY DEF InShifter
<1> QED
    BY <1>1 DEF Content

(* The same of the next state.                                             *)
LEMMA EmptyContentNext ==
    ASSUME tx' = <<>>, rx' = <<>>, shift' = NoByte, src' = 0, dst' = 0
    PROVE  Content'
<1>1. Len(tx') = 0 /\ Len(rx') = 0 /\ InShifter' = 0
    BY DEF InShifter
<1> QED
    BY <1>1 DEF Content

(* The account of the bytes holds before the first call.                   *)
LEMMA InitData == Init => Data
<1> SUFFICES ASSUME Init PROVE Data
    OBVIOUS
<1>1. dst = 0 /\ src = 0 /\ len = 0
    BY DEF Init, dst
<1>2. Untouched
    BY <1>1 DEF Untouched
<1>3. Content
    BY <1>1, EmptyContent, SMTT(30) DEF Init, CoreReady
<1> QED
    BY <1>2, <1>3 DEF Data

-----------------------------------------------------------------------------
(* A byte written to the data register by the fill loop is not lost, and is*)
(* the next one of the source.                                             *)
LEMMA FillContent ==
    ASSUME TypeOK, Control, Untouched, Content, Fill
    PROVE  Content'
<1> USE CoreAssumption, SendAssumption
<1>a. CoreRanges /\ Ranges /\ Bools /\ Buffer
    BY TypeParts
<1>1. /\ Len(tx) \in Nat /\ Len(rx) \in Nat /\ InShifter \in {0, 1}
      /\ dst \in Nat /\ src \in Nat /\ calls \in Nat
    BY <1>a, LenProperties, SMTT(30) DEF CoreRanges, InShifter, Ranges, dst
<1>2. src - dst < Chunk /\ src + 1 \in (dst + 1)..len
    BY <1>a, <1>1 DEF Control, Fill, Ranges, dst
<1>3. ~TxFull
    <2>1. TxOccupancy <= Len(tx) + InShifter /\ TxOccupancy \in Nat
        BY <1>1 DEF TxOccupancy
    <2>2. Len(tx) + InShifter <= src - dst
        BY <1>1 DEF Content
    <2> QED
        BY <1>1, <1>2, <2>1, <2>2 DEF TxFull
<1>4. SrcByte(src + 1) = Mosi(calls, src + 1)
    BY <1>2 DEF Untouched, SrcByte
<1>5. tx' = Append(tx, Mosi(calls, src + 1)) /\ Mosi(calls, src + 1) \in Byte
    BY <1>1, <1>3, <1>4, MosiIsAByte DEF Fill, WriteDTR
<1>6. /\ Len(tx') = Len(tx) + 1
      /\ \A j \in 1..Len(tx) : tx'[j] = tx[j]
      /\ tx'[Len(tx) + 1] = Mosi(calls, src + 1)
    BY <1>a, <1>5, AppendProperties DEF CoreRanges
<1>7. /\ InShifter' = InShifter /\ rx' = rx /\ shift' = shift
      /\ dst' = dst /\ src' = src + 1
      /\ calls' = calls /\ buf' = buf /\ clocked' = clocked
    BY DEF Fill, callVars, InShifter, dst
<1>8. \A j \in 1..Len(tx') :
          tx'[j] = Mosi(calls, dst + Len(rx) + InShifter + j)
    <2>1. dst + Len(rx) + InShifter + (Len(tx) + 1) = src + 1
        BY <1>1, SMTT(30) DEF Content
    <2> TAKE j \in 1..Len(tx')
    <2>2. CASE j \in 1..Len(tx)
        BY <1>6, <2>2 DEF Content
    <2>3. CASE j = Len(tx) + 1
        BY <1>6, <2>1, <2>3
    <2> QED
        BY <1>1, <1>6, <2>2, <2>3
<1>9. Len(tx') + InShifter' + Len(rx') = src' - dst'
    BY <1>1, <1>6, <1>7, SMTT(30) DEF Content
<1>10. \A k \in 1..dst' : Delivered(k)'
    BY <1>7, SMTT(30) DEF Content, Delivered
<1> QED
    BY <1>7, <1>8, <1>9, <1>10 DEF Content

(* The drain loop stores the answer to byte dst + 1 at place dst + 1.      *)
LEMMA DrainContent ==
    ASSUME TypeOK, Control, Content, Drain
    PROVE  Content'
<1>a. CoreRanges /\ Ranges /\ Bools /\ Buffer
    BY TypeParts
<1>1. /\ Len(tx) \in Nat /\ Len(rx) \in Nat /\ InShifter \in {0, 1}
      /\ dst \in Nat /\ src \in Nat /\ calls \in Nat /\ clocked \in Nat
    BY <1>a, SendAssumption, LenProperties DEF CoreRanges, InShifter, Ranges,
       dst
<1>2. /\ Len(rx) \in Nat \ {0} /\ Len(rx') = Len(rx) - 1
      /\ \A j \in 1..Len(rx') : rx'[j] = rx[j + 1]
      /\ Head(rx) = rx[1]
    BY <1>a, ReadDRRRanges DEF Drain, RxEmpty, CoreRanges
<1>3. /\ InShifter' = InShifter /\ tx' = tx /\ shift' = shift
      /\ dst' = dst + 1 /\ src' = src
      /\ calls' = calls /\ clocked' = clocked
    BY <1>a DEF Drain, callVars, InShifter, dst, Ranges
<1>b. buf' = [buf EXCEPT ![dst + 1] = Head(rx)]
    BY SMTT(30) DEF Drain
<1>4. dst + 1 \in 1..len
    BY <1>1, <1>a, SendAssumption DEF Control, Drain, Ranges, dst
<1>c. Len(tx) + InShifter + Len(rx) = src - dst
    BY DEF Content
<1>d. Len(rx') = Len(rx) - 1 /\ Len(tx') = Len(tx)
    BY <1>2, <1>3
<1>5. Len(tx') + InShifter' + Len(rx') = src' - dst'
    BY <1>c, <1>d, <1>1, <1>3, SMTT(30)
<1>6. \A j \in 1..Len(rx') :
          rx'[j] = Miso(Mosi(calls', dst' + j), clocked' - Len(rx') + j)
    <2> TAKE j \in 1..Len(rx')
    <2>1. j + 1 \in 1..Len(rx) /\ rx'[j] = rx[j + 1]
        BY <1>2
    <2>2. /\ dst + (j + 1) = dst' + j
          /\ clocked - Len(rx) + (j + 1) = clocked' - Len(rx') + j
        BY <1>d, <1>1, <1>3, <2>1
    <2> QED
        BY <1>3, <2>1, <2>2 DEF Content
<1>7. shift' # NoByte => shift' = Mosi(calls', dst' + Len(rx') + 1)
    <2>1. dst' + Len(rx') = dst + Len(rx)
        BY <1>d, <1>1, <1>3
    <2> QED
        BY <1>3, <2>1 DEF Content
<1>8. \A j \in 1..Len(tx') :
          tx'[j] = Mosi(calls', dst' + Len(rx') + InShifter' + j)
    <2>1. dst' + Len(rx') = dst + Len(rx)
        BY <1>d, <1>1, <1>3
    <2> QED
        BY <1>3, <2>1 DEF Content
<1>9. \A k \in 1..dst' : Delivered(k)'
    <2> TAKE k \in 1..dst'
    <2>1. clocked' - Len(rx') - dst' + k = clocked - Len(rx) - dst + k
        BY <1>d, <1>1, <1>3, SMTT(30)
    <2>2. CASE k \in 1..dst
        <3>1. buf'[k] = buf[k]
            BY <1>a, <1>b, <1>1, <1>4, <2>2, SMTT(30) DEF Buffer, Ranges
        <3> QED
            BY <1>3, <2>1, <2>2, <3>1 DEF Content, Delivered
    <2>3. CASE k = dst + 1
        <3>1. buf'[k] = rx[1]
            BY <1>a, <1>b, <1>2, <1>4, <2>3 DEF Buffer
        <3>2. rx[1] = Miso(Mosi(calls, dst + 1), clocked - Len(rx) + 1)
            BY <1>2 DEF Content
        <3>3. clocked - Len(rx) + 1 = clocked' - Len(rx') - dst' + k
            BY <1>d, <1>1, <1>3, <2>3, SMTT(30)
        <3> QED
            BY <1>3, <2>3, <3>1, <3>2, <3>3, SMTT(30) DEF Delivered
    <2> QED
        BY <1>1, <1>3, <2>2, <2>3
<1> QED
    BY <1>5, <1>6, <1>7, <1>8, <1>9 DEF Content

(* A byte that enters the shifter keeps its place in the order.            *)
LEMMA ShiftStartContent ==
    ASSUME TypeOK, Content, ShiftStart,
           UNCHANGED <<pc, callVars, localVars, ret, brokenBy>>
    PROVE  Content'
<1>a. CoreRanges /\ Ranges
    BY TypeParts
<1>1. /\ Len(tx) \in Nat \ {0} /\ Len(tx') = Len(tx) - 1 /\ Len(rx) \in Nat
      /\ \A j \in 1..Len(tx') : tx'[j] = tx[j + 1]
      /\ shift' = tx[1]
      /\ dst \in Nat /\ src \in Nat /\ calls \in Nat
    BY <1>a, SendAssumption, ShiftStartRanges, LenProperties
       DEF CoreRanges, Ranges, dst
<1>2. /\ rx' = rx /\ clocked' = clocked /\ src' = src /\ dst' = dst
      /\ calls' = calls /\ buf' = buf
    BY DEF ShiftStart, callVars, localVars, dst
<1>3. InShifter = 0
    BY DEF ShiftStart, InShifter
<1>4. shift' = Mosi(calls, dst + Len(rx) + 1)
    BY <1>1, <1>3 DEF Content
<1>5. InShifter' = 1
    BY <1>1, <1>4, MosiIsAByte DEF InShifter
<1>6. Len(tx') + InShifter' + Len(rx') = src' - dst'
    BY <1>1, <1>2, <1>3, <1>5, SMTT(30) DEF Content
<1>7. \A j \in 1..Len(tx') :
          tx'[j] = Mosi(calls', dst' + Len(rx') + InShifter' + j)
    <2> TAKE j \in 1..Len(tx')
    <2>1. j + 1 \in 1..Len(tx) /\ tx'[j] = tx[j + 1]
        BY <1>1
    <2>2. dst + Len(rx) + InShifter + (j + 1) = dst' + Len(rx') + InShifter' + j
        BY <1>1, <1>2, <1>3, <1>5
    <2> QED
        BY <1>2, <2>1, <2>2 DEF Content
<1>8. \A k \in 1..dst' : Delivered(k)'
    BY <1>2, SMTT(30) DEF Content, Delivered
<1> QED
    BY <1>2, <1>4, <1>6, <1>7, <1>8 DEF Content

(* The answer to the byte in the shifter follows those received before, and*)
(* there is room for it.                                                   *)
LEMMA ShiftDoneContent ==
    ASSUME TypeOK, Content, ShiftDone, selected, src - dst <= Chunk,
           UNCHANGED <<pc, callVars, localVars, ret, brokenBy>>
    PROVE  Content'
<1>a. CoreRanges /\ Ranges /\ Bools
    BY TypeParts
<1>1. /\ Len(tx) \in Nat /\ Len(rx) \in Nat /\ clocked \in Nat
      /\ dst \in Nat /\ src \in Nat /\ calls \in Nat
    BY <1>a, SendAssumption, LenProperties DEF CoreRanges, Ranges, dst
<1>2. InShifter = 1 /\ InShifter' = 0 /\ shift # NoByte /\ shift' = NoByte
    BY DEF ShiftDone, InShifter
<1>3. Len(rx) < FifoDepth
    BY <1>1, <1>2, CoreAssumption, SendAssumption DEF Content
<1>4. /\ clocked' = clocked + 1 /\ tx' = tx
      /\ rx' = Append(rx, Miso(shift, clocked + 1))
    BY <1>a, <1>3, ShiftDoneRanges DEF Bools
<1>5. Miso(shift, clocked + 1) \in Byte
    BY <1>a, <1>1, MisoIsAByte DEF CoreRanges
<1>6. /\ Len(rx') = Len(rx) + 1
      /\ \A j \in 1..Len(rx) : rx'[j] = rx[j]
      /\ rx'[Len(rx) + 1] = Miso(shift, clocked + 1)
    BY <1>a, <1>4, <1>5, AppendProperties DEF CoreRanges
<1>7. src' = src /\ dst' = dst /\ calls' = calls /\ buf' = buf
    BY DEF callVars, localVars, dst
<1>8. Len(tx') + InShifter' + Len(rx') = src' - dst'
    BY <1>1, <1>2, <1>4, <1>6, <1>7, SMTT(30) DEF Content
<1>9. \A j \in 1..Len(rx') :
          rx'[j] = Miso(Mosi(calls', dst' + j), clocked' - Len(rx') + j)
    <2> TAKE j \in 1..Len(rx')
    <2>1. clocked' - Len(rx') + j = clocked - Len(rx) + j
        BY <1>1, <1>4, <1>6, SMTT(30)
    <2>2. CASE j \in 1..Len(rx)
        BY <1>6, <1>7, <2>1, <2>2, SMTT(30) DEF Content
    <2>3. CASE j = Len(rx) + 1
        <3>1. clocked - Len(rx) + j = clocked + 1 /\ dst + j = dst + Len(rx) + 1
            BY <1>1, <2>3
        <3> QED
            BY <1>2, <1>6, <1>7, <2>1, <2>3, <3>1 DEF Content
    <2> QED
        BY <1>1, <1>6, <2>2, <2>3
<1>10. \A j \in 1..Len(tx') :
          tx'[j] = Mosi(calls', dst' + Len(rx') + InShifter' + j)
    <2>1. dst' + Len(rx') + InShifter' = dst + Len(rx) + InShifter
        BY <1>1, <1>2, <1>6, <1>7, SMTT(30)
    <2> QED
        BY <1>4, <1>7, <2>1 DEF Content
<1>11. \A k \in 1..dst' : Delivered(k)'
    <2> TAKE k \in 1..dst'
    <2>1. clocked' - Len(rx') - dst' + k = clocked - Len(rx) - dst + k
        BY <1>1, <1>4, <1>6, <1>7
    <2> QED
        BY <1>7, <2>1 DEF Content, Delivered
<1> QED
    BY <1>2, <1>8, <1>9, <1>10, <1>11 DEF Content

-----------------------------------------------------------------------------
(* Every step keeps account of every byte.                                 *)
LEMMA NextData == IInv /\ [Next]_vars => Data'
<1> SUFFICES ASSUME IInv, [Next]_vars PROVE Data'
    OBVIOUS
<1>a. TypeOK /\ Control /\ Untouched /\ (Sound /\ pc # "reset" => Content)
    BY DEF IInv, Data
<1>b. CoreRanges /\ Ranges /\ Bools /\ Buffer
    BY <1>a, TypeParts
<1>c. dst \in Nat /\ src \in Nat /\ len \in Nat /\ calls \in Nat /\ brokenBy \in Nat
    BY <1>b, SendAssumption DEF Ranges, dst
<1>d. ASSUME Untouched', Sound' /\ pc' # "reset" => Content'
      PROVE  Data'
    BY <1>d DEF Data
<1>e. ASSUME UNCHANGED <<calls, len, inPlace, buf, bytes_remaining>>
      PROVE  Untouched'
    BY <1>a, <1>e DEF Untouched, dst
<1>f. ASSUME UNCHANGED <<tx, shift, rx, clocked, buf, src,
                         bytes_remaining, len, calls>>,
             Sound' => Sound, pc # "reset"
      PROVE  Sound' /\ pc' # "reset" => Content'
    BY <1>a, <1>f, ContentFrame
<1>1. CASE Reset
    <2>1. Untouched'
        BY <1>1, <1>e DEF Reset, callVars, localVars
    <2>2. Content'
        <3>1. tx' = <<>> /\ rx' = <<>> /\ shift' = NoByte
            BY <1>1, <1>a, SMTT(30) DEF Reset, WriteCR, FifoResets, Control
        <3>2. src' = 0 /\ dst' = 0
            BY <1>1, <1>a, <1>c DEF Reset, Control, localVars, callVars, dst
        <3> QED
            BY <3>1, <3>2, EmptyContentNext, SMTT(30)
    <2> QED
        BY <2>1, <2>2, <1>d
<1>2. CASE Enable
    <2>1. UNCHANGED <<tx, shift, rx, clocked, buf, src,
                      bytes_remaining, len, calls, inPlace, brokenBy>>
        BY <1>2, <1>b
           DEF Enable, WriteCR, callVars, localVars, CoreRanges, CrBits
    <2> QED
        BY <1>2, <2>1, <1>d, <1>e, <1>f DEF Enable, Sound
<1>3. CASE Select
    <2>1. Untouched'
        BY <1>3, <1>e DEF Select, callVars, localVars
    <2>2. Content'
        <3>1. src = 0 /\ dst = 0 /\ brokenBy = 0
            BY <1>3, <1>a DEF Select, Control
        <3>2. Content
            BY <1>3, <1>a, <3>1 DEF Select, Sound
        <3>3. tx = <<>> /\ rx = <<>> /\ shift = NoByte
            BY <1>b, <3>1, <3>2, NothingUnderWay
        <3>4. tx' = <<>> /\ rx' = <<>> /\ shift' = NoByte /\ src' = 0 /\ dst' = 0
            BY <1>3, <3>1, <3>3 DEF Select, localVars, callVars, dst
        <3> QED
            BY <3>4, EmptyContentNext
    <2> QED
        BY <2>1, <2>2, <1>d
<1>4. CASE NextChunk \/ Poll \/ ReturnMore
    <2>1. UNCHANGED <<tx, shift, rx, clocked, buf, src,
                      bytes_remaining, len, calls, inPlace, brokenBy>>
        BY <1>4 DEF NextChunk, Poll, ReturnMore, coreVars, callVars, localVars
    <2>2. pc # "reset"
        BY <1>4 DEF NextChunk, Poll, ReturnMore
    <2> QED
        BY <2>1, <2>2, <1>d, <1>e, <1>f, SMTT(30) DEF Sound
<1>5. CASE Fill
    <2>1. Untouched'
        BY <1>5, <1>e DEF Fill, callVars
    <2>2. Sound' => Content'
        BY <1>5, <1>a, FillContent DEF Fill, Sound, callVars
    <2> QED
        BY <2>1, <2>2, <1>d
<1>6. CASE TimedOut \/ Underflow
    <2>1. UNCHANGED <<tx, shift, rx, clocked, buf, src,
                      bytes_remaining, len, calls, inPlace>>
        BY <1>6 DEF TimedOut, Underflow, ReturnShort, coreVars, callVars,
           localVars
    <2>2. pc \notin {"idle", "reset"}
        BY <1>6 DEF TimedOut, Underflow
    <2>3. Sound' => Sound
        <3>1. brokenBy < calls
            BY <1>a, <2>2 DEF Control
        <3>2. brokenBy' = IF brokenBy = 0 THEN calls ELSE brokenBy
            BY <1>6, SMTT(30) DEF TimedOut, Underflow, ReturnShort
        <3> QED
            BY <1>c, <2>1, <3>1, <3>2, SMTT(30) DEF Sound
    <2> QED
        BY <2>1, <2>2, <2>3, <1>d, <1>e, <1>f, SMTT(30)
<1>7. CASE Drain
    <2>1. Untouched'
        <3>1. dst' = dst + 1 /\ len' = len /\ calls' = calls /\ inPlace' = inPlace
            BY <1>7, <1>b DEF Drain, callVars, dst, Ranges
        <3>2. \A k \in (dst + 2)..len : buf'[k] = buf[k]
            BY <1>7, <1>b, <1>c, SMTT(30) DEF Drain, Buffer
        <3> QED
            BY <1>a, <1>c, <3>1, <3>2, SMTT(30) DEF Untouched
    <2>2. Sound' => Content'
        BY <1>7, <1>a, DrainContent, SMTT(30) DEF Drain, Sound, callVars
    <2> QED
        BY <2>1, <2>2, <1>d
<1>8. CASE Deselect
    <2>1. UNCHANGED <<tx, shift, rx, clocked, buf, src,
                      bytes_remaining, len, calls, inPlace, brokenBy>>
        BY <1>8 DEF Deselect, WriteSSR, callVars, localVars
    <2> QED
        BY <1>8, <2>1, <1>d, <1>e, <1>f DEF Deselect, Sound
<1>9. CASE Disable
    <2>1. Untouched'
        BY <1>9, <1>e DEF Disable, callVars, localVars
    <2>2. Sound' => Content'
        <3> HAVE Sound'
        <3>1. Content
            BY <1>9, <1>a, SMTT(30) DEF Disable, Sound, callVars
        <3>2. src = dst
            BY <1>9, <1>a DEF Disable, Control
        <3>3. shift = NoByte
            BY <1>b, <1>c, <3>1, <3>2, NothingUnderWay, SMTT(30)
        <3>4. UNCHANGED <<tx, shift, rx, clocked, buf, src,
                          bytes_remaining, len, calls>>
            BY <1>9, <1>b, <3>3
               DEF Disable, WriteCR, callVars, localVars, CoreRanges, CrBits
        <3> QED
            BY <3>1, <3>4, ContentFrame
    <2> QED
        BY <2>1, <2>2, <1>d
<1>10. CASE \E l \in 0..MaxLen, m, p \in BOOLEAN : Call(l, m, p)
    <2> PICK l \in 0..MaxLen, m \in BOOLEAN, p \in BOOLEAN : Call(l, m, p)
        BY <1>10
    <2>1. Untouched'
        BY <1>c DEF Call, Untouched, dst
    <2>2. Sound' => Content'
        <3> HAVE Sound'
        <3>1. brokenBy = 0
            BY <1>b, <1>c, SMTT(30) DEF Call, Sound, Ranges
        <3>2. src = dst
            BY <1>a, <1>b, <1>c, <3>1, SMTT(30) DEF Control, Call, Ranges, dst
        <3>3. Content
            BY <1>a, <3>1 DEF Call, Sound
        <3>4. tx = <<>> /\ rx = <<>> /\ shift = NoByte
            BY <1>b, <1>c, <3>2, <3>3, NothingUnderWay, SMTT(30)
        <3>5. tx' = <<>> /\ rx' = <<>> /\ shift' = NoByte /\ src' = 0 /\ dst' = 0
            BY <3>4, SendAssumption DEF Call, coreVars, dst
        <3> QED
            BY <3>5, EmptyContentNext
    <2> QED
        BY <2>1, <2>2, <1>d
<1>11. CASE ShiftStart /\ UNCHANGED <<pc, callVars, localVars, ret, brokenBy>>
    <2>1. Untouched'
        BY <1>11, <1>e DEF callVars, localVars
    <2>2. Sound' /\ pc' # "reset" => Content'
        BY <1>11, <1>a, ShiftStartContent, SMTT(30) DEF Sound, callVars
    <2> QED
        BY <2>1, <2>2, <1>d
<1>12. CASE ShiftDone /\ UNCHANGED <<pc, callVars, localVars, ret, brokenBy>>
    <2>1. Untouched'
        BY <1>12, <1>e DEF callVars, localVars
    <2>2. Sound' /\ pc' # "reset" => Content'
        <3> HAVE Sound' /\ pc' # "reset"
        <3>1. Content /\ pc # "reset"
            BY <1>12, <1>a, SMTT(30) DEF Sound, callVars
        <3>2. src > dst
            <4>1. src # dst
                BY <1>12, <1>b, <1>c, <3>1, NothingUnderWay DEF ShiftDone
            <4> QED
                BY <1>a, <1>c, <4>1 DEF Control
        <3>3. selected
            <4>1. CASE pc = "idle"
                <5>1. ret < len
                    BY <1>a, <1>b, <1>c, <3>2, <4>1, SMTT(30) DEF Control, Ranges
                <5> QED
                    BY <1>a, <4>1, <5>1, SMTT(30) DEF Control
            <4>2. CASE pc # "idle"
                BY <1>a, <1>b, <1>c, <3>2, <4>2, SMTT(30) DEF Control, Ranges, PCs, Loop
            <4> QED
                BY <4>1, <4>2
        <3>4. src - dst <= Chunk
            BY <1>a, <1>b, <1>c, <3>2, SendAssumption, SMTT(30) DEF Control, Ranges, PCs
        <3> QED
            BY <1>12, <1>a, <3>1, <3>3, <3>4, ShiftDoneContent
    <2> QED
        BY <2>1, <2>2, <1>d
<1>13. CASE UNCHANGED vars
    <2>1. UNCHANGED <<tx, shift, rx, clocked, buf, src,
                      bytes_remaining, len, calls, inPlace, brokenBy, pc>>
        BY <1>13 DEF vars, coreVars, callVars, localVars
    <2>2. Sound' /\ pc' # "reset" => Content'
        BY <1>a, <2>1, ContentFrame DEF Sound
    <2> QED
        BY <2>1, <2>2, <1>d, <1>e, SMTT(30)
<1> QED
    BY <1>1, <1>2, <1>3, <1>4, <1>5, <1>6, <1>7, <1>8, <1>9, <1>10, <1>11,
       <1>12, <1>13, SMTT(30) DEF Next, Processor, Core, NoMoreCalls

(* The inductive invariant: control and account of the bytes hold in every *)
(* reachable state.                                                        *)
THEOREM Inductive == Spec => []IInv
<1>1. Init => IInv
    BY InitTypeControl, InitData DEF IInv
<1>2. IInv /\ [Next]_vars => IInv'
    <2> SUFFICES ASSUME IInv, [Next]_vars PROVE IInv'
        OBVIOUS
    <2>1. TypeOK' /\ Control'
        BY NextTypeControl DEF IInv
    <2>2. Data'
        BY NextData
    <2> QED
        BY <2>1, <2>2 DEF IInv
<1> QED
    BY <1>1, <1>2, PTL DEF Spec

-----------------------------------------------------------------------------
(* Every byte taken from src is in the core or stored, and no more than a  *)
(* chunk is under way: the FIFOs are never overrun.                        *)
THEOREM InFlightHolds == Spec => []InFlight
<1>1. IInv => InFlight
    <2> SUFFICES ASSUME IInv, Sound, Open
                 PROVE  /\ Len(tx) + InShifter + Len(rx) = src - dst
                        /\ src - dst <= Chunk
        BY DEF InFlight
    <2>1. TypeOK /\ Control /\ Data
        BY DEF IInv
    <2>2. Content
        BY <2>1, SMTT(30) DEF Open, Control, Data
    <2>3. src - dst <= Chunk
        BY <2>1, TypeParts, SendAssumption, SMTT(30) DEF Control, Ranges, PCs, dst
    <2> QED
        BY <2>2, <2>3 DEF Content
<1> QED
    BY <1>1, Inductive, PTL

(* What send_spi() returns is what it stored: the answers to its first ret *)
(* bytes, in order, and nothing beyond.                                    *)
THEOREM RepliesDeliveredHolds == Spec => []RepliesDelivered
<1>1. IInv => RepliesDelivered
    <2> SUFFICES ASSUME IInv, pc = "idle", calls > 0, Sound
                 PROVE  /\ \A k \in 1..ret : Delivered(k)
                        /\ \A k \in (ret + 1)..len :
                              buf[k] = IF inPlace THEN Mosi(calls, k) ELSE NoByte
                        /\ (ret = len) <=> (brokenBy = 0)
        BY DEF RepliesDelivered
    <2>1. TypeOK /\ Control /\ Data
        BY DEF IInv
    <2>2. ret = dst
        BY <2>1 DEF Control
    <2>3. Content /\ Untouched
        BY <2>1, SMTT(30) DEF Data
    <2>4. (ret = len) <=> (brokenBy = 0)
        BY <2>1, TypeParts, SendAssumption, SMTT(30) DEF Control, Ranges, Sound
    <2> QED
        BY <2>2, <2>3, <2>4 DEF Content, Untouched
<1> QED
    BY <1>1, Inductive, PTL

(* In place is safe: no byte of src is overwritten before it is sent, even *)
(* in a transaction in which an earlier call failed.                       *)
THEOREM SourceIntactHolds == Spec => []SourceIntact
<1>1. IInv => SourceIntact
    <2> SUFFICES ASSUME IInv, NEW k \in (src + 1)..len
                 PROVE  SrcByte(k) = Mosi(calls, k)
        BY DEF SourceIntact
    <2>1. TypeOK /\ Control /\ Untouched
        BY SMTT(30) DEF IInv, Data
    <2>2. k \in (dst + 1)..len
        BY <2>1, TypeParts, SendAssumption DEF Control, Ranges, dst
    <2> QED
        BY <2>1, <2>2 DEF Untouched, SrcByte
<1> QED
    BY <1>1, Inductive, PTL

(* The flash is de-selected only when nothing is left in the core.         *)
THEOREM CleanDeselectHolds == Spec => CleanDeselect
<1> DEFINE Clean == Sound /\ selected /\ ~selected' =>
                       tx = <<>> /\ shift = NoByte /\ rx = <<>>
<1>1. IInv /\ [Next]_vars => [Clean]_vars
    <2> SUFFICES ASSUME IInv, Next, Sound, selected, ~selected'
                 PROVE  tx = <<>> /\ shift = NoByte /\ rx = <<>>
        OBVIOUS
    <2>1. TypeOK /\ Control /\ Data
        BY Zenon DEF IInv
    <2>2. Deselect
        BY Zenon DEF Next, Processor, Core, NoMoreCalls, vars, Reset, Enable,
           Select,
            NextChunk, Fill, Poll, TimedOut, Drain, Underflow, ReturnShort,
            Disable, ReturnMore, Call, ShiftStart, ShiftDone, WriteSSR, coreVars
    <2>3. Content /\ src = dst
        BY <2>1, <2>2 DEF Deselect, Control, Data
    <2>4. CoreRanges /\ dst \in Int
        BY <2>1, TypeParts, SendAssumption DEF Ranges, dst
    <2> QED
        BY <2>3, <2>4, NothingUnderWay
<1> QED
    BY <1>1, Inductive, PTL DEF Spec, CleanDeselect

(* With a core that raises TX_EMPTY when the last byte is out, the drain   *)
(* loop finds a byte at every turn.                                        *)
THEOREM NoUnderflowHolds == ~EarlyEmpty /\ Spec => []NoUnderflow
<1> DEFINE Quiet == pc = "drain" => tx = <<>> /\ shift = NoByte
<1> SUFFICES ASSUME ~EarlyEmpty PROVE Spec => []NoUnderflow
    OBVIOUS
<1>1. Init => Quiet
    BY DEF Init
<1>2. IInv /\ Quiet /\ [Next]_vars => Quiet'
    <2> SUFFICES ASSUME IInv, Quiet, [Next]_vars, pc' = "drain"
                 PROVE  tx' = <<>> /\ shift' = NoByte
        OBVIOUS
    <2>1. CoreRanges
        BY TypeParts DEF IInv
    <2>2. CASE Poll
        <3>1. Len(tx) \in Nat /\ InShifter \in {0, 1} /\ Len(tx) + InShifter = 0
            BY <2>1, <2>2, LenProperties, SMTT(30)
               DEF Poll, TxEmpty, TxOccupancy, CoreRanges, InShifter
        <3>2. tx = <<>>
            BY <2>1, <3>1, EmptySeq DEF CoreRanges
        <3>3. shift = NoByte
            BY <3>1, SMTT(30) DEF InShifter
        <3> QED
            BY <2>2, <3>2, <3>3, SMTT(30) DEF Poll, coreVars
    <2>3. CASE Drain
        BY <2>3 DEF Drain
    <2>4. CASE Core
        BY <2>4 DEF Core, ShiftStart, ShiftDone
    <2>5. CASE UNCHANGED vars
        BY <2>5, SMTT(30) DEF vars, coreVars
    <2>6. Poll \/ Drain \/ Core \/ UNCHANGED vars
        BY DEF Next, Processor, NoMoreCalls, Reset, Enable, Select, NextChunk,
            Fill, TimedOut, Underflow, ReturnShort, Deselect, Disable,
            ReturnMore, Call
    <2> QED
        BY <2>2, <2>3, <2>4, <2>5, <2>6
<1>3. IInv /\ Quiet => NoUnderflow
    <2> SUFFICES ASSUME IInv, Quiet, Sound, pc = "drain" PROVE ~RxEmpty
        BY DEF NoUnderflow
    <2>1. TypeOK /\ Control /\ Content
        BY SMTT(30) DEF IInv, Data
    <2>2. src - dst > 0
        BY <2>1, TypeParts, SendAssumption, SMTT(30) DEF Control, Ranges, dst
    <2>3. Len(tx) = 0 /\ InShifter = 0
        BY DEF InShifter
    <2>4. Len(rx) # 0
        BY <2>1, <2>2, <2>3, TypeParts, LenProperties DEF Content, CoreRanges
    <2> QED
        BY <2>4 DEF RxEmpty
<1> QED
    BY <1>1, <1>2, <1>3, Inductive, PTL DEF Spec

-----------------------------------------------------------------------------
(* send_spi() implements SpiExchange.                                      *)
(*                                                                         *)
(* A call that begins, a byte stored, and a return are the steps of        *)
(* SpiExchange; everything else, and all the core does, is a stutter.  The *)
(* invariant above says why: the byte at the head of the receive FIFO is   *)
(* the next answer, and a byte that enters the FIFO is counted by the      *)
(* flash and not yet delivered.                                            *)

(* The values of SpiExchange's variables.                                  *)
Busy == pc # "idle"
IsOpen == pc # "idle" \/ "ENABLE" \in cr
Broken == brokenBy # 0 /\ pc # "reset"
Counted == IF \/ Starting
              \/ brokenBy # 0
              \/ pc = "idle" /\ "ENABLE" \notin cr
           THEN 0 ELSE clocked - Len(rx)
Got == SubSeq(buf, 1, dst)

mapped == <<Busy, IsOpen, Broken, Counted, calls, len, more, Got, ret>>

LEMMA Stutters ==
    ASSUME UNCHANGED mapped
    PROVE  UNCHANGED Exchange!avars
  BY Zenon DEF mapped, Exchange!avars, Busy, IsOpen, Broken, Counted, Got

LEMMA InitMaps == Init => Exchange!Init
<1> SUFFICES ASSUME Init PROVE Exchange!Init
  OBVIOUS
<1>1. /\ (pc # "idle") = FALSE /\ (pc # "idle" \/ "ENABLE" \in cr) = FALSE
      /\ (brokenBy # 0 /\ pc # "reset") = FALSE
  BY DEF Init, CoreReady
<1>2. SubSeq(buf, 1, dst) = <<>>
  BY DEF Init, dst
<1> QED
  BY <1>1, <1>2 DEF Init, CoreReady, Exchange!Init, Starting
-----------------------------------------------------------------------------
(* What the caller has got.                                                *)

LEMMA GotIs ==
    ASSUME TypeOK
    PROVE  /\ len \in Nat /\ dst \in 0..len /\ buf \in Seq(Byte) /\ Len(buf) = len
           /\ Got \in Seq(Byte) /\ Len(Got) = dst
           /\ \A k \in 1..dst : Got[k] = buf[k]
<1>1. len \in Nat /\ dst \in 0..len /\ buf \in [1..len -> Byte]
  BY SendAssumption DEF TypeOK, dst
<1>2. buf \in Seq(Byte) /\ Len(buf) = len
  BY <1>1
<1>3. dst \in Nat /\ dst <= len
  BY <1>1
<1> HIDE DEF dst
<1> QED
  BY <1>1, <1>2, <1>3 DEF Got

LEMMA GotKept ==
    ASSUME UNCHANGED <<buf, len, bytes_remaining>>
    PROVE  Got' = Got
  BY DEF Got, dst
-----------------------------------------------------------------------------
(* Steps that the caller does not see.                                     *)

LEMMA InsideQuiet ==
    ASSUME pc # "idle", pc' # "idle", UNCHANGED <<calls, len, more, ret, buf, bytes_remaining>>,
           Broken' <=> Broken, Counted' = Counted
    PROVE  UNCHANGED mapped
<1>1. Busy' = Busy /\ IsOpen' = IsOpen
  BY DEF Busy, IsOpen
<1>2. Broken' = Broken
  BY Zenon DEF Broken
<1> QED
  BY <1>1, <1>2, GotKept DEF mapped

LEMMA StartQuiet ==
    ASSUME IInv, Reset \/ Enable \/ Select
    PROVE  UNCHANGED mapped
<1>1. CASE Reset
  BY <1>1, InsideQuiet DEF Reset, callVars, localVars, Broken, Counted, Starting
<1>2. CASE Enable
  BY <1>2, InsideQuiet DEF Enable, callVars, localVars, Broken, Counted, Starting
<1>3. CASE Select
  <2>1. brokenBy = 0 /\ ~selected /\ src = dst /\ dst \in Int /\ CoreRanges /\ Content
    BY <1>3, GotIs, TypeParts DEF IInv, Control, Data, Sound, Select
  <2>2. Len(rx) = 0
    BY <2>1, NothingUnderWay
  <2>3. clocked' = 0 /\ rx' = rx
    BY <1>3, <2>1 DEF Select, WriteSSR
  <2>4. Counted = 0 /\ Counted' = 0
    BY <1>3, <2>1, <2>2, <2>3 DEF Select, Counted, Starting
  <2> QED
    BY <1>3, <2>4, InsideQuiet, SMTT(30) DEF Select, callVars, localVars, Broken
<1> QED
  BY <1>1, <1>2, <1>3

LEMMA LoopQuiet ==
    ASSUME IInv, NextChunk \/ Fill \/ Poll \/ Deselect
    PROVE  UNCHANGED mapped
<1> USE DEF callVars, localVars, coreVars, Broken, Counted, Starting
<1>1. CASE NextChunk
  BY <1>1, InsideQuiet DEF NextChunk
<1>2. CASE Fill
  BY <1>2, InsideQuiet DEF Fill
<1>3. CASE Poll
  BY <1>3, InsideQuiet DEF Poll
<1>4. CASE Deselect
  BY <1>4, InsideQuiet DEF Deselect, WriteSSR
<1> QED
  BY <1>1, <1>2, <1>3, <1>4

(* A byte that enters the receive FIFO has been counted by the flash and   *)
(* is not yet delivered.                                                   *)
LEMMA CoreQuiet ==
    ASSUME IInv, Core
    PROVE  UNCHANGED mapped
<1>1. /\ UNCHANGED <<pc, calls, len, more, buf, bytes_remaining, ret, brokenBy>>
      /\ cr' = cr
  BY DEF Core, callVars, localVars, ShiftStart, ShiftDone
<1>2. Busy' = Busy /\ IsOpen' = IsOpen /\ Broken' = Broken /\ Got' = Got
  BY <1>1, GotKept DEF Busy, IsOpen, Broken
<1>3. Counted' = Counted
  <2>1. CASE ShiftStart
    BY <1>1, <2>1 DEF ShiftStart, Counted, Starting
  <2>2. CASE ShiftDone /\ ~(Starting \/ brokenBy # 0 \/ (pc = "idle" /\ "ENABLE" \notin cr))
    <3>1. /\ CoreRanges /\ selected \in BOOLEAN /\ shift # NoByte /\ pc \in PCs
          /\ dst \in Int /\ src \in Int /\ i \in Int /\ bytes_to_xfer \in 0..Chunk
          /\ clocked \in Nat /\ Len(rx) \in Nat /\ Len(tx) \in Nat
      <4>1. CoreRanges /\ Ranges /\ Bools /\ dst \in Int
        BY TypeParts, GotIs DEF IInv
      <4>2. /\ shift # NoByte /\ pc \in PCs /\ src \in Int /\ i \in Int /\ bytes_to_xfer \in 0..Chunk
        BY <2>2, <4>1 DEF ShiftDone, Ranges
      <4>3. clocked \in Nat /\ Len(rx) \in Nat /\ Len(tx) \in Nat
        BY <4>1 DEF CoreRanges
      <4>4. selected \in BOOLEAN
        BY <4>1, Zenon DEF Bools
      <4> QED
        BY <4>1, <4>2, <4>3, <4>4
    <3>2. Content
      BY <2>2 DEF IInv, Data, Sound, Starting
    <3>3. selected
      <4>1. pc # "disable"
        BY <2>2, <3>1, <3>2, NothingUnderWay DEF IInv, Control
      <4> QED
        BY <2>2, <3>1, <4>1 DEF IInv, Control, Starting, PCs, Loop
    <3>4. src - dst <= Chunk
      <4>1. CASE pc \in {"idle", "while", "disable"}
        BY <3>1, <4>1, SendAssumption DEF IInv, Control
      <4>2. CASE pc \in {"fill", "poll", "drain"}
        <5>1. i >= 0
          BY TypeParts DEF IInv, Ranges
        <5> QED
          BY <3>1, <4>2, <5>1, SendAssumption DEF IInv, Control
      <4> QED
        BY <2>2, <3>1, <4>1, <4>2 DEF Starting, PCs
    <3>5. Len(rx) < FifoDepth
      BY <3>1, <3>2, <3>4, SendAssumption, CoreAssumption DEF Content, InShifter
    <3>6. clocked' = clocked + 1 /\ Len(rx') = Len(rx) + 1
      <4>1. clocked' = clocked + 1 /\ rx' = Append(rx, Miso(shift, clocked + 1))
        BY <2>2, <3>1, <3>3, <3>5, ShiftDoneRanges
      <4>2. Miso(shift, clocked + 1) \in Byte
        BY <3>1, MisoIsAByte DEF CoreRanges
      <4> QED
        BY <3>1, <4>1, <4>2, AppendProperties DEF CoreRanges
    <3> QED
      BY <1>1, <2>2, <3>1, <3>6 DEF Counted, Starting
  <2>3. CASE Starting \/ brokenBy # 0 \/ (pc = "idle" /\ "ENABLE" \notin cr)
    BY <1>1, <2>3 DEF Counted, Starting
  <2> QED
    BY <2>1, <2>2, <2>3 DEF Core
<1> QED
  BY <1>1, <1>2, <1>3 DEF mapped
-----------------------------------------------------------------------------
(* Steps that the caller sees.                                             *)

LEMMA CallMaps ==
    ASSUME IInv, NEW l \in 0..MaxLen, NEW m \in BOOLEAN, NEW p \in BOOLEAN, Call(l, m, p)
    PROVE  Exchange!Begin
<1>1. /\ pc = "idle" /\ calls' = calls + 1 /\ len' = l /\ more' = m
      /\ bytes_remaining' = l /\ pc' = IF "ENABLE" \in cr THEN "while" ELSE "reset"
      /\ UNCHANGED <<cr, rx, clocked, ret, brokenBy>>
  BY DEF Call, coreVars
<1>2. len' \in Nat /\ more' \in BOOLEAN
  BY <1>1, SendAssumption
<1>3. Busy = FALSE /\ Busy' = TRUE /\ IsOpen' = TRUE
  BY <1>1 DEF Busy, IsOpen
<1>4. Broken' = (IsOpen /\ Broken)
  BY <1>1 DEF Broken, IsOpen
<1>5. Counted' = Counted
  BY <1>1 DEF Counted, Starting
<1>6. Got' = <<>>
  <2>1. dst' = 0
    BY <1>1, <1>2 DEF dst
  <2> QED
    BY <2>1, SubSeqEmpty DEF Got
<1> QED
  BY <1>1, <1>2, <1>3, <1>4, <1>5, <1>6
     DEF Exchange!Begin, Busy, IsOpen, Broken, Counted, Got

LEMMA FailMaps ==
    ASSUME IInv, TimedOut \/ Underflow
    PROVE  Exchange!Fail
<1>1. /\ pc \in {"poll", "drain"} /\ pc' = "idle" /\ ret' = dst
      /\ brokenBy' = IF brokenBy = 0 THEN calls ELSE brokenBy
      /\ UNCHANGED <<cr, rx, clocked, calls, len, more, buf, bytes_remaining>>
  BY DEF TimedOut, Underflow, ReturnShort, coreVars, callVars, localVars, dst
<1>2. calls \in Nat /\ brokenBy < calls /\ "ENABLE" \in cr /\ brokenBy \in Nat
  BY <1>1, TypeParts DEF IInv, Control, Loop, Ranges
<1>3. dst < len
  <2>1. dst \in Int /\ src \in 0..len /\ len \in Nat /\ bytes_to_xfer \in Int /\ i \in Int
    BY GotIs, TypeParts, SendAssumption DEF IInv, Ranges
  <2>2. src - dst > 0
    BY <1>1, <2>1, SendAssumption DEF IInv, Control
  <2> QED
    BY <2>1, <2>2
<1>4. Busy = TRUE /\ Busy' = FALSE /\ IsOpen' = IsOpen
  BY <1>1, <1>2 DEF Busy, IsOpen
<1>5. Broken' = TRUE /\ Counted' = 0
  BY <1>1, <1>2 DEF Broken, Counted
<1>6. Got' = Got /\ Len(Got) = dst
  BY <1>1, GotKept, GotIs DEF IInv
<1> QED
  BY <1>1, <1>3, <1>4, <1>5, <1>6, Zenon
     DEF Exchange!Fail, Busy, IsOpen, Broken, Counted, Got

LEMMA FinishMaps ==
    ASSUME IInv, Disable \/ ReturnMore
    PROVE  Exchange!Finish
<1>1. /\ pc \in {"while", "disable"} /\ pc' = "idle" /\ ret' = len /\ bytes_remaining = 0
      /\ more = (pc = "while") /\ "ENABLE" \in cr
      /\ UNCHANGED <<calls, len, more, buf, bytes_remaining, brokenBy>>
  <2>1. more \in BOOLEAN
    BY DEF IInv, TypeOK
  <2>2. CASE Disable
    BY <2>1, <2>2 DEF Disable, IInv, Control, callVars, localVars
  <2>3. CASE ReturnMore
    BY <2>1, <2>3, Zenon DEF ReturnMore, IInv, Control, Loop, callVars, localVars
  <2> QED
    BY <2>2, <2>3
<1>2. /\ ("ENABLE" \in cr') = more
      /\ more => rx' = rx /\ clocked' = clocked
  <2>1. CASE Disable
    <3>1. "ENABLE" \notin cr' /\ more = FALSE
      BY <1>1, <2>1, Zenon DEF Disable, WriteCR
    <3>2. ("ENABLE" \in cr') = FALSE
      BY <3>1
    <3> QED
      BY <3>1, <3>2, Zenon
  <2>2. CASE ReturnMore
    <3>1. cr' = cr /\ rx' = rx /\ clocked' = clocked /\ more = TRUE
      BY <1>1, <2>2 DEF ReturnMore, coreVars
    <3> QED
      BY <1>1, <3>1, Zenon
  <2> QED
    BY <2>1, <2>2
<1>3. Busy = TRUE /\ Busy' = FALSE /\ IsOpen' = more /\ Broken' = Broken
  BY <1>1, <1>2 DEF Busy, IsOpen, Broken
<1>4. Counted' = IF more THEN Counted ELSE 0
  BY <1>1, <1>2, Zenon DEF Counted, Starting
<1>5. Got' = Got /\ Len(Got) = len
  <2>1. dst = len
    BY <1>1, GotIs DEF dst, IInv
  <2> QED
    BY <1>1, <2>1, GotKept, GotIs DEF IInv
<1> QED
  BY <1>1, <1>3, <1>4, <1>5, Zenon
     DEF Exchange!Finish, Busy, IsOpen, Broken, Counted, Got
(* The byte stored is the next answer, unless a call before has failed.    *)
LEMMA DrainMaps ==
    ASSUME IInv, Drain
    PROVE  Exchange!Receive \/ Exchange!ReceiveAny
<1>1. /\ TypeOK /\ CoreRanges /\ pc = "drain" /\ pc' \in {"drain", "while"}
      /\ buf' = [buf EXCEPT ![dst + 1] = Head(rx)] /\ bytes_remaining' = bytes_remaining - 1
      /\ UNCHANGED <<cr, clocked, calls, len, more, ret, brokenBy>>
  BY TypeParts DEF IInv, Drain, callVars
<1>2. /\ dst \in Nat /\ len \in Nat /\ src \in 0..len /\ bytes_remaining \in Int
      /\ calls \in Nat /\ clocked \in Nat /\ bytes_to_xfer \in Int /\ i \in Int
  BY GotIs, TypeParts, SendAssumption DEF IInv, Ranges, CoreRanges
<1>3. dst < len /\ dst' = dst + 1
  <2>1. src - dst > 0
    BY <1>1, <1>2 DEF IInv, Control
  <2>2. dst' = dst + 1
    BY <1>1, <1>2 DEF dst
  <2> QED
    BY <1>2, <2>1, <2>2
<1>4. /\ Head(rx) \in Byte /\ Head(rx) = rx[1]
      /\ Len(rx) \in Nat \ {0} /\ Len(rx') = Len(rx) - 1
  <2>1. rx # <<>> /\ rx' = Tail(rx) /\ rx \in Seq(Byte)
    BY <1>1 DEF Drain, ReadDRR, RxEmpty, CoreRanges
  <2> QED
    BY <2>1, HeadTailProperties
<1>5. /\ Got \in Seq(Byte) /\ Len(Got) = dst /\ Got' \in Seq(Byte) /\ Len(Got') = dst + 1
      /\ \A k \in 1..dst : Got'[k] = Got[k]
      /\ Got'[dst + 1] = Head(rx)
  <2>1. /\ buf \in Seq(Byte) /\ Len(buf) = len /\ Got \in Seq(Byte) /\ Len(Got) = dst
        /\ \A k \in 1..dst : Got[k] = buf[k]
    BY <1>1, GotIs
  <2>2. /\ buf' \in Seq(Byte) /\ Len(buf') = len
        /\ \A k \in 1..len : buf'[k] = IF k = dst + 1 THEN Head(rx) ELSE buf[k]
    <3>1. dst + 1 \in 1..Len(buf)
      BY <1>2, <1>3, <2>1
    <3> QED
      BY <1>1, <1>4, <2>1, <3>1, ExceptSeq
  <2>3. Got' = SubSeq(buf', 1, dst + 1) /\ dst + 1 \in Nat /\ dst + 1 <= len
    BY <1>2, <1>3 DEF Got
  <2>4. \A k \in 1..(dst + 1) : k \in 1..len /\ buf'[k] \in Byte
    BY <1>2, <2>2, <2>3
  <2>5. /\ Got' \in Seq(Byte) /\ Len(Got') = dst + 1
        /\ \A k \in 1..(dst + 1) : Got'[k] = buf'[k]
    <3> HIDE DEF dst
    <3> QED
      BY <1>2, <2>3, <2>4, SubSeqProperties
  <2> QED
    BY <1>2, <1>3, <2>1, <2>2, <2>5, SMTT(30)
<1>6. Busy = TRUE /\ Busy' = TRUE /\ IsOpen' = IsOpen /\ Broken' = Broken
  BY <1>1 DEF Busy, IsOpen, Broken
<1>7. CASE brokenBy = 0
  <2>1. Broken = FALSE /\ Counted = clocked - Len(rx) /\ Counted' = Counted + 1
    BY <1>1, <1>2, <1>4, <1>7 DEF Broken, Counted, Starting
  <2>2. Head(rx) = Miso(Mosi(calls, dst + 1), clocked - Len(rx) + 1)
    BY <1>1, <1>4, <1>7, SMTT(30) DEF IInv, Data, Sound, Content
  <2>3. Head(rx) = Exchange!Answer(calls, Len(Got) + 1, Counted')
    BY <1>5, <2>1, <2>2 DEF Miso, Mosi, Exchange!Answer
  <2>4. Got' = Append(Got, Head(rx))
    BY <1>2, <1>4, <1>5, AppendProperties, SMTT(30)
  <2>5. Exchange!Receive
    BY <1>1, <1>3, <1>5, <1>6, <2>1, <2>3, <2>4, SMTT(30)
       DEF Exchange!Receive, Busy, IsOpen, Broken, Counted, Got
  <2> QED
    BY <2>5
<1>8. CASE brokenBy # 0
  <2>1. Broken = TRUE /\ Counted = 0 /\ Counted' = 0
    BY <1>1, <1>8 DEF Broken, Counted
  <2>2. SubSeq(Got', 1, Len(Got)) = Got
    <3>1. \A k \in 1..dst : k \in 1..(dst + 1) /\ Got'[k] \in Byte
      BY <1>2, <1>5
    <3> HIDE DEF dst
    <3>2. /\ SubSeq(Got', 1, dst) \in Seq(Byte) /\ Len(SubSeq(Got', 1, dst)) = dst
          /\ \A k \in 1..dst : SubSeq(Got', 1, dst)[k] = Got'[k]
      BY <1>2, <3>1, SubSeqProperties, SMTT(30)
    <3> QED
      BY <1>2, <1>5, <3>2
  <2>3. Exchange!ReceiveAny
    BY <1>1, <1>3, <1>5, <1>6, <2>1, <2>2
       DEF Exchange!ReceiveAny, Busy, IsOpen, Broken, Counted, Got
  <2> QED
    BY <2>3
<1> QED
  BY <1>7, <1>8

-----------------------------------------------------------------------------
(* Seen through the mapping, every step of send_spi() and of the core is a *)
(* step of SpiExchange or a stutter: the caller gets the answers of the    *)
(* flash, none missing, doubled or out of order, until a call fails        *)
(* (spi.c:54-63).                                                          *)
THEOREM ImplementsExchange == Spec => ExchangeSpec
<1>1. IInv /\ [Next]_vars => [Exchange!Next]_(Exchange!avars)
  <2> SUFFICES ASSUME IInv, [Next]_vars PROVE [Exchange!Next]_(Exchange!avars)
    OBVIOUS
  <2>1. CASE \E l \in 0..MaxLen, m, p \in BOOLEAN : Call(l, m, p)
    BY <2>1, CallMaps DEF Exchange!Next
  <2>2. CASE Processor
    <3>1. CASE UNCHANGED mapped
      BY <3>1, Stutters
    <3> QED
      BY <2>2, <3>1, StartQuiet, LoopQuiet, FailMaps, FinishMaps, DrainMaps
         DEF Processor, Exchange!Next
  <2>3. CASE Core
    BY <2>3, CoreQuiet, Stutters
  <2>4. CASE UNCHANGED vars
    <3>1. UNCHANGED mapped
      BY <2>4 DEF vars, coreVars, callVars, localVars, mapped, Busy, IsOpen, Broken,
                  Counted, Starting, Got, dst
    <3> QED
      BY <3>1, Stutters
  <2> QED
    BY <2>1, <2>2, <2>3, <2>4 DEF Next, NoMoreCalls
<1> QED
  BY <1>1, InitMaps, Inductive, PTL DEF Spec, ExchangeSpec, Exchange!Spec
=============================================================================

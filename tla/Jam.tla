--------------------------------- MODULE Jam ---------------------------------
(***************************************************************************)
(* main() of main.c, from the return of init_platform() on: the sequence   *)
(* of flash commands with the lines printed from their answers, the packet *)
(* sent through the 10 GbE core, and the endless loop.                     *)
(*                                                                         *)
(* send_spi() is represented by what it promises, SpiExchange, which       *)
(* module SendSpi is shown to implement: main() makes its calls with       *)
(* Begin, and SpiExchange answers byte by byte, or fails.  main() never    *)
(* looks at the value returned.                                            *)
(***************************************************************************)
EXTENDS Integers, Sequences

CONSTANTS
    BufLen,         \* 128 in the code: size of buf, and of the SFDP read
    UidLengths,     \* what a flash may answer as the fifth byte of RDID
    OtherLengths,   \* values the byte may have if it is not that answer
    PktWords,       \* 16 in the code: the packet, in 32-bit words
    MaxPolls        \* 10000 in the code: polls of the level register

ASSUME JamAssumption ==
    /\ BufLen \in Nat /\ BufLen >= 5
    /\ UidLengths \subseteq 0..255
    /\ OtherLengths \subseteq 0..255 /\ OtherLengths # {}
    /\ PktWords \in Nat \ {0} /\ MaxPolls \in Nat \ {0}

VARIABLES
    busy, open, broken, count, call, len, more, got, ret,   \* of SpiExchange
    pc,
    step,     \* the command being worked on, an index of Script
    buf,      \* u8 buf[128]
    shown,    \* the latest line printed: the command and the bytes
    failed,   \* history: the commands whose send_spi() returned short
    i,        \* index of the copy and of the wait
    txbuf,    \* transmit buffer of the 10 GbE core, by word
    level,    \* its buffer level register, or 0
    uid       \* the length this flash answers as the fifth byte of RDID

Spi == INSTANCE SpiExchange

spiVars == <<busy, open, broken, count, call, len, more, got, ret>>
ethVars == <<i, txbuf, level>>
vars == <<spiVars, pc, step, buf, shown, failed, ethVars, uid>>

(* Mutant of Command: SEND_SPI_MORE in every call.                         *)
CommandMore(name, put, length, opt, from, offset) ==
    [name |-> name, put |-> put, length |-> length, opt |-> TRUE,
     from |-> from, offset |-> offset]

(* The commands: how many bytes main() puts in buf, the length it asks for *)
(* (0: taken from the answer before), SEND_SPI_MORE, the first byte shown  *)
(* (0: none), and how many bytes precede it in its transaction.            *)
Command(name, put, length, opt, from, offset) ==
    [name |-> name, put |-> put, length |-> length, opt |-> opt,
     from |-> from, offset |-> offset]

Script ==
    << Command("RDID",   1, 5, TRUE,  2, 0), Command("UID",    0, 0, FALSE, 1, 5),
       Command("RDSR",   1, 2, FALSE, 2, 0), Command("RDNVCR", 1, 3, FALSE, 2, 0),
       Command("RDVCR",  1, 2, FALSE, 2, 0), Command("RDEVCR", 1, 2, FALSE, 2, 0),
       Command("RDSFDP", 5, 5, TRUE,  0, 0),
       Command("SFDP",   0, BufLen, FALSE, 1, 5) >>

(* A byte main() wrote, and one whose value is not known: uninitialised,   *)
(* or received in a broken transaction.                                    *)
Own(s, k) == [kind |-> "own", call |-> s, idx |-> k, pos |-> 0]
Junk == [kind |-> "junk", call |-> 0, idx |-> 0, pos |-> 0]

(* Mutant of NextLength: i is decremented twice.                           *)
NextLengthEarly ==
    IF Script[step].length > 0 THEN {Script[step].length}
    ELSE IF buf[4] = Spi!Answer(1, 5, 5) THEN {uid} ELSE OtherLengths

(* len: a constant, or buf[--i] with i = 5.                                *)
NextLength ==
    IF Script[step].length > 0 THEN {Script[step].length}
    ELSE IF buf[5] = Spi!Answer(1, 5, 5) THEN {uid} ELSE OtherLengths

Init ==
    /\ Spi!Init
    /\ pc = "issue" /\ step = 1
    /\ buf = [k \in 1..BufLen |-> Junk]
    /\ shown = [cmd |-> 0, bytes |-> <<>>]
    /\ failed = {}
    /\ i = 0 /\ txbuf = [w \in 0..(PktWords - 1) |-> -1] /\ level = 0
    /\ uid \in UidLengths

-----------------------------------------------------------------------------
(* Opcode and address to buf, then the call of send_spi(buf, buf, ...).    *)
(* Past the end of buf the program is no longer defined.                   *)
Issue ==
    /\ pc = "issue"
    /\ buf' = [k \in 1..BufLen |-> IF k <= Script[step].put THEN Own(step, k)
                                                            ELSE buf[k]]
    /\ len' \in NextLength
    /\ more' = Script[step].opt
    /\ Spi!Begin
    /\ pc' = IF len' > BufLen THEN "overrun" ELSE "call"
    /\ UNCHANGED <<step, shown, failed, ethVars, uid>>

(* send_spi() stores one more byte in buf.                                 *)
Exchange ==
    /\ pc = "call"
    /\ \/ Spi!Receive
       \/ got' = Append(got, Junk) /\ Spi!ReceiveAny
    /\ buf' = [buf EXCEPT ![Len(got')] = got'[Len(got')]]
    /\ UNCHANGED <<pc, step, shown, failed, ethVars, uid>>

Return ==
    /\ pc = "call"
    /\ Spi!Finish \/ Spi!Fail
    /\ failed' = IF ret' < len THEN failed \cup {step} ELSE failed
    /\ pc' = "show"
    /\ UNCHANGED <<step, buf, shown, ethVars, uid>>

(* The line is printed from buf, whatever was returned.                    *)
Show ==
    /\ pc = "show"
    /\ shown' = IF Script[step].from = 0 THEN shown
                ELSE [cmd |-> step, bytes |-> SubSeq(buf, Script[step].from, len)]
    /\ IF step < Len(Script) THEN step' = step + 1 /\ pc' = "issue"
                             ELSE step' = step /\ pc' = "copy"
    /\ UNCHANGED <<spiVars, buf, failed, ethVars, uid>>

Overrun == pc = "overrun" /\ UNCHANGED vars

-----------------------------------------------------------------------------
(* Xil_Out32(base + i, word i): the address advances by one byte per word, *)
(* and a processor without unaligned exceptions ignores the two low bits.  *)
CopyWord ==
    /\ pc = "copy"
    /\ txbuf' = [txbuf EXCEPT ![i \div 4] = i]
    /\ IF i + 1 < PktWords THEN i' = i + 1 /\ pc' = "copy"
                           ELSE i' = 0 /\ pc' = "level"
    /\ UNCHANGED <<spiVars, step, buf, shown, failed, level, uid>>

SetLevel ==
    /\ pc = "level"
    /\ level' = PktWords \div 2
    /\ pc' = "wait"
    /\ UNCHANGED <<spiVars, step, buf, shown, failed, i, txbuf, uid>>

(* Mutant of WaitSent: the polls are not counted.                          *)
WaitSentForever ==
    /\ pc = "wait"
    /\ pc' = IF level = 0 THEN "hello" ELSE "wait"
    /\ UNCHANGED <<spiVars, step, buf, shown, failed, ethVars, uid>>

(* One poll of the level register, at most MaxPolls of them.               *)
WaitSent ==
    /\ pc = "wait"
    /\ IF i < MaxPolls /\ level # 0 THEN i' = i + 1 /\ pc' = "wait"
                                    ELSE i' = i /\ pc' = "hello"
    /\ UNCHANGED <<spiVars, step, buf, shown, failed, txbuf, level, uid>>

(* The endless loop, which only reads the temperature and prints it.       *)
Hello == pc = "hello" /\ UNCHANGED vars

(* The 10 GbE core has sent the packet.                                    *)
EthSent ==
    /\ level # 0
    /\ level' = 0
    /\ UNCHANGED <<spiVars, pc, step, buf, shown, failed, i, txbuf, uid>>

Processor ==
    \/ Issue \/ Exchange \/ Return \/ Show \/ Overrun
    \/ CopyWord \/ SetLevel \/ WaitSent \/ Hello

Next == Processor \/ EthSent

(* The processor keeps executing; nothing is assumed of the 10 GbE core.   *)
Spec == Init /\ [][Next]_vars /\ WF_vars(Processor)

-----------------------------------------------------------------------------
(* A failed call spoils its own line, the command after it, which is sent  *)
(* in the transaction left open, and the data read that continues that     *)
(* command.                                                                *)
Spoiled(s) ==
    \/ s \in failed \/ s - 1 \in failed
    \/ Script[s].offset > 0 /\ s - 2 \in failed

(* Every line printed shows the answers of the flash to the command it     *)
(* names, at their places in the command's transaction, unless a call      *)
(* failed in that line or the one before: main() recovers from a failure   *)
(* although it never looks at what send_spi() returns (main.c:73).         *)
ShownGenuine ==
    LET s == shown.cmd IN
    s # 0 /\ ~Spoiled(s) =>
        \A k \in 1..Len(shown.bytes) :
            LET b == Script[s].from + k - 1 IN
            shown.bytes[k] = Spi!Answer(s, b, Script[s].offset + b)

(* main() leaves buf in one place only, the second read of RDID, whose     *)
(* length is the last byte of the answer before and is not checked         *)
(* (main.c:80): the flash itself announces more than buf holds, or the     *)
(* RDID call failed and the byte is whatever the stack held.               *)
OverrunOnlyByUid ==
    pc = "overrun" => step = 2 /\ (1 \in failed \/ (len = uid /\ uid > BufLen))

(* main() gets to its endless loop, whatever the flash and the 10 GbE core *)
(* do, as long as it stays inside buf.                                     *)
LoopReached == <>(pc \in {"hello", "overrun"})

(* main.c:204, "Copy packet to 10 GbE buffer": when the level is set, each *)
(* word of the packet is at its place in the buffer.                       *)
PacketCopied == level # 0 => \A w \in DOMAIN txbuf : txbuf[w] = w
=============================================================================

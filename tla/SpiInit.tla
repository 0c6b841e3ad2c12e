------------------------------- MODULE SpiInit -------------------------------
(***************************************************************************)
(* init_spi() of spi.c, with what it calls of the XSpi driver:             *)
(* XSpi_CfgInitialize() and its dummy read of the flash's identification   *)
(* (the design uses the STARTUP block), XSpi_Reset(), XSpi_Abort() and     *)
(* XSpi_SetOptions().  One step is one register access (a read-modify-     *)
(* write of the control register is one: the core never changes it).       *)
(*                                                                         *)
(* The processor starts either together with the core, which then has its  *)
(* reset values, or alone (its reset vector is taken again), and then the  *)
(* core is as an earlier run of the program left it: enabled and selected  *)
(* in the middle of a transaction, with bytes in the FIFOs and the shifter.*)
(***************************************************************************)
EXTENDS SpiCore

VARIABLES
    pc,
    dummy,       \* DTR writes, then DRR reads, of the dummy read
    gie,         \* DGIER: are the core's interrupts enabled globally?
    slaveErr,    \* IPISR: the slave mode error bit
    cold         \* did the core start together with the processor?

initVars == <<pc, dummy, gie, slaveErr, cold>>
vars == <<coreVars, initVars>>

(* Bytes of the run before, numbered as bytes of a call 9.                 *)
Stale(n) == [k \in 1..n |-> Mosi(9, k)]

PowerUp ==
    /\ cold /\ selected = FALSE
    /\ cr = {"MANUAL_SS", "INHIBIT"}
    /\ tx = <<>> /\ shift = NoByte /\ rx = <<>>

Restart ==
    /\ ~cold
    /\ cr \in {{"MASTER", "MANUAL_SS"} \cup e : e \in SUBSET {"ENABLE", "INHIBIT"}}
    /\ selected \in BOOLEAN /\ (selected => "ENABLE" \in cr)
    /\ \E n, m \in 0..2 : tx = Stale(n) /\ rx = Stale(m)
    /\ shift \in IF "ENABLE" \in cr THEN {NoByte, Mosi(9, 3)} ELSE {NoByte}

Init ==
    /\ cold \in BOOLEAN
    /\ PowerUp \/ Restart
    /\ clocked = 0 /\ gie = FALSE /\ slaveErr \in BOOLEAN
    /\ pc = "cfg" /\ dummy = 0

-----------------------------------------------------------------------------
Step(from, to) == pc = from /\ pc' = to

SetCR(v) == WriteCR(v) /\ UNCHANGED <<selected, clocked, gie, slaveErr, cold>>

(* XSpi_CfgInitialize(): reset the FIFOs and enable the core as a master.  *)
StartupOpen ==
    /\ Step("cfg", "dtr")
    /\ SetCR(cr \cup FifoResets \cup {"ENABLE", "MASTER"})
    /\ UNCHANGED dummy

(* 0x9F, 0x00, 0x00 to the DTR.                                            *)
StartupWrite ==
    /\ Step("dtr", IF dummy = 2 THEN "uninhibit" ELSE "dtr")
    /\ WriteDTR(Mosi(0, dummy + 1))
    /\ dummy' = (dummy + 1) % 3
    /\ UNCHANGED <<cr, selected, shift, rx, clocked, gie, slaveErr, cold>>

StartupUninhibit ==
    /\ Step("uninhibit", "inhibit")
    /\ SetCR(cr \ {"INHIBIT"})
    /\ UNCHANGED dummy

StartupInhibit ==
    /\ Step("inhibit", "drr")
    /\ SetCR(cr \cup {"INHIBIT"})
    /\ UNCHANGED dummy

(* Mutant of StartupRead: wait for each of the bytes.                      *)
StartupReadWaits ==
    /\ Step("drr", IF dummy = 1 THEN "abortselect" ELSE "drr")
    /\ ~RxEmpty
    /\ ReadDRR
    /\ dummy' = (dummy + 1) % 2
    /\ UNCHANGED <<cr, selected, tx, shift, clocked, gie, slaveErr, cold>>

(* Two reads of the DRR, without asking whether anything is there.         *)
StartupRead ==
    /\ Step("drr", IF dummy = 1 THEN "abortselect" ELSE "drr")
    /\ ReadDRR
    /\ dummy' = (dummy + 1) % 2
    /\ UNCHANGED <<cr, selected, tx, shift, clocked, gie, slaveErr, cold>>

(* Mutant of AbortSelect: the select lines taken as active high.           *)
AbortSelects ==
    /\ Step("abortselect", "abortcontrol")
    /\ WriteSSR(TRUE)
    /\ UNCHANGED <<cr, tx, shift, rx, dummy, gie, slaveErr, cold>>

(* XSpi_Abort(): de-select, then inhibit and reset the FIFOs (HasFifos).   *)
AbortSelect ==
    /\ Step("abortselect", "abortcontrol")
    /\ WriteSSR(FALSE)
    /\ UNCHANGED <<cr, tx, shift, rx, dummy, gie, slaveErr, cold>>

AbortControl ==
    /\ Step("abortcontrol", "softreset")
    /\ SetCR(cr \cup {"INHIBIT"} \cup FifoResets)
    /\ UNCHANGED dummy

(* XSpi_Reset(): the software reset; the core is now in slave mode, which  *)
(* a core configured for quad mode reports as an error.                    *)
ResetDevice ==
    /\ Step("softreset", "options")
    /\ SoftReset
    /\ gie' = FALSE
    /\ slaveErr' = TRUE
    /\ UNCHANGED <<dummy, cold>>

(* XSpi_SetOptions(): each option of the table is turned on or off.        *)
SetOptions ==
    /\ Step("options", "intrclear")
    /\ SetCR((cr \ {"LOOPBACK"}) \cup {"MASTER", "MANUAL_SS"})
    /\ UNCHANGED dummy

(* Mutant of IntrClear: a zero is written for the bit.                     *)
IntrClearZero ==
    /\ Step("intrclear", "disable")
    /\ UNCHANGED <<coreVars, dummy, gie, slaveErr, cold>>

(* XSpi_IntrClear() of spi.c: a one written to IPISR toggles the bit.      *)
IntrClear ==
    /\ Step("intrclear", "disable")
    /\ slaveErr' = ~slaveErr
    /\ UNCHANGED <<coreVars, dummy, gie, cold>>

DisableCore ==
    /\ Step("disable", "resetfifos")
    /\ SetCR(cr \ {"ENABLE"})
    /\ UNCHANGED dummy

ResetFifos ==
    /\ Step("resetfifos", "intrdisable")
    /\ SetCR(cr \cup FifoResets)
    /\ UNCHANGED dummy

IntrGlobalDisable ==
    /\ Step("intrdisable", "ready")
    /\ gie' = FALSE
    /\ UNCHANGED <<coreVars, dummy, slaveErr, cold>>

-----------------------------------------------------------------------------
Processor ==
    \/ StartupOpen \/ StartupWrite \/ StartupUninhibit \/ StartupInhibit
    \/ StartupRead \/ AbortSelect \/ AbortControl \/ ResetDevice
    \/ SetOptions \/ IntrClear \/ DisableCore \/ ResetFifos
    \/ IntrGlobalDisable

Core == (ShiftStart \/ ShiftDone) /\ UNCHANGED initVars

Next == Processor \/ Core

Spec == Init /\ [][Next]_vars /\ WF_vars(Processor)

-----------------------------------------------------------------------------
(* However the core was found, and whatever it did in between, init_spi()  *)
(* returns with the core as send_spi() expects it: a master, disabled, the *)
(* flash not selected, no byte anywhere, no interrupt enabled or pending.  *)
InitReady == pc = "ready" => CoreReady /\ ~gie /\ ~slaveErr

(* After a power-up the dummy read is clocked without the flash being      *)
(* selected: init_spi() sends the flash no command.                        *)
FlashNotAddressed == cold => clocked = 0

(* init_spi() ends, and the core then stays as it left it.                 *)
InitSettles == <>[](pc = "ready" /\ CoreReady)
=============================================================================

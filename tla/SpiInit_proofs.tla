---------------------------- MODULE SpiInit_proofs ----------------------------
(***************************************************************************)
(* The safety properties of SpiInit, for FIFOs of any depth and for both   *)
(* readings of the transmit empty bit.                                     *)
(*                                                                         *)
(* InitReady is not inductive: it speaks of the end of init_spi() only.    *)
(* From the software reset on, every register is known at every step, and  *)
(* the core is too quiet to change any: it is not enabled and no byte is   *)
(* left to move.  Of what comes before the reset nothing needs to be known.*)
(***************************************************************************)
EXTENDS SpiInit, TLAPS

AfterReset == {"options", "intrclear", "disable", "resetfifos", "intrdisable", "ready"}

ResetValue == {"MANUAL_SS", "INHIBIT"}

(* No byte anywhere, and no interrupt enabled.                             *)
Quiet ==
    /\ selected = FALSE /\ gie = FALSE
    /\ tx = <<>> /\ rx = <<>> /\ shift = NoByte

(* The control register and the error bit, step by step.                   *)
Known ==
    /\ cr = IF pc = "options" THEN ResetValue ELSE ResetValue \cup {"MASTER"}
    /\ slaveErr = IF pc \in {"options", "intrclear"} THEN TRUE ELSE FALSE

IInv ==
    /\ pc \in AfterReset => Quiet /\ Known
    /\ cold => selected = FALSE /\ clocked = 0

LEMMA InitInv == Init => IInv
  BY DEF Init, PowerUp, Restart, IInv, AfterReset

USE DEF IInv, AfterReset, Quiet, Known, ResetValue

(* The dummy read, and the abort: nothing is claimed of them but that they *)
(* do not select the flash.                                                *)
LEMMA StartupKeeps ==
    ASSUME IInv,
           \/ StartupOpen \/ StartupWrite \/ StartupUninhibit \/ StartupInhibit
           \/ StartupRead \/ AbortSelect \/ AbortControl
    PROVE  IInv'
<1> USE DEF Step, SetCR, WriteCR
<1>1. CASE StartupOpen
  BY <1>1 DEF StartupOpen
<1>2. CASE StartupWrite
  BY <1>2 DEF StartupWrite
<1>3. CASE StartupUninhibit
  BY <1>3 DEF StartupUninhibit
<1>4. CASE StartupInhibit
  BY <1>4 DEF StartupInhibit
<1>5. CASE StartupRead
  BY <1>5 DEF StartupRead
<1>6. CASE AbortSelect
  BY <1>6 DEF AbortSelect, WriteSSR
<1>7. CASE AbortControl
  BY <1>7 DEF AbortControl
<1> QED
  BY <1>1, <1>2, <1>3, <1>4, <1>5, <1>6, <1>7, Zenon

(* From the reset to the end.                                              *)
LEMMA SetupKeeps ==
    ASSUME IInv,
           \/ ResetDevice \/ SetOptions \/ IntrClear \/ DisableCore
           \/ ResetFifos \/ IntrGlobalDisable
    PROVE  IInv'
<1> USE DEF Step, SetCR, WriteCR, FifoResets
<1>1. CASE ResetDevice
  BY <1>1 DEF ResetDevice, SoftReset
<1>2. CASE SetOptions
  BY <1>2 DEF SetOptions
<1>3. CASE IntrClear
  <2>1. slaveErr' = FALSE
    <3>1. slaveErr = TRUE
      BY <1>3 DEF IntrClear
    <3> QED
      BY <1>3, <3>1, Zenon DEF IntrClear
  <2> QED
    BY <1>3, <2>1, Zenon DEF IntrClear, coreVars
<1>4. CASE DisableCore
  BY <1>4 DEF DisableCore
<1>5. CASE ResetFifos
  BY <1>5 DEF ResetFifos
<1>6. CASE IntrGlobalDisable
  BY <1>6 DEF IntrGlobalDisable, coreVars
<1> QED
  BY <1>1, <1>2, <1>3, <1>4, <1>5, <1>6, Zenon

(* The core moves no byte after the reset, and addresses no flash that is  *)
(* not selected.                                                           *)
LEMMA CoreKeeps ==
    ASSUME IInv, Core
    PROVE  IInv'
<1>1. CASE ShiftStart
  BY <1>1, Zenon DEF Core, ShiftStart, initVars
<1>2. CASE ShiftDone
  BY <1>2, Zenon DEF Core, ShiftDone, initVars
<1> QED
  BY <1>1, <1>2, Zenon DEF Core

LEMMA StutterKeeps ==
    ASSUME IInv, UNCHANGED vars
    PROVE  IInv'
  BY Zenon DEF vars, coreVars, initVars

(* From the software reset of init_spi() on, every register of the core    *)
(* is known, whatever state the core was found in (spi.c, init_spi()).     *)
THEOREM Inductive == Spec => []IInv
<1>1. IInv /\ [Next]_vars => IInv'
  BY StartupKeeps, SetupKeeps, CoreKeeps, StutterKeeps, Zenon DEF Next, Processor
<1> QED
  BY <1>1, InitInv, PTL DEF Spec

(* init_spi() returns with the core as send_spi() expects it, with no      *)
(* interrupt enabled or pending.                                           *)
THEOREM InitReadyHolds == Spec => []InitReady
<1>1. IInv => InitReady
  <2> SUFFICES ASSUME IInv, pc = "ready"
               PROVE  CoreReady /\ ~gie /\ ~slaveErr
    BY Zenon DEF InitReady
  <2>1. CoreReady
    BY DEF CoreReady
  <2>2. gie = FALSE /\ slaveErr = FALSE
    OBVIOUS
  <2> QED
    BY <2>1, <2>2, Zenon
<1> QED
  BY <1>1, Inductive, PTL

(* After a power-up init_spi() sends the flash no command: the dummy read  *)
(* of XSpi_CfgInitialize() is clocked with the flash not selected.         *)
THEOREM FlashNotAddressedHolds == Spec => []FlashNotAddressed
<1>1. IInv => FlashNotAddressed
  BY DEF FlashNotAddressed
<1> QED
  BY <1>1, Inductive, PTL
=============================================================================

---------------------------- MODULE UartLite_proofs ----------------------------
(***************************************************************************)
(* SentInOrder, DoneMeansOut and ReceivedGenuine of UartLite, for a FIFO   *)
(* of any size and any number of sends and bytes, of any length.           *)
(*                                                                         *)
(* None is inductive.  Order needs that only one of the application and    *)
(* the handler is between its read and its advance of SendBuffer, which is *)
(* what the interrupt enable is cleared for (Control), and that everything *)
(* sent so far comes before the byte to be sent next (Order).  A send that *)
(* was reported needs that the status the handler read is still true when  *)
(* it is used, and that nothing remains of that send (Finished).  The      *)
(* bytes received need what the thread in the loop has stored and not yet  *)
(* counted, and what waits in the FIFO (Receiving).                        *)
(***************************************************************************)
EXTENDS UartLite, SequenceTheorems, TLAPS

Sent == Nat \X Nat

Types ==
    /\ DOMAIN uart = {"tx", "rx", "enable"}
    /\ uart.tx \in Seq(Sent) /\ uart.enable \in BOOLEAN /\ irq \in BOOLEAN
    /\ SendBuffer \in [RequestedBytes : Nat, RemainingBytes : Nat, next : Nat]
    /\ DOMAIN pc = Threads
    /\ status \in [Threads -> BOOLEAN] /\ saved \in [Threads -> BOOLEAN]
    /\ count \in [Threads -> Nat]
    /\ calls \in Nat /\ wire \in Seq(Sent)

Loop == {"sloop", "sstatus"}

(* Where the application counts on not being interrupted.                  *)
Critical == {"send2", "send3", "recv2", "recv3", "rloop"} \cup Loop

(* Where the handler still counts on the status it has read.               *)
Reading == {"receive", "recv", "rdisable", "rloop", "transmit"}

Control ==
    /\ pc["app"] \in Critical => irq = FALSE /\ uart.enable = FALSE /\ pc["isr"] = "none"
    /\ pc["isr"] \in Reading /\ "TX_EMPTY" \in IsrStatus => uart.tx = <<>>
    /\ \A t \in Threads : /\ pc[t] = "sdisable" => count[t] = 0
                          /\ pc[t] \in Loop => count[t] <= SendBuffer.RemainingBytes

InFlight(t) == IF pc[t] \in Loop THEN count[t] ELSE 0

(* The place in the buffer of the byte to be sent next.                    *)
Ahead == SendBuffer.next + InFlight("app") + InFlight("isr")

(* Everything sent comes before byte n of send c.                          *)
Before(s, c, n) ==
    \A k \in 1..Len(s) : s[k][1] <= c /\ (s[k][1] = c => s[k][2] < n)

Sorted(s) ==
    \A k \in 1..(Len(s) - 1) :
        \/ s[k][1] < s[k + 1][1]
        \/ s[k][1] = s[k + 1][1] /\ s[k][2] < s[k + 1][2]

Order == Sorted(wire \o uart.tx) /\ Before(wire \o uart.tx, calls, Ahead)

Finished ==
    /\ DoneMeansOut
    /\ \A c \in DOMAIN done : c \in Nat /\ c <= calls
    /\ calls \in DOMAIN done => SendBuffer.RemainingBytes = 0

IInv == Types /\ Control /\ Order /\ Finished

LEMMA InitInv == Init => IInv
<1> SUFFICES ASSUME Init PROVE IInv
  OBVIOUS
<1>1. /\ uart.tx = <<>> /\ wire = <<>> /\ DOMAIN done = {}
      /\ pc["app"] = "idle" /\ pc["isr"] = "none"
  BY DEF Init
<1>2. Types
  <2>1. /\ DOMAIN uart = {"tx", "rx", "enable"}
        /\ uart.tx \in Seq(Sent) /\ uart.enable = FALSE /\ irq = FALSE
    BY DEF Init
  <2>2. DOMAIN pc = Threads
    BY DEF Init, Threads
  <2>3. SendBuffer \in [RequestedBytes : Nat, RemainingBytes : Nat, next : Nat]
    BY DEF Init
  <2>4. /\ status \in [Threads -> BOOLEAN] /\ saved \in [Threads -> BOOLEAN]
        /\ count \in [Threads -> Nat]
    BY DEF Init
  <2>5. calls \in Nat /\ wire \in Seq(Sent)
    BY DEF Init
  <2> QED
    BY <2>1, <2>2, <2>3, <2>4, <2>5, Zenon DEF Types
<1>3. Control
  BY <1>1 DEF Control, Critical, Loop, Reading, Threads
<1>4. Len(wire \o uart.tx) = 0
  BY <1>1
<1>5. Order
  BY <1>4 DEF Order, Sorted, Before
<1>6. Finished
  BY <1>1 DEF Init, Finished, DoneMeansOut
<1> QED
  BY <1>2, <1>3, <1>5, <1>6 DEF IInv

-----------------------------------------------------------------------------
(* Steps that neither send nor change the buffer.                          *)

SendKept ==
    /\ uart'.tx = uart.tx
    /\ UNCHANGED <<wire, calls, done, SendBuffer>>

LEMMA Kept ==
    ASSUME Order, Finished, SendKept, Ahead' = Ahead
    PROVE  Order' /\ Finished'
  BY DEF Order, Finished, DoneMeansOut, SendKept

(* A thread that stays outside the sending loop.                           *)
LEMMA Outside ==
    ASSUME Types, NEW t \in Threads, NEW to, pc[t] \notin Loop, to \notin Loop,
           pc' = [pc EXCEPT ![t] = to], \A u \in Threads \ {t} : count'[u] = count[u],
           SendBuffer' = SendBuffer
    PROVE  Ahead' = Ahead
<1>1. /\ \A u \in Threads : pc'[u] \in Loop <=> pc[u] \in Loop
      /\ \A u \in Threads : pc[u] \in Loop => u # t
  BY DEF Types
<1>2. \A u \in Threads : InFlight(u)' = InFlight(u)
  BY <1>1 DEF InFlight
<1> QED
  BY <1>2 DEF Ahead, Threads

(* The control register.                                                   *)
LEMMA Controls ==
    ASSUME Types, NEW e \in BOOLEAN, WriteControl(e)
    PROVE  /\ DOMAIN uart' = DOMAIN uart
           /\ uart'.tx = uart.tx /\ uart'.enable = e
           /\ irq' \in BOOLEAN
           /\ e = FALSE => irq' = irq
<1>1. /\ DOMAIN uart' = DOMAIN uart
      /\ uart'.tx = uart.tx /\ uart'.enable = e
  BY DEF WriteControl, Types
<1>2. irq' \in BOOLEAN /\ (e = FALSE => irq' = irq)
  BY Zenon DEF WriteControl, Types
<1> QED
  BY <1>1, <1>2

LEMMA Forgotten ==
    ASSUME Types, NEW t \in Threads, Forget(t)
    PROVE  /\ status' \in [Threads -> BOOLEAN] /\ saved' \in [Threads -> BOOLEAN]
           /\ count' \in [Threads -> Nat] /\ IsrStatus' = IsrStatus
           /\ \A u \in Threads \ {t} : count'[u] = count[u]
  BY DEF Types, Forget

(* The application runs only when nothing is pending.                      *)
LEMMA Undisturbed ==
    ASSUME Types, Runs("app")
    PROVE  irq = FALSE /\ pc["isr"] = "none"
  BY Zenon DEF Types, Runs
-----------------------------------------------------------------------------
(* Steps of one thread outside the sending loop.                           *)

LEMMA AppQuiet ==
    ASSUME IInv, Types', SendKept, Runs("app"), pc["app"] \notin Loop,
           NEW to, to \notin Loop, pc' = [pc EXCEPT !["app"] = to],
           IsrStatus' = IsrStatus, count'["isr"] = count["isr"],
           to = "sdisable" => count'["app"] = 0,
           to \in Critical => irq' = FALSE /\ uart'.enable = FALSE
    PROVE  IInv'
<1>1. pc["isr"] = "none" /\ Types /\ Control /\ Order /\ Finished
  BY Undisturbed DEF IInv
<1>2. pc'["app"] = to /\ pc'["isr"] = "none"
  BY <1>1 DEF Types, Threads
<1>3. Control'
  BY <1>1, <1>2 DEF Control, Threads, Reading, Loop
<1>4. Ahead' = Ahead
  BY <1>1, Outside, Zenon DEF SendKept, Threads
<1> QED
  BY <1>1, <1>3, <1>4, Kept DEF IInv

LEMMA IsrQuiet ==
    ASSUME IInv, Types', SendKept, pc["isr"] \notin Loop, irq = TRUE \/ pc["isr"] # "none",
           NEW to, to \notin Loop, pc' = [pc EXCEPT !["isr"] = to],
           count'["app"] = count["app"],
           to = "sdisable" => count'["isr"] = 0,
           to \in Reading /\ "TX_EMPTY" \in IsrStatus' => uart.tx = <<>>
    PROVE  IInv'
<1>1. Types /\ Control /\ Order /\ Finished
  BY DEF IInv
<1>2. pc'["isr"] = to /\ pc'["app"] = pc["app"] /\ pc["app"] \notin Critical
  BY <1>1 DEF Types, Threads, Control
<1>3. Control'
  BY <1>1, <1>2 DEF Control, Threads, SendKept
<1>4. Ahead' = Ahead
  BY <1>1, Outside, Zenon DEF SendKept, Threads
<1> QED
  BY <1>1, <1>3, <1>4, Kept DEF IInv

USE DEF vars, buffers, locals, history

(* Entering and leaving calls, and the interrupt enable.                   *)
LEMMA CallKeeps ==
    ASSUME IInv, Call
    PROVE  IInv'
<1>1. ASSUME NEW to \in {"send1", "recv1", "reset1"}, Enter(to) PROVE IInv'
  <2>1. Types' /\ SendKept
    BY <1>1 DEF Enter, At, Goto, IInv, Types, SendKept, Threads
  <2> QED
    BY <1>1, <2>1, AppQuiet, Zenon DEF Enter, At, Goto, Loop, Critical
<1>2. ASSUME NEW e \in BOOLEAN, At("app", "idle", "idle"), WriteControl(e),
             UNCHANGED <<buffers, locals, history>>
      PROVE  IInv'
  <2>1. Types' /\ SendKept
    BY <1>2, Controls, Zenon DEF At, Goto, IInv, Types, SendKept, Threads
  <2> QED
    BY <1>2, <2>1, AppQuiet, Zenon DEF At, Goto, Loop, Critical
<1> QED
  BY <1>1, <1>2, Zenon DEF Call, Send, Recv, ResetFifos, EnableInterrupt, DisableInterrupt, Disable

(* Inside a call, around the new buffer.                                   *)
LEMMA DisableKeeps ==
    ASSUME IInv, NEW from \in {"send1", "recv1"}, NEW to \in {"send2", "recv2"},
           Disable(from, to)
    PROVE  IInv'
<1>1. Types /\ Runs("app") /\ irq = FALSE
  BY Undisturbed DEF IInv, Disable, At
<1>2. Types' /\ SendKept /\ irq' = FALSE /\ uart'.enable = FALSE
  BY <1>1, Controls, Zenon DEF Disable, At, Goto, Types, SendKept, Threads
<1> QED
  BY <1>1, <1>2, AppQuiet, Zenon DEF Disable, At, Goto, Loop, Critical

LEMMA RecvSetupKeeps ==
    ASSUME IInv, RecvSetup
    PROVE  IInv'
<1>1. Types' /\ SendKept
  BY DEF RecvSetup, At, Goto, IInv, Types, SendKept, Threads
<1>2. irq' = FALSE /\ uart'.enable = FALSE
  BY DEF RecvSetup, At, IInv, Control, Critical
<1>3. /\ Runs("app") /\ pc["app"] = "recv2" /\ pc' = [pc EXCEPT !["app"] = "recv3"]
      /\ IsrStatus' = IsrStatus /\ count' = count
  BY DEF RecvSetup, At, Goto
<1>4. pc["app"] \notin Loop /\ "recv3" \notin Loop /\ "recv3" # "sdisable"
  BY <1>3 DEF Loop
<1>5. count'["isr"] = count["isr"]
  BY <1>3
<1> QED
  BY <1>1, <1>2, <1>3, <1>4, <1>5, AppQuiet, Zenon

-----------------------------------------------------------------------------
(* Receiving, in either thread.                                            *)

(* The handler runs while it has not returned.                             *)
LEMMA IsrRuns ==
    ASSUME IInv, Runs("isr")
    PROVE  irq = TRUE \/ pc["isr"] # "none"
  BY DEF Runs

(* A quiet step of either thread that keeps IsrStatus and stays on its     *)
(* side of the handler's last use of it.                                   *)
LEMMA EitherQuiet ==
    ASSUME IInv, Types', SendKept, NEW t \in Threads, NEW from, NEW to,
           At(t, from, to), from \notin Loop, to \notin Loop,
           t = "isr" /\ to \in Reading => from \in Reading,
           IsrStatus' = IsrStatus, \A u \in Threads \ {t} : count'[u] = count[u],
           to = "sdisable" => count'[t] = 0,
           t = "app" /\ to \in Critical => irq' = FALSE /\ uart'.enable = FALSE
    PROVE  IInv'
<1>1. CASE t = "app"
  BY <1>1, AppQuiet, Zenon DEF At, Goto, Threads
<1>2. CASE t = "isr"
  <2>1. to \in Reading /\ "TX_EMPTY" \in IsrStatus' => uart.tx = <<>>
    BY <1>2 DEF At, IInv, Control
  <2> QED
    BY <1>2, <2>1, IsrQuiet, IsrRuns, Zenon DEF At, Goto, Threads
<1> QED
  BY <1>1, <1>2 DEF Threads

LEMMA RestoreKeeps ==
    ASSUME IInv, NEW from \in {"send3", "recv3"}, NEW to \in {"send", "recv"},
           Restore(from, to)
    PROVE  IInv'
<1>1. Types /\ saved.app \in BOOLEAN /\ "app" \in Threads
  BY DEF IInv, Types, Threads
<1>2. /\ DOMAIN uart' = DOMAIN uart /\ uart'.tx = uart.tx
      /\ uart'.enable \in BOOLEAN /\ irq' \in BOOLEAN
  BY <1>1, Controls, Zenon DEF Restore
<1>3. /\ status' \in [Threads -> BOOLEAN] /\ saved' \in [Threads -> BOOLEAN]
      /\ count' \in [Threads -> Nat] /\ IsrStatus' = IsrStatus
      /\ \A u \in Threads \ {"app"} : count'[u] = count[u]
  BY <1>1, Forgotten DEF Restore
<1>4. Types' /\ SendKept
  BY <1>1, <1>2, <1>3 DEF Restore, At, Goto, Types, SendKept
<1> QED
  BY <1>1, <1>3, <1>4, EitherQuiet, Zenon DEF Restore, Loop, Critical

LEMMA RecvKeeps ==
    ASSUME IInv, NEW t \in Threads,
           SendRead(t) \/ RecvRead(t) \/ RecvDisable(t) \/ RecvByte(t) \/ RecvLeave(t)
    PROVE  IInv'
<1>1. Types /\ saved[t] \in BOOLEAN /\ uart.enable \in BOOLEAN
  BY DEF IInv, Types
<1>2. CASE SendRead(t)
  <2>1. Types'
    <3>1. TxFull \in BOOLEAN
      BY DEF TxFull
    <3> QED
      BY <1>1, <1>2, <3>1 DEF SendRead, At, Goto, Types
  <2> QED
    BY <1>1, <1>2, <2>1, EitherQuiet, Zenon DEF SendRead, Types, SendKept, Loop, Critical, Reading
<1>3. CASE RecvRead(t)
  <2>1. Types'
    BY <1>1, <1>3 DEF RecvRead, At, Goto, Types
  <2> QED
    BY <1>1, <1>3, <2>1, EitherQuiet, Zenon DEF RecvRead, Types, SendKept, Loop, Critical, Reading
<1>4. CASE RecvDisable(t)
  <2>1. /\ DOMAIN uart' = DOMAIN uart /\ uart'.tx = uart.tx
        /\ uart'.enable = FALSE /\ irq' = irq
    BY <1>1, <1>4, Controls, Zenon DEF RecvDisable
  <2>2. Types' /\ SendKept
    BY <1>1, <1>4, <2>1, Zenon DEF RecvDisable, At, Goto, Types, SendKept
  <2>3. t = "app" => irq' = FALSE
    BY <1>1, <1>4, <2>1, Undisturbed DEF RecvDisable, At
  <2> QED
    BY <1>4, <2>1, <2>2, <2>3, EitherQuiet, Zenon DEF RecvDisable, Loop, Reading
<1>5. CASE RecvByte(t)
  <2>1. DOMAIN uart' = DOMAIN uart /\ uart'.tx = uart.tx /\ uart'.enable = uart.enable
    BY <1>1, <1>5 DEF RecvByte, Types
  <2>2. count' = [count EXCEPT ![t] = @ + 1]
    BY <1>5 DEF RecvByte
  <2>3. Types' /\ SendKept
    BY <1>1, <1>5, <2>1, <2>2 DEF RecvByte, At, Goto, Types, SendKept
  <2>4. t = "app" => irq' = FALSE /\ uart'.enable = FALSE
    BY <1>5, <2>1 DEF RecvByte, At, IInv, Control, Critical
  <2>5. \A u \in Threads \ {t} : count'[u] = count[u]
    BY <1>1, <2>2 DEF Types
  <2> QED
    BY <1>5, <2>3, <2>4, <2>5, EitherQuiet, Zenon DEF RecvByte, Loop, Reading
<1>6. CASE RecvLeave(t)
  <2>1. /\ DOMAIN uart' = DOMAIN uart /\ uart'.tx = uart.tx
        /\ uart'.enable \in BOOLEAN /\ irq' \in BOOLEAN
    BY <1>1, <1>6, Controls, Zenon DEF RecvLeave
  <2>2. /\ status' \in [Threads -> BOOLEAN] /\ saved' \in [Threads -> BOOLEAN]
        /\ count' \in [Threads -> Nat] /\ IsrStatus' = IsrStatus
        /\ \A u \in Threads \ {t} : count'[u] = count[u]
    BY <1>1, <1>6, Forgotten DEF RecvLeave
  <2>3. Types' /\ SendKept
    BY <1>1, <1>6, <2>1, <2>2, Zenon DEF RecvLeave, At, Goto, Types, SendKept
  <2> QED
    BY <1>6, <2>2, <2>3, EitherQuiet, Zenon DEF RecvLeave, Loop, Reading, Critical
<1> QED
  BY <1>2, <1>3, <1>4, <1>5, <1>6
-----------------------------------------------------------------------------
(* The sequence of everything sent, as it grows.                           *)

LEMMA SentGrows ==
    ASSUME NEW s \in Seq(Sent), NEW c \in Nat, NEW n \in Nat,
           Sorted(s), Before(s, c, n)
    PROVE  Sorted(Append(s, <<c, n>>)) /\ Before(Append(s, <<c, n>>), c, n + 1)
<1> DEFINE e == <<c, n>>
           r == Append(s, e)
<1>1. /\ r \in Seq(Sent) /\ Len(r) = Len(s) + 1 /\ Len(s) \in Nat
      /\ r[Len(s) + 1] = e /\ \A k \in 1..Len(s) : r[k] = s[k]
  BY DEF Sent
<1>2. e[1] = c /\ e[2] = n
  OBVIOUS
<1>3. \A k \in 1..Len(s) : s[k][1] \in Nat /\ s[k][2] \in Nat
  BY DEF Sent
<1> HIDE DEF e, r
<1>4. Before(r, c, n + 1)
  <2> SUFFICES ASSUME NEW k \in 1..Len(r)
               PROVE  r[k][1] <= c /\ (r[k][1] = c => r[k][2] < n + 1)
    BY DEF Before
  <2>1. CASE k = Len(s) + 1
    BY <1>1, <1>2, <2>1
  <2>2. CASE k \in 1..Len(s)
    BY <1>1, <1>3, <2>2, SMTT(30) DEF Before
  <2> QED
    BY <1>1, <2>1, <2>2
<1>5. Sorted(r)
  <2> SUFFICES ASSUME NEW k \in 1..(Len(r) - 1)
               PROVE  \/ r[k][1] < r[k + 1][1]
                      \/ r[k][1] = r[k + 1][1] /\ r[k][2] < r[k + 1][2]
    BY DEF Sorted
  <2>1. CASE k = Len(s)
    <3>1. r[k] = s[k] /\ r[k + 1] = e /\ k \in 1..Len(s)
      BY <1>1, <2>1
    <3>2. s[k][1] <= c /\ (s[k][1] = c => s[k][2] < n)
      BY <3>1 DEF Before
    <3> QED
      BY <1>2, <1>3, <3>1, <3>2
  <2>2. CASE k \in 1..(Len(s) - 1)
    <3>1. r[k] = s[k] /\ r[k + 1] = s[k + 1]
      BY <1>1, <2>2
    <3> QED
      BY <2>2, <3>1 DEF Sorted
  <2> QED
    BY <1>1, <2>1, <2>2
<1> QED
  BY <1>4, <1>5 DEF r, e

(* A part of it, from its beginning.                                       *)
LEMMA SentCut ==
    ASSUME NEW w \in Seq(Sent), NEW x \in Seq(Sent), NEW c, NEW n,
           Sorted(w \o x), Before(w \o x, c, n)
    PROVE  Sorted(w) /\ Before(w, c, n)
<1>1. /\ Len(w) \in Nat /\ Len(x) \in Nat /\ Len(w \o x) = Len(w) + Len(x)
      /\ \A k \in 1..Len(w) : (w \o x)[k] = w[k]
  OBVIOUS
<1>2. Before(w, c, n)
  BY <1>1 DEF Before
<1>3. Sorted(w)
  <2> SUFFICES ASSUME NEW k \in 1..(Len(w) - 1)
               PROVE  \/ w[k][1] < w[k + 1][1]
                      \/ w[k][1] = w[k + 1][1] /\ w[k][2] < w[k + 1][2]
    BY DEF Sorted
  <2>1. k \in 1..(Len(w \o x) - 1) /\ (w \o x)[k] = w[k] /\ (w \o x)[k + 1] = w[k + 1]
    BY <1>1
  <2> QED
    BY <2>1 DEF Sorted
<1> QED
  BY <1>2, <1>3
-----------------------------------------------------------------------------
(* The sending loop: one thread at a time.                                 *)

LEMMA Alone ==
    ASSUME IInv, NEW t \in Threads, Runs(t)
    PROVE  /\ \A u \in Threads \ {t} : pc[u] \notin Loop
           /\ t = "app" => irq = FALSE /\ pc["isr"] = "none"
           /\ t = "isr" => pc["app"] \notin Critical
<1>1. CASE t = "app"
  BY <1>1, Undisturbed DEF IInv, Threads, Loop
<1>2. CASE t = "isr"
  BY <1>2 DEF IInv, Control, Runs, Threads, Critical
<1> QED
  BY <1>1, <1>2, Zenon DEF Threads

LEMMA AheadAlone ==
    ASSUME Types, NEW t \in Threads, \A u \in Threads \ {t} : pc[u] \notin Loop
    PROVE  Ahead = SendBuffer.next + (IF pc[t] \in Loop THEN count[t] ELSE 0)
<1>1. count[t] \in Nat /\ SendBuffer.next \in Nat
  BY DEF Types
<1>2. CASE t = "app"
  <2>1. InFlight("isr") = 0
    BY <1>2 DEF InFlight, Threads
  <2> QED
    BY <1>1, <1>2, <2>1 DEF Ahead, InFlight
<1>3. CASE t = "isr"
  <2>1. InFlight("app") = 0
    BY <1>3 DEF InFlight, Threads
  <2> QED
    BY <1>1, <1>3, <2>1 DEF Ahead, InFlight
<1> QED
  BY <1>2, <1>3 DEF Threads

(* What a step of thread t does to Control and to Ahead, where it ends in  *)
(* the loop or comes from it.                                              *)
LEMMA LoopControl ==
    ASSUME IInv, Types', NEW t \in Threads, NEW from, NEW to, At(t, from, to),
           t = "isr" => to \notin Reading,
           IsrStatus' = IsrStatus, \A u \in Threads \ {t} : count'[u] = count[u],
           to # "sdisable",
           to \in Loop => count'[t] <= SendBuffer'.RemainingBytes,
           t = "app" /\ to \in Critical => irq' = FALSE /\ uart'.enable = FALSE
    PROVE  /\ Control'
           /\ Ahead = SendBuffer.next + (IF from \in Loop THEN count[t] ELSE 0)
           /\ Ahead' = SendBuffer'.next + (IF to \in Loop THEN count'[t] ELSE 0)
<1>1. /\ Types /\ Control /\ Runs(t) /\ pc[t] = from /\ pc' = [pc EXCEPT ![t] = to]
      /\ DOMAIN pc = Threads
  BY SMTT(30) DEF IInv, Types, At, Goto
<1>2. pc'[t] = to /\ \A u \in Threads \ {t} : pc'[u] = pc[u] /\ pc[u] \notin Loop
  BY <1>1, Alone, Zenon
<1>3. Ahead = SendBuffer.next + (IF from \in Loop THEN count[t] ELSE 0)
  BY <1>1, <1>2, AheadAlone
<1>4. Ahead' = SendBuffer'.next + (IF to \in Loop THEN count'[t] ELSE 0)
  <2>1. \A u \in Threads \ {t} : pc'[u] \notin Loop
    BY <1>2
  <2>2. CASE t = "app"
    <3>1. InFlight("isr")' = 0 /\ InFlight("app")' = IF to \in Loop THEN count'[t] ELSE 0
      BY <1>2, <2>1, <2>2 DEF InFlight, Threads
    <3> QED
      BY <3>1 DEF Ahead, Types
  <2>3. CASE t = "isr"
    <3>1. InFlight("app")' = 0 /\ InFlight("isr")' = IF to \in Loop THEN count'[t] ELSE 0
      BY <1>2, <2>1, <2>3 DEF InFlight, Threads
    <3> QED
      BY <3>1 DEF Ahead, Types
  <2> QED
    BY <2>2, <2>3 DEF Threads
<1>5. \A u \in Threads : /\ pc'[u] = "sdisable" => count'[u] = 0
                         /\ pc'[u] \in Loop => count'[u] <= SendBuffer'.RemainingBytes
  BY <1>1, <1>2 DEF Control
<1>6. CASE t = "app"
  <2>1. pc'["isr"] = "none" /\ pc'["app"] = to
    BY <1>1, <1>2, <1>6, Alone DEF Threads
  <2> QED
    BY <1>3, <1>4, <1>5, <1>6, <2>1 DEF Control, Reading
<1>7. CASE t = "isr"
  <2>1. pc'["app"] \notin Critical /\ pc'["isr"] = to
    BY <1>1, <1>2, <1>7, Alone DEF Threads
  <2> QED
    BY <1>3, <1>4, <1>5, <1>7, <2>1 DEF Control
<1> QED
  BY <1>6, <1>7 DEF Threads
LEMMA SendDisableKeeps ==
    ASSUME IInv, NEW t \in Threads, SendDisable(t)
    PROVE  IInv'
<1>1. Types /\ Order /\ Finished /\ At(t, "sdisable", "sloop") /\ Runs(t) /\ count[t] = 0
  BY DEF IInv, Control, SendDisable, At
<1>2. /\ DOMAIN uart' = DOMAIN uart /\ uart'.tx = uart.tx
      /\ uart'.enable = FALSE /\ irq' = irq
  BY <1>1, Controls, Zenon DEF SendDisable
<1>3. Types' /\ SendKept /\ count' = count /\ IsrStatus' = IsrStatus
  BY <1>1, <1>2, Zenon DEF SendDisable, At, Goto, Types, SendKept
<1>4. t = "app" => irq' = FALSE
  BY <1>1, <1>2, Alone, Zenon
<1>5. count[t] <= SendBuffer'.RemainingBytes
  BY <1>1, <1>3 DEF Types
<1>6. Control' /\ Ahead = SendBuffer.next + 0 /\ Ahead' = SendBuffer'.next + count[t]
  BY <1>1, <1>2, <1>3, <1>4, <1>5, LoopControl, Zenon DEF Loop, Reading
<1>7. Ahead' = Ahead
  BY <1>1, <1>3, <1>6 DEF SendKept
<1> QED
  BY <1>1, <1>3, <1>6, <1>7, Kept DEF IInv

(* Where the loop goes round, and the application is still undisturbed.    *)
LEMMA StillCritical ==
    ASSUME IInv, NEW t \in Threads, NEW from \in Loop, NEW to, At(t, from, to),
           irq' = irq, uart'.enable = uart.enable
    PROVE  t = "app" => irq' = FALSE /\ uart'.enable = FALSE
  BY DEF IInv, Control, At, Critical

LEMMA SendStatusKeeps ==
    ASSUME IInv, NEW t \in Threads, SendStatus(t)
    PROVE  IInv'
<1>1. /\ Types /\ Order /\ Finished /\ At(t, "sstatus", "sloop")
      /\ count[t] <= SendBuffer.RemainingBytes
  BY DEF IInv, Control, SendStatus, At, Loop
<1>2. TxFull \in BOOLEAN
  BY DEF TxFull
<1>3. Types' /\ SendKept /\ count' = count /\ IsrStatus' = IsrStatus
  BY <1>1, <1>2 DEF SendStatus, At, Goto, Types, SendKept
<1>4. t = "app" => irq' = FALSE /\ uart'.enable = FALSE
  <2>1. irq' = irq /\ uart'.enable = uart.enable /\ "sstatus" \in Loop
    BY DEF SendStatus, Loop
  <2> QED
    BY <1>1, <2>1, StillCritical, Zenon
<1>5. Control' /\ Ahead = SendBuffer.next + count[t] /\ Ahead' = SendBuffer'.next + count[t]
  <2>1. /\ "sstatus" \in Loop /\ "sloop" \in Loop /\ "sloop" \notin Reading
        /\ SendBuffer' = SendBuffer /\ "sloop" # "sdisable"
    BY <1>3 DEF Loop, Reading, SendKept
  <2> QED
    BY <1>1, <1>3, <1>4, <2>1, LoopControl, Zenon
<1>6. Ahead' = Ahead
  BY <1>3, <1>5 DEF SendKept
<1> QED
  BY <1>1, <1>3, <1>5, <1>6, Kept DEF IInv

LEMMA SendLeaveKeeps ==
    ASSUME IInv, NEW t \in Threads, SendLeave(t)
    PROVE  IInv'
<1> DEFINE out == IF t = "app" THEN "idle" ELSE "none"
<1>1. /\ Types /\ Order /\ Finished /\ At(t, "sloop", out) /\ saved[t] \in BOOLEAN
      /\ count[t] \in Nat /\ count[t] <= SendBuffer.RemainingBytes
      /\ SendBuffer.RemainingBytes \in Nat /\ SendBuffer.next \in Nat
  BY SMTT(30) DEF IInv, Types, Control, SendLeave, At, Loop
<1>2. /\ DOMAIN uart' = DOMAIN uart /\ uart'.tx = uart.tx
      /\ uart'.enable \in BOOLEAN /\ irq' \in BOOLEAN
  BY <1>1, Controls, Zenon DEF SendLeave
<1>3. /\ status' \in [Threads -> BOOLEAN] /\ saved' \in [Threads -> BOOLEAN]
      /\ count' \in [Threads -> Nat] /\ IsrStatus' = IsrStatus
      /\ \A u \in Threads \ {t} : count'[u] = count[u]
  BY <1>1, Forgotten DEF SendLeave
<1>4. /\ SendBuffer' \in [RequestedBytes : Nat, RemainingBytes : Nat, next : Nat]
      /\ SendBuffer'.next = SendBuffer.next + count[t]
      /\ SendBuffer'.RemainingBytes = SendBuffer.RemainingBytes - count[t]
  <2>1. SendBuffer' = [SendBuffer EXCEPT !.next = @ + count[t], !.RemainingBytes = @ - count[t]]
    BY DEF SendLeave, Advance
  <2>2. SendBuffer.RemainingBytes - count[t] \in Nat /\ SendBuffer.next + count[t] \in Nat
    BY <1>1
  <2> QED
    BY <1>1, <2>1, <2>2, Zenon DEF Types
<1>5. Types' /\ UNCHANGED <<wire, calls, done>>
  BY <1>1, <1>2, <1>3, <1>4, Zenon DEF SendLeave, At, Goto, Types
<1>6. out \notin Loop /\ out \notin Reading /\ out \notin Critical /\ out # "sdisable"
  BY DEF Loop, Reading, Critical
<1> HIDE DEF out
<1>7. Control' /\ Ahead = SendBuffer.next + count[t] /\ Ahead' = SendBuffer'.next + 0
  BY <1>1, <1>3, <1>5, <1>6, LoopControl, ZenonT(30) DEF Loop
<1>8. Ahead' = Ahead
  BY <1>1, <1>4, <1>7
<1>9. Order'
  BY <1>1, <1>2, <1>5, <1>8 DEF Order
<1>10. Finished'
  BY <1>1, <1>2, <1>4, <1>5 DEF Finished, DoneMeansOut
<1> QED
  BY <1>5, <1>7, <1>9, <1>10, SMTT(30) DEF IInv
LEMMA AppendEntries ==
    ASSUME NEW x \in Seq(Sent), NEW e \in Sent
    PROVE  \A k \in 1..Len(Append(x, e)) :
              Append(x, e)[k] = e \/ (k \in 1..Len(x) /\ Append(x, e)[k] = x[k])
  OBVIOUS

LEMMA AppendSent ==
    ASSUME NEW w \in Seq(Sent), NEW x \in Seq(Sent), NEW e \in Sent
    PROVE  /\ Append(x, e) \in Seq(Sent) /\ w \o x \in Seq(Sent)
           /\ w \o Append(x, e) = Append(w \o x, e)
<1>1. Append(x, e) \in Seq(Sent) /\ w \o x \in Seq(Sent) /\ <<e>> \in Seq(Sent)
  OBVIOUS
<1>2. w \o (x \o <<e>>) = (w \o x) \o <<e>>
  BY <1>1, ConcatAssociative
<1>3. Append(x, e) = x \o <<e>> /\ Append(w \o x, e) = (w \o x) \o <<e>>
  BY <1>1, AppendIsConcat
<1> QED
  BY <1>1, <1>2, <1>3, Zenon

LEMMA SendByteKeeps ==
    ASSUME IInv, NEW t \in Threads, SendByte(t)
    PROVE  IInv'
<1> DEFINE e == <<calls, SendBuffer.next + count[t]>>
<1>1. /\ Types /\ Order /\ Finished /\ At(t, "sloop", "sstatus")
      /\ count[t] \in Nat /\ count[t] < SendBuffer.RemainingBytes
      /\ SendBuffer.RemainingBytes \in Nat /\ SendBuffer.next \in Nat /\ calls \in Nat
      /\ uart.tx \in Seq(Sent) /\ wire \in Seq(Sent)
  BY SMTT(30) DEF IInv, Types, SendByte, At
<1>2. /\ DOMAIN uart' = DOMAIN uart /\ uart'.enable = uart.enable /\ irq' = irq
      /\ uart'.tx = Append(uart.tx, e) \/ uart'.tx = uart.tx
  BY <1>1, SMTT(30) DEF SendByte, Types
<1>3. /\ count' = [count EXCEPT ![t] = @ + 1]
      /\ UNCHANGED <<SendBuffer, status, saved, IsrStatus, wire, calls, done>>
  BY DEF SendByte
<1>4. /\ count' \in [Threads -> Nat] /\ count'[t] = count[t] + 1
      /\ \A u \in Threads \ {t} : count'[u] = count[u]
  BY <1>1, <1>3 DEF Types
<1>5. e \in Sent
  BY <1>1, SMTT(30) DEF Sent
<1> HIDE DEF e
<1>6. uart'.tx \in Seq(Sent)
  BY <1>1, <1>2, <1>5, AppendSent, ZenonT(30)
<1>7. Types'
  BY <1>1, <1>2, <1>3, <1>4, <1>6 DEF At, Goto, Types
<1>8. t = "app" => irq' = FALSE /\ uart'.enable = FALSE
  <2>1. "sloop" \in Loop
    BY DEF Loop
  <2> QED
    BY <1>1, <1>2, <2>1, StillCritical, Zenon
<1>9. Control' /\ Ahead = SendBuffer.next + count[t] /\ Ahead' = SendBuffer'.next + count'[t]
  <2>1. /\ "sstatus" \in Loop /\ "sloop" \in Loop /\ "sstatus" \notin Reading
        /\ "sstatus" # "sdisable" /\ count'[t] <= SendBuffer'.RemainingBytes
    BY <1>1, <1>3, <1>4 DEF Loop, Reading
  <2> QED
    BY <1>1, <1>3, <1>4, <1>7, <1>8, <2>1, LoopControl, Zenon
<1>10. Ahead' = Ahead + 1 /\ Ahead \in Nat /\ e = <<calls, Ahead>>
  BY <1>1, <1>3, <1>4, <1>9, SMTT(30) DEF e
<1>11. Order'
  <2>1. CASE uart'.tx = Append(uart.tx, e)
    <3>1. wire' \o uart'.tx = Append(wire \o uart.tx, e) /\ wire \o uart.tx \in Seq(Sent)
      <4> DEFINE x == uart.tx
      <4>1. x \in Seq(Sent) /\ wire \in Seq(Sent) /\ wire' = wire
        BY <1>1, <1>3
      <4> HIDE DEF x
      <4>2. wire \o Append(x, e) = Append(wire \o x, e) /\ wire \o x \in Seq(Sent)
        BY <1>5, <4>1, AppendSent
      <4> QED
        BY <2>1, <4>1, <4>2 DEF x
    <3>2. Sorted(wire' \o uart'.tx) /\ Before(wire' \o uart'.tx, calls, Ahead + 1)
      BY <1>1, <1>10, <3>1, SentGrows, Zenon DEF Order
    <3> QED
      BY <1>3, <1>10, <3>2 DEF Order
  <2>2. CASE uart'.tx = uart.tx
    <3> DEFINE r == wire \o uart.tx
    <3>1. /\ wire' \o uart'.tx = r /\ Sorted(r) /\ Before(r, calls, Ahead)
      BY <1>3, <1>1, <2>2 DEF Order
    <3>2. r \in Seq(Sent)
      BY <1>1
    <3> HIDE DEF r
    <3>3. \A k \in 1..Len(r) : r[k][2] \in Nat
      BY <3>2 DEF Sent
    <3>4. Before(r, calls, Ahead + 1)
      BY <1>10, <3>1, <3>3 DEF Before
    <3> QED
      BY <1>3, <1>10, <3>1, <3>4, SMTT(30) DEF Order
  <2> QED
    BY <1>2, <2>1, <2>2
<1>12. Finished'
  <2>1. calls \notin DOMAIN done
    BY <1>1 DEF Finished
  <2>2. \A k \in 1..Len(uart'.tx) :
           uart'.tx[k] = e \/ (k \in 1..Len(uart.tx) /\ uart'.tx[k] = uart.tx[k])
    <3>1. CASE uart'.tx = uart.tx
      BY <3>1, Zenon
    <3>2. CASE uart'.tx = Append(uart.tx, e)
      <4> DEFINE x == uart.tx
      <4>1. x \in Seq(Sent) /\ uart'.tx = Append(x, e)
        BY <1>1, <3>2
      <4> HIDE DEF x
      <4>2. \A k \in 1..Len(Append(x, e)) :
               Append(x, e)[k] = e \/ (k \in 1..Len(x) /\ Append(x, e)[k] = x[k])
        BY <1>5, <4>1, AppendEntries
      <4> QED
        BY <4>1, <4>2 DEF x
    <3> QED
      BY <1>2, <3>1, <3>2, Zenon
  <2>3. e[1] = calls
    BY DEF e
  <2> QED
    BY <1>1, <1>3, <2>1, <2>2, <2>3, ZenonT(30) DEF Finished, DoneMeansOut
<1> QED
  BY <1>7, <1>9, <1>11, <1>12 DEF IInv
-----------------------------------------------------------------------------
(* A new send, and the reset of the FIFOs.                                 *)

LEMMA SendSetupKeeps ==
    ASSUME IInv, SendSetup
    PROVE  IInv'
<1>1. /\ Types /\ Control /\ Order /\ Finished /\ Runs("app") /\ pc["app"] = "send2"
      /\ pc' = [pc EXCEPT !["app"] = "send3"] /\ calls \in Nat /\ DOMAIN pc = Threads
      /\ calls' = calls + 1 /\ UNCHANGED <<uart, irq, locals, wire, done>>
  BY DEF IInv, Types, SendSetup, At, Goto
<1>2. /\ SendBuffer' \in [RequestedBytes : Nat, RemainingBytes : Nat, next : Nat]
      /\ SendBuffer'.next = 1
  <2>1. PICK n \in 0..MaxLen :
           SendBuffer' = [RequestedBytes |-> n, RemainingBytes |-> n, next |-> 1]
    BY DEF SendSetup
  <2>2. n \in Nat
    OBVIOUS
  <2> QED
    BY <2>1, <2>2
<1>3. Types'
  BY <1>1, <1>2 DEF Types
<1>4. pc'["app"] = "send3" /\ pc'["isr"] = "none" /\ irq = FALSE /\ uart.enable = FALSE
  BY <1>1, Undisturbed DEF Control, Critical, Threads
<1>5. Control'
  BY <1>1, <1>4 DEF Control, Threads, Reading, Loop
<1>6. Order'
  <2> DEFINE r == wire \o uart.tx
  <2>1. wire' \o uart'.tx = r /\ Sorted(r) /\ Before(r, calls, Ahead)
    BY <1>1 DEF Order
  <2>2. r \in Seq(Sent)
    BY <1>1 DEF Types
  <2> HIDE DEF r
  <2>3. \A k \in 1..Len(r) : r[k][1] \in Nat
    BY <2>2 DEF Sent
  <2>4. \A n : Before(r, calls + 1, n)
    BY <1>1, <2>1, <2>3 DEF Before
  <2> QED
    BY <1>1, <2>1, <2>4 DEF Order
<1>7. Finished'
  <2>1. \A c \in DOMAIN done : c \in Nat /\ c <= calls
    BY <1>1 DEF Finished
  <2>2. calls + 1 \notin DOMAIN done /\ \A c \in DOMAIN done : c \in Nat /\ c <= calls + 1
    BY <1>1, <2>1
  <2>3. DoneMeansOut'
    BY <1>1, SMTT(30) DEF Finished, DoneMeansOut
  <2> QED
    BY <1>1, <2>2, <2>3 DEF Finished
<1> QED
  BY <1>3, <1>5, <1>6, <1>7 DEF IInv

LEMMA ResetWriteKeeps ==
    ASSUME IInv, ResetWrite
    PROVE  IInv'
<1>1. /\ Types /\ Control /\ Order /\ Finished /\ Runs("app") /\ pc["app"] = "reset1"
      /\ pc' = [pc EXCEPT !["app"] = "idle"] /\ DOMAIN pc = Threads
      /\ saved.app \in BOOLEAN /\ "app" \in Threads
      /\ UNCHANGED <<SendBuffer, calls, wire, done>>
  BY SMTT(30) DEF IInv, Types, ResetWrite, At, Goto, Threads
<1>2. /\ DOMAIN uart' = {"tx", "rx", "enable"} /\ uart'.tx = <<>>
      /\ uart'.enable \in BOOLEAN
  BY <1>1 DEF ResetWrite
<1>3. irq' \in BOOLEAN
  BY <1>1, Zenon DEF ResetWrite, Types
<1>4. /\ status' \in [Threads -> BOOLEAN] /\ saved' \in [Threads -> BOOLEAN]
      /\ count' \in [Threads -> Nat] /\ IsrStatus' = IsrStatus
      /\ \A u \in Threads \ {"app"} : count'[u] = count[u]
  BY <1>1, Forgotten, SMTT(30) DEF ResetWrite
<1>5. Types'
  BY <1>1, <1>2, <1>3, <1>4 DEF Types
<1>6. pc'["app"] = "idle" /\ pc'["isr"] = "none"
  BY <1>1, Undisturbed DEF Threads
<1>7. Control'
  BY <1>6 DEF Control, Threads, Reading, Loop, Critical
<1>8. Ahead' = Ahead
  BY <1>1, <1>4, Outside, Zenon DEF Loop
<1>9. Order'
  <2>1. wire \in Seq(Sent) /\ uart.tx \in Seq(Sent)
    BY <1>1 DEF Types
  <2>2. wire' \o uart'.tx = wire
    BY <1>1, <1>2, <2>1, ConcatEmptySeq
  <2>3. Sorted(wire) /\ Before(wire, calls, Ahead)
    BY <1>1, <2>1, SentCut DEF Order
  <2> QED
    BY <1>1, <1>8, <2>2, <2>3 DEF Order
<1>10. Finished'
  BY <1>1, <1>2 DEF Finished, DoneMeansOut
<1> QED
  BY <1>5, <1>7, <1>9, <1>10 DEF IInv
-----------------------------------------------------------------------------
(* The handler.                                                            *)

LEMMA InterruptKeeps ==
    ASSUME IInv, Interrupt
    PROVE  IInv'
<1>1. /\ Types /\ irq = TRUE /\ irq' = FALSE /\ pc["isr"] = "none"
      /\ pc' = [pc EXCEPT !["isr"] = "receive"] /\ count' = count
      /\ UNCHANGED <<uart, SendBuffer, status, saved, count, wire, calls, done>>
  BY Zenon DEF IInv, Types, Interrupt, Goto
<1>2. "TX_EMPTY" \in IsrStatus' => uart.tx = <<>>
  BY DEF Interrupt
<1>3. Types' /\ SendKept
  BY <1>1, Zenon DEF Types, SendKept
<1>4. pc["isr"] \notin Loop /\ "receive" \notin Loop /\ "receive" # "sdisable"
  BY <1>1 DEF Loop
<1> QED
  BY <1>1, <1>2, <1>3, <1>4, IsrQuiet, Zenon

LEMMA ReceiveDataHandlerKeeps ==
    ASSUME IInv, ReceiveDataHandler
    PROVE  IInv'
<1>1. PICK to \in {"recv", "transmit"} : At("isr", "receive", to)
  BY DEF ReceiveDataHandler
<1>2. Types' /\ SendKept /\ count' = count /\ IsrStatus' = IsrStatus
  BY <1>1 DEF ReceiveDataHandler, IInv, Types, SendKept, At, Goto
<1>3. /\ "receive" \notin Loop /\ to \notin Loop /\ "receive" \in Reading /\ to # "sdisable"
      /\ "isr" \in Threads /\ "isr" # "app"
  BY DEF Loop, Reading, Threads
<1> QED
  BY <1>1, <1>2, <1>3, EitherQuiet, Zenon

(* The last use of the handler's status.                                   *)
LEMMA Finishes ==
    ASSUME IInv, NEW to, Finish(to)
    PROVE  /\ Types /\ Control /\ Order /\ Finished /\ Runs("isr") /\ pc["isr"] = "transmit"
           /\ pc' = [pc EXCEPT !["isr"] = to] /\ IsrStatus' = {} /\ count' = count
           /\ UNCHANGED <<uart, irq, status, saved>>
  BY DEF IInv, Finish, At, Goto

LEMMA SendNotKeeps ==
    ASSUME IInv, NEW to \in {"send", "none"}, Finish(to), UNCHANGED <<buffers, history>>
    PROVE  IInv'
<1>1. Types' /\ SendKept
  BY Finishes DEF Types, SendKept
<1>2. to \notin Loop /\ to \notin Reading /\ to # "sdisable" /\ "transmit" \notin Loop
  BY DEF Loop, Reading
<1> QED
  BY <1>1, <1>2, Finishes, IsrRuns, IsrQuiet, Zenon

LEMMA SendDoneKeeps ==
    ASSUME IInv, SendDone
    PROVE  IInv'
<1>1. /\ Types /\ Control /\ Order /\ Finished /\ Runs("isr") /\ pc["isr"] = "transmit"
      /\ pc' = [pc EXCEPT !["isr"] = "none"] /\ count' = count /\ DOMAIN pc = Threads
      /\ UNCHANGED <<uart, irq, status, saved>>
  BY Finishes DEF SendDone, Types
<1>2. uart.tx = <<>>
  BY <1>1 DEF SendDone, SendDue, Control, Reading
<1>3. /\ SendBuffer' = [SendBuffer EXCEPT !.RequestedBytes = 0]
      /\ SendBuffer.RemainingBytes = 0
      /\ DOMAIN done' = DOMAIN done \cup {calls}
      /\ UNCHANGED <<calls, wire>>
  BY DEF SendDone
<1>4. /\ SendBuffer' \in [RequestedBytes : Nat, RemainingBytes : Nat, next : Nat]
      /\ SendBuffer'.RemainingBytes = 0 /\ SendBuffer'.next = SendBuffer.next
  BY <1>1, <1>3 DEF Types
<1>5. Types'
  BY <1>1, <1>3, <1>4 DEF Types
<1>6. pc'["isr"] = "none" /\ pc'["app"] = pc["app"] /\ pc["app"] \notin Critical
  BY <1>1, Alone DEF Threads
<1>7. Control'
  BY <1>1, <1>3, <1>6 DEF Control, Threads, Reading, Loop, Critical
<1>8. Ahead' = Ahead
  BY <1>1, <1>4, <1>6 DEF Ahead, InFlight, Loop
<1>9. Order'
  BY <1>1, <1>3, <1>8 DEF Order
<1>10. Finished'
  <2>1. DoneMeansOut'
    BY <1>1, <1>2 DEF DoneMeansOut
  <2>2. \A c \in DOMAIN done' : c \in Nat /\ c <= calls
    BY <1>1, <1>3 DEF Finished, Types
  <2> QED
    BY <1>3, <1>4, <2>1, <2>2 DEF Finished
<1> QED
  BY <1>5, <1>7, <1>9, <1>10 DEF IInv

-----------------------------------------------------------------------------
(* The UART.                                                               *)

LEMMA HeadMoves ==
    ASSUME NEW w \in Seq(Sent), NEW h \in Sent, NEW l \in Seq(Sent)
    PROVE  Append(w, h) \o l = w \o (<<h>> \o l)
<1>1. <<h>> \in Seq(Sent)
  OBVIOUS
<1>2. (w \o <<h>>) \o l = w \o (<<h>> \o l)
  BY <1>1, ConcatAssociative
<1> QED
  BY <1>2, AppendIsConcat, SMTT(30)

LEMMA TransmitKeeps ==
    ASSUME IInv, Transmit
    PROVE  IInv'
<1>1. /\ Types /\ Control /\ Order /\ Finished /\ uart.tx # <<>>
      /\ uart.tx \in Seq(Sent) /\ wire \in Seq(Sent)
      /\ wire' = Append(wire, Head(uart.tx))
      /\ UNCHANGED <<buffers, pc, locals, calls, done>>
  BY DEF IInv, Types, Transmit
<1>2. /\ DOMAIN uart' = DOMAIN uart /\ uart'.tx = Tail(uart.tx)
      /\ uart'.enable = uart.enable
  BY <1>1 DEF Transmit, Types
<1>3. irq' \in BOOLEAN /\ (irq = FALSE /\ uart.enable = FALSE => irq' = FALSE)
  BY <1>1, Zenon DEF Transmit, Types
<1>4. /\ Head(uart.tx) \in Sent /\ Tail(uart.tx) \in Seq(Sent)
      /\ Len(Tail(uart.tx)) = Len(uart.tx) - 1
      /\ \A k \in 1..Len(Tail(uart.tx)) : Tail(uart.tx)[k] = uart.tx[k + 1]
  BY <1>1, SMTT(30)
<1>5. wire' \o uart'.tx = wire \o uart.tx
  <2> DEFINE h == Head(uart.tx)
             l == Tail(uart.tx)
  <2>1. uart.tx = <<h>> \o l
    BY <1>1, <1>4
  <2>2. Append(wire, h) \o l = wire \o (<<h>> \o l)
    BY <1>1, <1>4, HeadMoves, Zenon
  <2> QED
    BY <1>1, <1>2, <2>1, <2>2, Zenon
<1>6. Types'
  <2>1. wire' \in Seq(Sent)
    BY <1>1, <1>4
  <2> QED
    BY <1>1, <1>2, <1>3, <1>4, <2>1 DEF Types
<1>7. Control'
  BY <1>1, <1>2, <1>3, SMTT(30) DEF Control
<1>8. Order'
  BY <1>1, <1>5, Zenon DEF Order, Ahead, InFlight
<1>9. Finished'
  <2>1. \A k \in 1..Len(uart'.tx) : k + 1 \in 1..Len(uart.tx) /\ uart'.tx[k] = uart.tx[k + 1]
    BY <1>1, <1>2, <1>4
  <2>2. DoneMeansOut'
    <3> SUFFICES ASSUME NEW c \in DOMAIN done, NEW k \in 1..Len(uart'.tx)
                 PROVE  uart'.tx[k][1] # c
      BY <1>1, Zenon DEF DoneMeansOut
    <3>1. k + 1 \in 1..Len(uart.tx) /\ uart'.tx[k] = uart.tx[k + 1]
      BY <2>1
    <3> QED
      BY <1>1, <3>1, Zenon DEF Finished, DoneMeansOut
  <2> QED
    BY <1>1, <2>2, Zenon DEF Finished
<1> QED
  BY <1>6, <1>7, <1>8, <1>9 DEF IInv

LEMMA ArriveKeeps ==
    ASSUME IInv, Arrive
    PROVE  IInv'
<1>1. /\ Types /\ Control /\ Order /\ Finished
      /\ UNCHANGED <<buffers, pc, locals, calls, wire, done>>
  BY DEF IInv, Arrive
<1>2. DOMAIN uart' = DOMAIN uart /\ uart'.tx = uart.tx /\ uart'.enable = uart.enable
  BY <1>1, SMTT(30) DEF Arrive, Types
<1>3. irq' \in BOOLEAN /\ (irq = FALSE /\ uart.enable = FALSE => irq' = FALSE)
  BY <1>1, Zenon DEF Arrive, Types
<1>4. Types' /\ SendKept
  BY <1>1, <1>2, <1>3 DEF Types, SendKept
<1>5. Control'
  BY <1>1, <1>2, <1>3 DEF Control
<1>6. Ahead' = Ahead
  BY <1>1 DEF Ahead, InFlight
<1> QED
  BY <1>1, <1>4, <1>5, <1>6, Kept DEF IInv

-----------------------------------------------------------------------------
LEMMA StutterKeeps ==
    ASSUME IInv, UNCHANGED vars
    PROVE  IInv'
<1>1. Types' /\ SendKept
  BY SMTT(30) DEF IInv, Types, SendKept
<1>2. Control' /\ Ahead' = Ahead
  BY DEF IInv, Control, Ahead, InFlight
<1> QED
  BY <1>1, <1>2, Kept DEF IInv

(* Every reachable state satisfies the inductive invariant: the            *)
(* application and the handler are never both inside the sending loop of   *)
(* XUartLite_SendBuffer(), and what was sent comes before what is next.    *)
THEOREM Inductive == Spec => []IInv
<1>1. ASSUME IInv, NEW t \in Threads, Working(t) PROVE IInv'
  BY <1>1, RecvKeeps, SendDisableKeeps, SendByteKeeps, SendStatusKeeps, SendLeaveKeeps
     DEF Working
<1>2. ASSUME IInv, AppStep PROVE IInv'
  BY <1>1, <1>2, DisableKeeps, RestoreKeeps, SendSetupKeeps, RecvSetupKeeps, ResetWriteKeeps
     DEF AppStep, Threads
<1>3. ASSUME IInv, Handler PROVE IInv'
  <2>1. SendDataHandler \/ SendNot => IInv'
    BY <1>3, SendNotKeeps DEF SendDataHandler, SendNot
  <2> QED
    BY <1>1, <1>3, <2>1, InterruptKeeps, ReceiveDataHandlerKeeps, SendDoneKeeps
       DEF Handler, Threads
<1>4. IInv /\ [Next]_vars => IInv'
  BY <1>2, <1>3, CallKeeps, TransmitKeeps, ArriveKeeps, StutterKeeps DEF Next
<1> QED
  BY <1>4, InitInv, PTL DEF Spec

(* Bytes leave in the order of their buffers and none leaves twice: the    *)
(* critical region of XUartLite_SendBuffer() keeps the handler from taking *)
(* a byte that the application is about to take (xuartlite.c:496).         *)
THEOREM SentInOrderHolds == Spec => []SentInOrder
<1>1. IInv => SentInOrder
  BY SMTT(30) DEF IInv, Order, Sorted, SentInOrder
<1> QED
  BY <1>1, Inductive, PTL

(* No byte of a send that was reported is still in the transmit FIFO:      *)
(* nobody fills it between the handler's read of the status register and   *)
(* its call of the send handler (xuartlite_intr.c:172).                    *)
THEOREM DoneMeansOutHolds == Spec => []DoneMeansOut
<1>1. IInv => DoneMeansOut
  BY DEF IInv, Finished
<1> QED
  BY <1>1, Inductive, PTL

-----------------------------------------------------------------------------
(* Receiving.  What has been stored and what waits in the receive FIFO are *)
(* the bytes that came in since the buffer was given, but for the ones the *)
(* UART lost.                                                              *)

RTypes ==
    /\ uart.rx \in Seq(Nat)
    /\ ReceiveBuffer \in [RequestedBytes : Nat, RemainingBytes : Nat, next : Nat \ {0},
                          got : [1..MaxLen -> Nat]]
    /\ ReceiveBuffer.next - 1 + ReceiveBuffer.RemainingBytes = ReceiveBuffer.RequestedBytes
    /\ ReceiveBuffer.RequestedBytes <= MaxLen
    /\ arrived \in Nat

RControl ==
    \A t \in Threads : /\ pc[t] = "rdisable" => count[t] = 0
                       /\ pc[t] = "rloop" => count[t] <= ReceiveBuffer.RemainingBytes

Stored(t) == IF pc[t] = "rloop" THEN count[t] ELSE 0

(* Places of the buffer that hold a byte.                                  *)
Filled == ReceiveBuffer.next - 1 + Stored("app") + Stored("isr")

Rising(f, n) == \A i, j \in 1..n : i < j => f[i] < f[j]

Held(got, n, rx) == {got[i] : i \in 1..n} \cup {rx[j] : j \in 1..Len(rx)}

(* Of the bytes that came in after one that is held, the others are held   *)
(* or were lost.                                                           *)
Stream(got, n, rx, last, lost) ==
    /\ Rising(got, n) /\ Rising(rx, Len(rx))
    /\ \A i \in 1..n, j \in 1..Len(rx) : got[i] < rx[j]
    /\ Held(got, n, rx) \subseteq 1..last
    /\ \A h \in Held(got, n, rx) : (h + 1)..last \subseteq lost \cup Held(got, n, rx)

Receiving == Stream(ReceiveBuffer.got, Filled, uart.rx, arrived, dropped)

RInv == RTypes /\ RControl /\ Receiving

(* What is held, as a sequence of bytes that came in.                      *)
LEMMA StreamArrives ==
    ASSUME NEW got, NEW n \in Nat, NEW rx \in Seq(Nat), NEW last \in Nat, NEW lost,
           \A i \in 1..n : got[i] \in Nat, Stream(got, n, rx, last, lost)
    PROVE  Stream(got, n, Append(rx, last + 1), last + 1, lost)
<1> DEFINE r == Append(rx, last + 1)
           H == Held(got, n, rx)
           J == Held(got, n, r)
<1>1. /\ r \in Seq(Nat) /\ Len(r) = Len(rx) + 1 /\ Len(rx) \in Nat
      /\ r[Len(rx) + 1] = last + 1 /\ \A k \in 1..Len(rx) : r[k] = rx[k]
  OBVIOUS
<1>2. \A k \in 1..Len(rx) : rx[k] \in Nat
  OBVIOUS
<1> HIDE DEF r
<1>3. H \subseteq 1..last /\ \A h \in H : (h + 1)..last \subseteq lost \cup H
  BY DEF Stream
<1>4. J = H \cup {last + 1}
  <2>1. {r[j] : j \in 1..Len(r)} = {rx[j] : j \in 1..Len(rx)} \cup {last + 1}
    <3>1. \A j \in 1..Len(r) : j \in 1..Len(rx) \/ j = Len(rx) + 1
      BY <1>1
    <3>2. \A j \in 1..Len(rx) : j \in 1..Len(r)
      BY <1>1
    <3>3. Len(rx) + 1 \in 1..Len(r)
      BY <1>1
    <3> QED
      BY <1>1, <3>1, <3>2, <3>3, Zenon
  <2> QED
    BY <2>1, Zenon DEF Held
<1>5. \A i \in 1..n : got[i] \in H
  BY DEF Held
<1>6. \A j \in 1..Len(rx) : rx[j] \in H
  BY DEF Held
<1> HIDE DEF H, J
<1>7. J \subseteq 1..(last + 1)
  BY <1>3, <1>4
<1>8. \A h \in J : (h + 1)..(last + 1) \subseteq lost \cup J
  <2> SUFFICES ASSUME NEW h \in J, NEW x \in (h + 1)..(last + 1)
               PROVE  x \in lost \cup J
    OBVIOUS
  <2>1. CASE x = last + 1
    BY <2>1, <1>4
  <2>2. CASE x # last + 1
    <3>1. h \in H
      BY <2>2, <1>3, <1>4
    <3>2. x \in (h + 1)..last
      BY <3>1, <2>2, <1>3
    <3> QED
      BY <3>1, <3>2, <1>3, <1>4
  <2> QED
    BY <2>1, <2>2
<1>9. Rising(r, Len(r))
  <2> SUFFICES ASSUME NEW i \in 1..Len(r), NEW j \in 1..Len(r), i < j PROVE r[i] < r[j]
    BY DEF Rising
  <2>0. i \in 1..Len(rx) /\ (j \in 1..Len(rx) \/ j = Len(rx) + 1)
    BY <1>1, SMTT(30)
  <2>1. r[i] = rx[i] /\ rx[i] \in 1..last
    BY <1>1, <1>3, <1>6, <2>0, Zenon
  <2>2. CASE j = Len(rx) + 1
    BY <1>1, <2>1, <2>2, SMTT(30)
  <2>3. CASE j \in 1..Len(rx)
    BY <1>1, <2>0, <2>3 DEF Stream, Rising
  <2> QED
    BY <2>0, <2>2, <2>3
<1>10. \A i \in 1..n, j \in 1..Len(r) : got[i] < r[j]
  <2> SUFFICES ASSUME NEW i \in 1..n, NEW j \in 1..Len(r) PROVE got[i] < r[j]
    OBVIOUS
  <2>1. CASE j = Len(rx) + 1
    <3>1. got[i] \in 1..last /\ r[j] = last + 1
      BY <1>1, <1>3, <1>5, <2>1
    <3> QED
      BY <3>1
  <2>2. CASE j \in 1..Len(rx)
    BY <1>1, <2>2, Zenon DEF Stream
  <2> QED
    BY <1>1, <2>1, <2>2
<1> QED
  BY <1>7, <1>8, <1>9, <1>10 DEF Stream, J, r

LEMMA StreamLoses ==
    ASSUME NEW got, NEW n \in Nat, NEW rx \in Seq(Nat), NEW last \in Nat, NEW lost,
           Stream(got, n, rx, last, lost)
    PROVE  Stream(got, n, rx, last + 1, lost \cup {last + 1})
<1> DEFINE H == Held(got, n, rx)
<1>1. H \subseteq 1..last /\ \A h \in H : (h + 1)..last \subseteq lost \cup H
  BY DEF Stream
<1> HIDE DEF H
<1>2. H \subseteq 1..(last + 1)
  BY <1>1
<1>3. \A h \in H : (h + 1)..(last + 1) \subseteq (lost \cup {last + 1}) \cup H
  <2> SUFFICES ASSUME NEW h \in H, NEW x \in (h + 1)..(last + 1), x # last + 1
               PROVE  x \in lost \cup H
    OBVIOUS
  <2>1. x \in (h + 1)..last
    BY <1>1, SMTT(30)
  <2> QED
    BY <1>1, <2>1
<1> QED
  BY <1>2, <1>3 DEF Stream, H

LEMMA StreamNew ==
    ASSUME NEW got, NEW n \in Nat, NEW rx \in Seq(Nat), NEW last \in Nat, NEW lost,
           \A i \in 1..n : got[i] \in Nat, Stream(got, n, rx, last, lost), NEW new
    PROVE  Stream(new, 0, rx, last, lost)
<1>1. Held(new, 0, rx) = {rx[j] : j \in 1..Len(rx)}
  BY DEF Held
<1>2. /\ \A h \in Held(got, n, rx) : (h + 1)..last \subseteq lost \cup Held(got, n, rx)
      /\ Held(got, n, rx) \subseteq 1..last
  BY DEF Stream
<1>3. Held(new, 0, rx) \subseteq Held(got, n, rx)
  BY <1>1, Zenon DEF Held
<1>4. ASSUME NEW h \in Held(new, 0, rx), NEW x \in (h + 1)..last
      PROVE  x \in lost \cup Held(new, 0, rx)
  <2>1. x \in lost \cup Held(got, n, rx)
    BY <1>2, <1>3, <1>4
  <2>2. PICK j \in 1..Len(rx) : h = rx[j]
    BY <1>1
  <2>3. h \in Nat /\ x > h
    BY <1>2, <1>3
  <2>4. \A i \in 1..n : got[i] # x
    BY <2>2, <2>3, SMTT(30) DEF Stream
  <2> QED
    BY <1>1, <2>1, <2>4, Zenon DEF Held
<1> QED
  BY <1>2, <1>3, <1>4, SMTT(30) DEF Stream, Rising

LEMMA StreamResets ==
    ASSUME NEW got, NEW n \in Nat, NEW rx \in Seq(Nat), NEW last \in Nat, NEW lost,
           Stream(got, n, rx, last, lost)
    PROVE  Stream(got, n, <<>>, last, lost \cup {rx[k] : k \in 1..Len(rx)})
<1>1. Held(got, n, <<>>) = {got[i] : i \in 1..n}
  BY DEF Held
<1>2. Held(got, n, rx) = Held(got, n, <<>>) \cup {rx[k] : k \in 1..Len(rx)}
  BY <1>1, Zenon DEF Held
<1> QED
  BY <1>2 DEF Stream, Rising

LEMMA StreamStores ==
    ASSUME NEW M \in Nat, NEW got \in [1..M -> Nat], NEW n \in Nat, n < M,
           NEW rx \in Seq(Nat), rx # <<>>, NEW last \in Nat, NEW lost,
           Stream(got, n, rx, last, lost)
    PROVE  Stream([got EXCEPT ![n + 1] = Head(rx)], n + 1, Tail(rx), last, lost)
<1> DEFINE g == [got EXCEPT ![n + 1] = Head(rx)]
           r == Tail(rx)
<1>1. /\ r \in Seq(Nat) /\ Len(rx) \in Nat \ {0} /\ Len(r) = Len(rx) - 1
      /\ \A k \in 1..Len(r) : r[k] = rx[k + 1]
  OBVIOUS
<1>2. g[n + 1] = rx[1] /\ \A i \in 1..n : g[i] = got[i]
  BY HeadTailProperties
<1> HIDE DEF g, r
<1>3. /\ Rising(got, n) /\ Rising(rx, Len(rx))
      /\ \A i \in 1..n, j \in 1..Len(rx) : got[i] < rx[j]
  BY DEF Stream
<1>4. 1 \in 1..Len(rx) /\ \A k \in 1..Len(r) : k + 1 \in 1..Len(rx)
  BY <1>1
<1>5. \A i \in 1..(n + 1) : i \in 1..n \/ i = n + 1
  OBVIOUS
<1>6. Held(g, n + 1, r) = Held(got, n, rx)
  <2>1. {g[i] : i \in 1..(n + 1)} = {got[i] : i \in 1..n} \cup {rx[1]}
    <3>1. n + 1 \in 1..(n + 1) /\ \A i \in 1..n : i \in 1..(n + 1)
      OBVIOUS
    <3>2. \A i \in 1..(n + 1) : g[i] \in {got[j] : j \in 1..n} \cup {rx[1]}
      BY <1>2, <1>5, Zenon
    <3>3. \A j \in 1..n : got[j] \in {g[i] : i \in 1..(n + 1)}
      BY <1>2, <3>1, Zenon
    <3>4. rx[1] \in {g[i] : i \in 1..(n + 1)}
      BY <1>2, <3>1, Zenon
    <3> QED
      BY <3>2, <3>3, <3>4, Zenon
  <2>2. {rx[j] : j \in 1..Len(rx)} = {rx[1]} \cup {r[j] : j \in 1..Len(r)}
    <3>1. \A j \in 1..Len(rx) : j = 1 \/ (j - 1 \in 1..Len(r) /\ r[j - 1] = rx[j])
      BY <1>1
    <3>2. \A j \in 1..Len(rx) : rx[j] \in {rx[1]} \cup {r[i] : i \in 1..Len(r)}
      BY <3>1, Zenon
    <3>3. \A i \in 1..Len(r) : r[i] \in {rx[j] : j \in 1..Len(rx)}
      BY <1>1, <1>4, Zenon
    <3>4. rx[1] \in {rx[j] : j \in 1..Len(rx)}
      BY <1>4
    <3> QED
      BY <3>2, <3>3, <3>4, Zenon
  <2> QED
    BY <2>1, <2>2, Zenon DEF Held
<1>7. Rising(r, Len(r))
  <2> SUFFICES ASSUME NEW i \in 1..Len(r), NEW j \in 1..Len(r), i < j PROVE r[i] < r[j]
    BY DEF Rising
  <2>1. i + 1 \in 1..Len(rx) /\ j + 1 \in 1..Len(rx) /\ i + 1 < j + 1
    BY <1>1, <1>4
  <2>2. rx[i + 1] < rx[j + 1]
    BY <1>3, <2>1 DEF Rising
  <2> QED
    BY <1>1, <2>2
<1>8. Rising(g, n + 1)
  <2> SUFFICES ASSUME NEW i \in 1..(n + 1), NEW j \in 1..(n + 1), i < j PROVE g[i] < g[j]
    BY DEF Rising
  <2>1. i \in 1..n
    OBVIOUS
  <2>2. CASE j = n + 1
    BY <1>2, <1>3, <1>4, <2>1, <2>2
  <2>3. CASE j \in 1..n
    BY <1>2, <1>3, <2>1, <2>3 DEF Rising
  <2> QED
    BY <1>5, <2>2, <2>3
<1>9. \A i \in 1..(n + 1), j \in 1..Len(r) : g[i] < r[j]
  <2> SUFFICES ASSUME NEW i \in 1..(n + 1), NEW j \in 1..Len(r) PROVE g[i] < r[j]
    OBVIOUS
  <2>1. j + 1 \in 1..Len(rx) /\ r[j] = rx[j + 1] /\ 1 < j + 1
    BY <1>1, <1>4
  <2>2. CASE i = n + 1
    BY <1>2, <1>3, <1>4, <2>1, <2>2 DEF Rising
  <2>3. CASE i \in 1..n
    BY <1>2, <1>3, <2>1, <2>3
  <2> QED
    BY <1>5, <2>2, <2>3
<1> QED
  BY <1>6, <1>7, <1>8, <1>9, Zenon DEF Stream, g, r

(* Between two neighbours of what is stored, only lost bytes are missing.  *)
LEMMA StreamGenuine ==
    ASSUME NEW got, NEW n \in Nat, NEW rx \in Seq(Nat), NEW last \in Nat, NEW lost,
           \A i \in 1..n : got[i] \in Nat, Stream(got, n, rx, last, lost),
           NEW k \in 1..n
    PROVE  /\ got[k] # 0
           /\ k + 1 \in 1..n =>
                 got[k] < got[k + 1] /\ (got[k] + 1)..(got[k + 1] - 1) \subseteq lost
<1>1. \A i \in 1..n : got[i] \in Held(got, n, rx) /\ got[i] \in 1..last
  BY DEF Stream, Held
<1>2. ASSUME k + 1 \in 1..n, NEW x \in (got[k] + 1)..(got[k + 1] - 1) PROVE x \in lost
  <2>1. got[k] \in Nat /\ got[k + 1] \in 1..last
    BY <1>1, <1>2
  <2>2. x \in (got[k] + 1)..last /\ got[k] < x /\ x < got[k + 1]
    BY <1>2, <2>1
  <2>3. x \in lost \cup Held(got, n, rx)
    BY <1>1, <2>2, Zenon DEF Stream
  <2>4. \A j \in 1..Len(rx) : x # rx[j]
    <3>1. \A j \in 1..Len(rx) : got[k + 1] < rx[j] /\ rx[j] \in Nat
      BY <1>2, SMTT(30) DEF Stream
    <3> QED
      BY <2>1, <2>2, <3>1, SMTT(30)
  <2>5. \A i \in 1..n : x # got[i]
    <3> SUFFICES ASSUME NEW i \in 1..n, x = got[i] PROVE FALSE
      OBVIOUS
    <3>1. CASE i <= k
      <4>1. got[i] <= got[k]
        <5>1. i < k \/ i = k
          BY <3>1
        <5>2. i < k => got[i] < got[k]
          BY DEF Stream, Rising
        <5> QED
          BY <1>1, <5>1, <5>2
      <4> QED
        BY <2>1, <2>2, <4>1
    <3>2. CASE i >= k + 1
      <4>1. got[k + 1] <= got[i]
        <5>1. k + 1 < i \/ i = k + 1
          BY <3>2
        <5>2. k + 1 < i => got[k + 1] < got[i]
          BY <1>2 DEF Stream, Rising
        <5> QED
          BY <1>1, <1>2, <5>1, <5>2
      <4> QED
        BY <2>1, <2>2, <4>1
    <3> QED
      BY <3>1, <3>2
  <2> QED
    BY <2>3, <2>4, <2>5, Zenon DEF Held
<1>3. k + 1 \in 1..n => got[k] < got[k + 1]
  BY DEF Stream, Rising
<1> QED
  BY <1>1, <1>2, <1>3

-----------------------------------------------------------------------------
LEMMA RInitInv == Init => RInv
<1> SUFFICES ASSUME Init PROVE RInv
  OBVIOUS
<1>1. /\ uart.rx = <<>> /\ arrived = 0 /\ pc["app"] = "idle" /\ pc["isr"] = "none"
      /\ ReceiveBuffer = [RequestedBytes |-> 0, RemainingBytes |-> 0, next |-> 1,
                          got |-> Untouched]
  BY DEF Init
<1>2. RTypes
  BY <1>1, LenAssumption DEF RTypes, Untouched
<1>3. RControl
  BY <1>1 DEF RControl, Threads
<1>4. Filled = 0
  BY <1>1 DEF Filled, Stored
<1>5. Receiving
  <2>1. Held(ReceiveBuffer.got, 0, <<>>) = {}
    BY DEF Held
  <2>2. Stream(ReceiveBuffer.got, 0, <<>>, arrived, dropped)
    BY <2>1 DEF Stream, Rising
  <2> QED
    BY <1>1, <1>4, <2>2 DEF Receiving
<1> QED
  BY <1>2, <1>3, <1>5, SMTT(30) DEF RInv

(* How many places are filled, seen from the thread that runs.             *)
LEMMA FilledAlone ==
    ASSUME Types, RTypes, NEW t \in Threads, \A u \in Threads \ {t} : pc[u] # "rloop"
    PROVE  Filled = ReceiveBuffer.next - 1 + (IF pc[t] = "rloop" THEN count[t] ELSE 0)
<1>1. count[t] \in Nat /\ ReceiveBuffer.next \in Nat
  BY DEF Types, RTypes
<1>2. CASE t = "app"
  <2>1. Stored("isr") = 0
    BY <1>2 DEF Stored, Threads
  <2> QED
    BY <1>1, <1>2, <2>1 DEF Filled, Stored
<1>3. CASE t = "isr"
  <2>1. Stored("app") = 0
    BY <1>3 DEF Stored, Threads
  <2> QED
    BY <1>1, <1>3, <2>1 DEF Filled, Stored
<1> QED
  BY <1>2, <1>3 DEF Threads

LEMMA FilledFits ==
    ASSUME Types, RTypes, RControl, NEW t \in Threads, \A u \in Threads \ {t} : pc[u] # "rloop"
    PROVE  /\ Filled \in Nat /\ Filled <= MaxLen
           /\ \A i \in 1..Filled : ReceiveBuffer.got[i] \in Nat
<1>1. /\ count[t] \in Nat /\ ReceiveBuffer.next \in Nat \ {0}
      /\ ReceiveBuffer.RemainingBytes \in Nat /\ ReceiveBuffer.RequestedBytes \in Nat
      /\ ReceiveBuffer.next - 1 + ReceiveBuffer.RemainingBytes = ReceiveBuffer.RequestedBytes
      /\ ReceiveBuffer.RequestedBytes <= MaxLen
      /\ ReceiveBuffer.got \in [1..MaxLen -> Nat]
  BY DEF Types, RTypes
<1>2. pc[t] = "rloop" => count[t] <= ReceiveBuffer.RemainingBytes
  BY DEF RControl
<1>3. Filled \in Nat /\ Filled <= MaxLen
  BY <1>1, <1>2, FilledAlone, LenAssumption, SMTT(30)
<1> QED
  BY <1>1, <1>3, LenAssumption

(* Of two threads only one is in the receiving loop.                       *)
LEMMA OneReceives ==
    ASSUME IInv
    PROVE  \E t \in Threads : \A u \in Threads \ {t} : pc[u] # "rloop"
<1>1. CASE pc["app"] = "rloop"
  BY <1>1 DEF IInv, Control, Critical, Threads
<1>2. CASE pc["app"] # "rloop"
  BY <1>2 DEF Threads
<1> QED
  BY <1>1, <1>2

(* A step of one thread that neither receives nor changes the buffer.      *)
LEMMA RQuiet ==
    ASSUME IInv, RInv, NEW t \in Threads, NEW to, pc[t] # "rloop", to # "rloop",
           pc' = [pc EXCEPT ![t] = to], \A u \in Threads \ {t} : count'[u] = count[u],
           to = "rdisable" => count'[t] = 0,
           uart'.rx = uart.rx, UNCHANGED <<ReceiveBuffer, arrived, dropped>>
    PROVE  RInv'
<1>1. Types /\ RTypes /\ RControl /\ Receiving
  BY DEF IInv, RInv
<1>2. pc'[t] = to /\ \A u \in Threads \ {t} : pc'[u] = pc[u]
  BY <1>1 DEF Types
<1>3. RTypes'
  BY <1>1 DEF RTypes
<1>4. RControl'
  BY <1>1, <1>2, SMTT(30) DEF RControl
<1>5. \A u \in Threads : Stored(u)' = Stored(u)
  BY <1>2 DEF Stored
<1>6. Filled' = Filled
  BY <1>5, SMTT(30) DEF Filled, Threads
<1> QED
  BY <1>1, <1>3, <1>4, <1>6 DEF RInv, Receiving

LEMMA RStill ==
    ASSUME RInv, uart'.rx = uart.rx, UNCHANGED <<pc, count, ReceiveBuffer, arrived, dropped>>
    PROVE  RInv'
<1>1. RTypes /\ RControl /\ Receiving
  BY DEF RInv
<1>2. RTypes' /\ RControl'
  BY <1>1 DEF RTypes, RControl
<1>3. Filled' = Filled
  BY DEF Filled, Stored
<1> QED
  BY <1>1, <1>2, <1>3, SMTT(30) DEF RInv, Receiving

LEMMA RControls ==
    ASSUME Types, NEW e, WriteControl(e)
    PROVE  uart'.rx = uart.rx
  BY DEF WriteControl, Types

LEMMA RForgotten ==
    ASSUME Types, NEW t \in Threads, Forget(t)
    PROVE  \A u \in Threads \ {t} : count'[u] = count[u]
  BY Forgotten

(* The steps that only pass by.                                            *)
LEMMA PassKeeps ==
    ASSUME IInv, RInv,
           \/ Call \/ Disable("send1", "send2") \/ Disable("recv1", "recv2") \/ SendSetup
           \/ Restore("send3", "send") \/ Restore("recv3", "recv")
    PROVE  RInv'
<1>1. Types /\ "app" \in Threads
  BY DEF IInv, Threads
<1>2. ASSUME NEW to \in {"send1", "recv1", "reset1"}, Enter(to) PROVE RInv'
  <2>1. uart'.rx = uart.rx /\ UNCHANGED <<ReceiveBuffer, arrived, dropped, count>>
    BY <1>2 DEF Enter
  <2> QED
    BY <1>1, <1>2, <2>1, RQuiet, Zenon DEF Enter, At, Goto
<1>3. ASSUME NEW e, NEW from \in {"idle", "send1", "recv1"}, NEW to \in {"idle", "send2", "recv2"},
             At("app", from, to), WriteControl(e), UNCHANGED <<buffers, locals, history>>
      PROVE  RInv'
  <2>1. uart'.rx = uart.rx /\ UNCHANGED <<ReceiveBuffer, arrived, dropped, count>>
    BY <1>1, <1>3, RControls, Zenon
  <2> QED
    BY <1>1, <1>3, <2>1, RQuiet, Zenon DEF At, Goto
<1>4. CASE SendSetup
  <2>1. uart'.rx = uart.rx /\ UNCHANGED <<ReceiveBuffer, arrived, dropped, count>>
    BY <1>4 DEF SendSetup
  <2> QED
    BY <1>1, <1>4, <2>1, RQuiet, Zenon DEF SendSetup, At, Goto
<1>5. ASSUME NEW from \in {"send3", "recv3"}, NEW to \in {"send", "recv"}, Restore(from, to)
      PROVE  RInv'
  <2>1. uart'.rx = uart.rx /\ UNCHANGED <<ReceiveBuffer, arrived, dropped>>
    BY <1>1, <1>5, RControls, Zenon DEF Restore
  <2>2. \A u \in Threads \ {"app"} : count'[u] = count[u]
    BY <1>1, <1>5, RForgotten, Zenon DEF Restore
  <2> QED
    BY <1>1, <1>5, <2>1, <2>2, RQuiet, Zenon DEF Restore, At, Goto
<1> QED
  BY <1>2, <1>3, <1>4, <1>5, Zenon
     DEF Call, Send, Recv, ResetFifos, EnableInterrupt, DisableInterrupt, Disable

LEMMA WorkingPassKeeps ==
    ASSUME IInv, RInv, NEW t \in Threads,
           SendRead(t) \/ SendDisable(t) \/ SendByte(t) \/ SendStatus(t) \/ SendLeave(t) \/ RecvRead(t)
    PROVE  RInv'
<1>1. Types
  BY DEF IInv
<1>2. CASE SendRead(t) \/ RecvRead(t)
  <2>1. uart'.rx = uart.rx /\ UNCHANGED <<ReceiveBuffer, arrived, dropped>>
    BY <1>2, SMTT(30) DEF SendRead, RecvRead
  <2>2. count'[t] = 0 /\ \A u \in Threads \ {t} : count'[u] = count[u]
    BY <1>1, <1>2 DEF SendRead, RecvRead, Types
  <2> QED
    BY <1>2, <2>1, <2>2, RQuiet, Zenon DEF SendRead, RecvRead, At, Goto
<1>3. CASE SendDisable(t)
  <2>1. uart'.rx = uart.rx /\ UNCHANGED <<ReceiveBuffer, arrived, dropped, count>>
    BY <1>1, <1>3, RControls, Zenon DEF SendDisable
  <2> QED
    BY <1>3, <2>1, RQuiet, Zenon DEF SendDisable, At, Goto
<1>4. CASE SendByte(t)
  <2>1. uart'.rx = uart.rx /\ UNCHANGED <<ReceiveBuffer, arrived, dropped>>
    BY <1>1, <1>4 DEF SendByte, Types
  <2>2. \A u \in Threads \ {t} : count'[u] = count[u]
    BY <1>1, <1>4 DEF SendByte, Types
  <2> QED
    BY <1>4, <2>1, <2>2, RQuiet, Zenon DEF SendByte, At, Goto
<1>5. CASE SendStatus(t)
  <2>1. uart'.rx = uart.rx /\ UNCHANGED <<ReceiveBuffer, arrived, dropped, count>>
    BY <1>5 DEF SendStatus
  <2> QED
    BY <1>5, <2>1, RQuiet, Zenon DEF SendStatus, At, Goto
<1>6. CASE SendLeave(t)
  <2>1. uart'.rx = uart.rx /\ UNCHANGED <<ReceiveBuffer, arrived, dropped>>
    BY <1>1, <1>6, RControls, Zenon DEF SendLeave
  <2>2. \A u \in Threads \ {t} : count'[u] = count[u]
    BY <1>1, <1>6, RForgotten, Zenon DEF SendLeave
  <2> DEFINE out == IF t = "app" THEN "idle" ELSE "none"
  <2>3. out # "rloop" /\ out # "rdisable" /\ pc[t] # "rloop" /\ pc' = [pc EXCEPT ![t] = out]
    BY <1>6 DEF SendLeave, At, Goto
  <2> HIDE DEF out
  <2> QED
    BY <2>1, <2>2, <2>3, RQuiet, Zenon
<1> QED
  BY <1>2, <1>3, <1>4, <1>5, <1>6

LEMMA HandlerPassKeeps ==
    ASSUME IInv, RInv,
           Interrupt \/ ReceiveDataHandler \/ SendDataHandler \/ SendDone \/ SendNot
    PROVE  RInv'
<1>1. PICK to \in {"receive", "recv", "transmit", "send", "none"} :
         pc' = [pc EXCEPT !["isr"] = to] /\ pc["isr"] # "rloop"
  BY DEF Interrupt, ReceiveDataHandler, SendDataHandler, SendDone, SendNot, Finish, At, Goto
<1>2. uart'.rx = uart.rx /\ UNCHANGED <<ReceiveBuffer, arrived, dropped, count>>
  BY DEF Interrupt, ReceiveDataHandler, SendDataHandler, SendDone, SendNot, Finish
<1> QED
  BY <1>1, <1>2, RQuiet, Zenon DEF Threads

(* Seen from the thread that runs, before and after its step.              *)
LEMMA RStep ==
    ASSUME IInv, RInv, NEW t \in Threads, NEW from, NEW to, At(t, from, to)
    PROVE  /\ Types /\ RTypes /\ RControl /\ Receiving
           /\ pc[t] = from /\ pc'[t] = to
           /\ \A u \in Threads \ {t} : pc'[u] = pc[u] /\ pc[u] # "rloop"
<1>1. Types /\ RTypes /\ RControl /\ Receiving /\ Runs(t)
  BY DEF IInv, RInv, At
<1>2. pc[t] = from /\ pc'[t] = to /\ \A u \in Threads \ {t} : pc'[u] = pc[u]
  BY <1>1 DEF At, Goto, Types
<1>3. \A u \in Threads \ {t} : pc[u] # "rloop"
  <2>1. CASE t = "app"
    BY <1>1, <2>1, Alone DEF Threads
  <2>2. CASE t = "isr"
    BY <1>1, <2>2, Alone, SMTT(30) DEF Threads, Critical
  <2> QED
    BY <2>1, <2>2 DEF Threads
<1> QED
  BY <1>1, <1>2, <1>3

(* The invariant after the step, from what the thread that ran has stored. *)
LEMMA RAfter ==
    ASSUME IInv', RTypes', NEW t \in Threads,
           \A u \in Threads \ {t} : /\ pc'[u] # "rloop"
                                    /\ pc'[u] = "rdisable" => count'[u] = 0,
           pc'[t] = "rdisable" => count'[t] = 0,
           pc'[t] = "rloop" => count'[t] <= ReceiveBuffer'.RemainingBytes,
           NEW n, n = ReceiveBuffer'.next - 1 + (IF pc'[t] = "rloop" THEN count'[t] ELSE 0),
           Stream(ReceiveBuffer'.got, n, uart'.rx, arrived', dropped')
    PROVE  RInv'
<1>1. RControl'
  BY SMTT(30) DEF RControl
<1>2. Types'
  BY DEF IInv
<1>3. count'[t] \in Nat /\ ReceiveBuffer'.next \in Nat
  BY <1>2 DEF Types, RTypes
<1>4. Filled' = n
  <2>1. CASE t = "app"
    <3>1. Stored("isr")' = 0 /\ Stored("app")' = IF pc'[t] = "rloop" THEN count'[t] ELSE 0
      BY <2>1 DEF Stored, Threads
    <3> QED
      BY <1>3, <3>1 DEF Filled
  <2>2. CASE t = "isr"
    <3>1. Stored("app")' = 0 /\ Stored("isr")' = IF pc'[t] = "rloop" THEN count'[t] ELSE 0
      BY <2>2, SMTT(30) DEF Stored, Threads
    <3> QED
      BY <1>3, <3>1 DEF Filled
  <2> QED
    BY <2>1, <2>2, SMTT(30) DEF Threads
<1>5. Receiving'
  BY <1>4 DEF Receiving
<1> QED
  BY <1>1, <1>5, SMTT(30) DEF RInv

LEMMA RecvDisableKeeps ==
    ASSUME IInv, RInv, IInv', NEW t \in Threads, RecvDisable(t)
    PROVE  RInv'
<1>1. At(t, "rdisable", "rloop")
  BY SMTT(30) DEF RecvDisable
<1>2. /\ Types /\ RTypes /\ RControl /\ Receiving /\ pc[t] = "rdisable" /\ pc'[t] = "rloop"
      /\ \A u \in Threads \ {t} : pc'[u] = pc[u] /\ pc[u] # "rloop"
  BY <1>1, RStep
<1>3. uart'.rx = uart.rx /\ UNCHANGED <<ReceiveBuffer, arrived, dropped, count>>
  BY <1>2, RControls, Zenon DEF RecvDisable
<1>4. count[t] = 0 /\ \A u \in Threads : pc[u] = "rdisable" => count[u] = 0
  BY <1>2 DEF RControl
<1>5. RTypes' /\ ReceiveBuffer.next \in Nat /\ ReceiveBuffer.RemainingBytes \in Nat
  BY <1>2, <1>3 DEF RTypes
<1>6. Filled = ReceiveBuffer.next - 1
  BY <1>2, <1>5, FilledAlone, SMTT(30)
<1>7. /\ Filled = ReceiveBuffer'.next - 1 + (IF pc'[t] = "rloop" THEN count'[t] ELSE 0)
      /\ count'[t] <= ReceiveBuffer'.RemainingBytes
  BY <1>2, <1>3, <1>4, <1>5, <1>6, SMTT(30)
<1>8. Stream(ReceiveBuffer'.got, Filled, uart'.rx, arrived', dropped')
  BY <1>2, <1>3 DEF Receiving
<1> QED
  <2>1. \A u \in Threads \ {t} : pc'[u] # "rloop" /\ (pc'[u] = "rdisable" => count'[u] = 0)
    BY <1>2, <1>3, <1>4
  <2>2. pc'[t] # "rdisable"
    BY <1>2
  <2> QED
    BY <1>5, <1>7, <1>8, <2>1, <2>2, RAfter, Zenon

LEMMA RecvByteKeeps ==
    ASSUME IInv, RInv, IInv', NEW t \in Threads, RecvByte(t)
    PROVE  RInv'
<1>1. At(t, "rloop", "rloop")
  BY SMTT(30) DEF RecvByte
<1>2. /\ Types /\ RTypes /\ RControl /\ Receiving /\ pc[t] = "rloop" /\ pc'[t] = "rloop"
      /\ \A u \in Threads \ {t} : pc'[u] = pc[u] /\ pc[u] # "rloop"
  BY <1>1, RStep, SMTT(30)
<1>3. /\ count[t] \in Nat /\ ReceiveBuffer.next \in Nat \ {0}
      /\ ReceiveBuffer.RemainingBytes \in Nat /\ ReceiveBuffer.RequestedBytes \in Nat
      /\ ReceiveBuffer.next - 1 + ReceiveBuffer.RemainingBytes = ReceiveBuffer.RequestedBytes
      /\ ReceiveBuffer.RequestedBytes <= MaxLen
      /\ ReceiveBuffer.got \in [1..MaxLen -> Nat] /\ uart.rx \in Seq(Nat) /\ arrived \in Nat
  BY <1>2 DEF Types, RTypes
<1>4. /\ count[t] < ReceiveBuffer.RemainingBytes /\ uart.rx # <<>>
      /\ uart'.rx = Tail(uart.rx) /\ UNCHANGED <<arrived, dropped>>
  BY <1>2 DEF RecvByte, Types
<1>5. count'[t] = count[t] + 1 /\ \A u \in Threads \ {t} : count'[u] = count[u]
  BY <1>2, SMTT(30) DEF RecvByte, Types
<1>6. Filled = ReceiveBuffer.next - 1 + count[t]
  BY <1>2, FilledAlone
<1>7. Filled \in Nat /\ Filled < MaxLen /\ Filled + 1 = ReceiveBuffer.next + count[t]
  <2> DEFINE c == count[t]
             b == ReceiveBuffer.next
             m == ReceiveBuffer.RemainingBytes
             r == ReceiveBuffer.RequestedBytes
  <2>1. /\ c \in Nat /\ b \in Nat \ {0} /\ m \in Nat /\ r \in Nat
        /\ b - 1 + m = r /\ r <= MaxLen /\ c < m /\ Filled = b - 1 + c
    BY <1>3, <1>4, <1>6, Zenon
  <2> HIDE DEF c, b, m, r
  <2>2. Filled \in Nat /\ Filled < MaxLen /\ Filled + 1 = b + c
    BY <2>1, LenAssumption
  <2> QED
    BY <2>2 DEF c, b
<1>8. ReceiveBuffer' = [ReceiveBuffer EXCEPT
                           !.got = [ReceiveBuffer.got EXCEPT ![Filled + 1] = Head(uart.rx)]]
  <2>1. ReceiveBuffer' = [ReceiveBuffer EXCEPT
           !.got = [ReceiveBuffer.got EXCEPT ![ReceiveBuffer.next + count[t]] = Head(uart.rx)]]
    BY DEF RecvByte
  <2> QED
    BY <1>7, <2>1, Zenon
<1>9. /\ ReceiveBuffer'.got = [ReceiveBuffer.got EXCEPT ![Filled + 1] = Head(uart.rx)]
      /\ ReceiveBuffer'.next = ReceiveBuffer.next
      /\ ReceiveBuffer'.RemainingBytes = ReceiveBuffer.RemainingBytes
      /\ ReceiveBuffer'.RequestedBytes = ReceiveBuffer.RequestedBytes
      /\ DOMAIN ReceiveBuffer' = DOMAIN ReceiveBuffer
  BY <1>2, <1>8 DEF RTypes
<1>10. Head(uart.rx) \in Nat /\ Tail(uart.rx) \in Seq(Nat)
  BY <1>3, <1>4, HeadTailProperties, Zenon
<1>11. RTypes'
  <2>1. ReceiveBuffer'.got \in [1..MaxLen -> Nat]
    BY <1>3, <1>9, <1>10, Zenon
  <2>2. ReceiveBuffer' \in [RequestedBytes : Nat, RemainingBytes : Nat, next : Nat \ {0},
                            got : [1..MaxLen -> Nat]]
    BY <1>2, <1>8, <2>1, <1>9, Zenon DEF RTypes
  <2> QED
    BY <1>3, <1>4, <1>9, <1>10, <2>2, SMTT(30) DEF RTypes
<1>12. Stream(ReceiveBuffer'.got, Filled + 1, uart'.rx, arrived', dropped')
  <2> DEFINE g == ReceiveBuffer.got
             x == uart.rx
  <2>1. g \in [1..MaxLen -> Nat] /\ x \in Seq(Nat) /\ x # <<>>
        /\ Stream(g, Filled, x, arrived, dropped)
    BY <1>2, <1>3, <1>4, SMTT(30) DEF Receiving
  <2> HIDE DEF g, x
  <2>2. Stream([g EXCEPT ![Filled + 1] = Head(x)], Filled + 1, Tail(x), arrived, dropped)
    BY <1>3, <1>7, <2>1, LenAssumption, StreamStores, Zenon
  <2> QED
    BY <1>4, <1>9, <2>2, Zenon DEF g, x
<1>13. \A u \in Threads \ {t} : pc'[u] # "rloop" /\ (pc'[u] = "rdisable" => count'[u] = 0)
  BY <1>2, <1>5 DEF RControl
<1>14. /\ Filled + 1 = ReceiveBuffer'.next - 1 + (IF pc'[t] = "rloop" THEN count'[t] ELSE 0)
       /\ count'[t] <= ReceiveBuffer'.RemainingBytes
  BY <1>2, <1>3, <1>4, <1>5, <1>6, <1>9, SMTT(30)
<1>15. pc'[t] # "rdisable"
  BY <1>2
<1> QED
  BY <1>11, <1>12, <1>13, <1>14, <1>15, RAfter, Zenon

LEMMA RecvLeaveKeeps ==
    ASSUME IInv, RInv, IInv', NEW t \in Threads, RecvLeave(t)
    PROVE  RInv'
<1> DEFINE out == IF t = "app" THEN "idle" ELSE "transmit"
<1>1. At(t, "rloop", out) /\ out # "rloop" /\ out # "rdisable"
  BY DEF RecvLeave
<1> HIDE DEF out
<1>2. /\ Types /\ RTypes /\ RControl /\ Receiving /\ pc[t] = "rloop" /\ pc'[t] = out
      /\ \A u \in Threads \ {t} : pc'[u] = pc[u] /\ pc[u] # "rloop"
  BY <1>1, RStep, SMTT(30)
<1>3. /\ count[t] \in Nat /\ ReceiveBuffer.next \in Nat \ {0}
      /\ ReceiveBuffer.RemainingBytes \in Nat /\ ReceiveBuffer.RequestedBytes \in Nat
      /\ ReceiveBuffer.next - 1 + ReceiveBuffer.RemainingBytes = ReceiveBuffer.RequestedBytes
      /\ count[t] <= ReceiveBuffer.RemainingBytes
  BY <1>2 DEF Types, RTypes, RControl
<1>4. uart'.rx = uart.rx /\ UNCHANGED <<arrived, dropped>>
  BY <1>2, RControls, Zenon DEF RecvLeave
<1>5. \A u \in Threads \ {t} : count'[u] = count[u]
  BY <1>2, RForgotten DEF RecvLeave
<1>6. ReceiveBuffer' = [ReceiveBuffer EXCEPT !.next = @ + count[t], !.RemainingBytes = @ - count[t]]
  BY DEF RecvLeave, Advance
<1>7. /\ ReceiveBuffer'.next = ReceiveBuffer.next + count[t]
      /\ ReceiveBuffer'.RemainingBytes = ReceiveBuffer.RemainingBytes - count[t]
      /\ ReceiveBuffer'.RequestedBytes = ReceiveBuffer.RequestedBytes
      /\ ReceiveBuffer'.got = ReceiveBuffer.got
  BY <1>2, <1>6, SMTT(30) DEF RTypes
<1>8. RTypes'
  <2>1. /\ ReceiveBuffer.next + count[t] \in Nat \ {0}
        /\ ReceiveBuffer.RemainingBytes - count[t] \in Nat
        /\ ReceiveBuffer'.next - 1 + ReceiveBuffer'.RemainingBytes = ReceiveBuffer'.RequestedBytes
    BY <1>3, <1>7
  <2>2. ReceiveBuffer' \in [RequestedBytes : Nat, RemainingBytes : Nat, next : Nat \ {0},
                            got : [1..MaxLen -> Nat]]
    BY <1>2, <1>6, <2>1, ZenonT(30) DEF RTypes
  <2> QED
    BY <1>2, <1>4, <1>7, <2>1, <2>2, SMTT(30) DEF RTypes
<1>9. Filled = ReceiveBuffer.next - 1 + count[t]
  BY <1>2, FilledAlone
<1>10. Filled = ReceiveBuffer'.next - 1 + (IF pc'[t] = "rloop" THEN count'[t] ELSE 0)
  BY <1>1, <1>2, <1>3, <1>7, <1>9
<1>11. Stream(ReceiveBuffer'.got, Filled, uart'.rx, arrived', dropped')
  BY <1>2, <1>4, <1>7 DEF Receiving
<1>12. \A u \in Threads \ {t} : pc'[u] # "rloop" /\ (pc'[u] = "rdisable" => count'[u] = 0)
  BY <1>2, <1>5, SMTT(30) DEF RControl
<1>13. pc'[t] # "rdisable" /\ pc'[t] # "rloop"
  BY <1>1, <1>2
<1> QED
  BY <1>8, <1>10, <1>11, <1>12, <1>13, RAfter, Zenon

LEMMA RecvSetupReceives ==
    ASSUME IInv, RInv, IInv', RecvSetup
    PROVE  RInv'
<1>1. At("app", "recv2", "recv3") /\ "app" \in Threads
  BY DEF RecvSetup, Threads
<1>2. /\ Types /\ RTypes /\ RControl /\ Receiving /\ pc["app"] = "recv2" /\ pc'["app"] = "recv3"
      /\ \A u \in Threads \ {"app"} : pc'[u] = pc[u] /\ pc[u] # "rloop"
  BY <1>1, RStep, SMTT(30)
<1>3. PICK n \in 0..MaxLen :
         ReceiveBuffer' = [RequestedBytes |-> n, RemainingBytes |-> n, next |-> 1, got |-> Untouched]
  BY SMTT(30) DEF RecvSetup
<1>4. UNCHANGED <<uart, arrived, dropped, count>>
  BY SMTT(30) DEF RecvSetup
<1>5. RTypes'
  BY <1>2, <1>3, <1>4, LenAssumption, SMTT(30) DEF RTypes, Untouched
<1>6. /\ Filled \in Nat /\ \A i \in 1..Filled : ReceiveBuffer.got[i] \in Nat
      /\ uart.rx \in Seq(Nat) /\ arrived \in Nat
  BY <1>1, <1>2, FilledFits, SMTT(30) DEF RTypes
<1>7. Stream(ReceiveBuffer'.got, 0, uart'.rx, arrived', dropped')
  BY <1>2, <1>4, <1>6, StreamNew, ZenonT(30) DEF Receiving
<1>8. 0 = ReceiveBuffer'.next - 1 + (IF pc'["app"] = "rloop" THEN count'["app"] ELSE 0)
  BY <1>2, <1>3
<1>9. \A u \in Threads \ {"app"} : pc'[u] # "rloop" /\ (pc'[u] = "rdisable" => count'[u] = 0)
  BY <1>2, <1>4 DEF RControl
<1>10. pc'["app"] # "rdisable" /\ pc'["app"] # "rloop"
  BY <1>2
<1> QED
  BY <1>1, <1>5, <1>7, <1>8, <1>9, <1>10, RAfter, Zenon

LEMMA ResetWriteReceives ==
    ASSUME IInv, RInv, IInv', ResetWrite
    PROVE  RInv'
<1>1. At("app", "reset1", "idle") /\ "app" \in Threads
  BY DEF ResetWrite, Threads
<1>2. /\ Types /\ RTypes /\ RControl /\ Receiving /\ pc["app"] = "reset1" /\ pc'["app"] = "idle"
      /\ \A u \in Threads \ {"app"} : pc'[u] = pc[u] /\ pc[u] # "rloop"
  BY <1>1, RStep, SMTT(30)
<1>3. /\ uart'.rx = <<>> /\ UNCHANGED <<ReceiveBuffer, arrived>>
      /\ dropped' = dropped \cup {uart.rx[k] : k \in 1..Len(uart.rx)}
  BY SMTT(30) DEF ResetWrite
<1>4. \A u \in Threads \ {"app"} : count'[u] = count[u]
  BY <1>1, <1>2, RForgotten, SMTT(30) DEF ResetWrite
<1>5. RTypes' /\ ReceiveBuffer.next \in Nat /\ uart.rx \in Seq(Nat) /\ arrived \in Nat
  BY <1>2, <1>3, SMTT(30) DEF RTypes
<1>6. Filled \in Nat /\ Filled = ReceiveBuffer.next - 1
  BY <1>1, <1>2, <1>5, FilledFits, FilledAlone
<1>7. Stream(ReceiveBuffer'.got, Filled, uart'.rx, arrived', dropped')
  <2> DEFINE x == uart.rx
             lost == dropped \cup {x[k] : k \in 1..Len(x)}
  <2>1. Stream(ReceiveBuffer.got, Filled, x, arrived, dropped) /\ x \in Seq(Nat)
    BY <1>2, <1>5 DEF Receiving
  <2>2. Stream(ReceiveBuffer.got, Filled, <<>>, arrived, lost)
    <3> HIDE DEF x
    <3> QED
      BY <1>5, <1>6, <2>1, StreamResets, Zenon
  <2>3. dropped' = lost
    BY <1>3, SMTT(30)
  <2> HIDE DEF x, lost
  <2> QED
    BY <1>3, <2>2, <2>3, Zenon
<1>8. Filled = ReceiveBuffer'.next - 1 + (IF pc'["app"] = "rloop" THEN count'["app"] ELSE 0)
  BY <1>2, <1>3, <1>5, <1>6
<1>9. \A u \in Threads \ {"app"} : pc'[u] # "rloop" /\ (pc'[u] = "rdisable" => count'[u] = 0)
  BY <1>2, <1>4 DEF RControl
<1>10. pc'["app"] # "rdisable" /\ pc'["app"] # "rloop"
  BY <1>2
<1> QED
  BY <1>1, <1>5, <1>7, <1>8, <1>9, <1>10, RAfter, Zenon

LEMMA ArriveReceives ==
    ASSUME IInv, RInv, Arrive
    PROVE  RInv'
<1>1. Types /\ RTypes /\ RControl /\ Receiving /\ UNCHANGED <<ReceiveBuffer, pc, count>>
  BY DEF IInv, RInv, Arrive
<1>2. uart.rx \in Seq(Nat) /\ arrived \in Nat /\ arrived' = arrived + 1
  BY <1>1 DEF RTypes, Arrive
<1>3. \/ uart'.rx = Append(uart.rx, arrived + 1) /\ dropped' = dropped
      \/ uart'.rx = uart.rx /\ dropped' = dropped \cup {arrived + 1}
  BY <1>1, SMTT(30) DEF Arrive, Types
<1>4. Filled \in Nat /\ \A i \in 1..Filled : ReceiveBuffer.got[i] \in Nat
  BY <1>1, OneReceives, FilledFits
<1>5. Filled' = Filled
  BY <1>1 DEF Filled, Stored
<1> DEFINE x == uart.rx
<1>6. /\ x \in Seq(Nat) /\ Stream(ReceiveBuffer.got, Filled, x, arrived, dropped)
  BY <1>1, <1>2, SMTT(30) DEF Receiving
<1>7. \/ uart'.rx = Append(x, arrived + 1) /\ dropped' = dropped
      \/ uart'.rx = x /\ dropped' = dropped \cup {arrived + 1}
  BY <1>3
<1> HIDE DEF x
<1>8. RTypes' /\ RControl'
  <2>1. uart'.rx \in Seq(Nat)
    <3>1. Append(x, arrived + 1) \in Seq(Nat)
      BY <1>2, <1>6
    <3> QED
      BY <1>6, <1>7, <3>1, Zenon
  <2>2. RTypes'
    BY <1>1, <1>2, <2>1, SMTT(30) DEF RTypes
  <2>3. RControl'
    BY <1>1 DEF RControl
  <2> QED
    BY <2>2, <2>3
<1>9. Receiving'
  <2>1. Stream(ReceiveBuffer.got, Filled, Append(x, arrived + 1), arrived + 1, dropped)
    BY <1>2, <1>4, <1>6, StreamArrives, Zenon
  <2>2. Stream(ReceiveBuffer.got, Filled, x, arrived + 1, dropped \cup {arrived + 1})
    BY <1>2, <1>4, <1>6, StreamLoses, Zenon
  <2> QED
    BY <1>1, <1>2, <1>5, <1>7, <2>1, <2>2, Zenon DEF Receiving
<1> QED
  BY <1>8, <1>9 DEF RInv

(* What the receive buffer has counted is what came in, in that order,     *)
(* with only lost bytes missing between two of it: the handler and         *)
(* XUartLite_Recv() fill the buffer in turn, never both                    *)
(* (xuartlite.c:573).                                                      *)
THEOREM ReceivedGenuineHolds == Spec => []ReceivedGenuine
<1>1. ASSUME IInv, RInv, IInv', NEW t \in Threads, Working(t) PROVE RInv'
  BY <1>1, WorkingPassKeeps, RecvDisableKeeps, RecvByteKeeps, RecvLeaveKeeps, SMTT(30) DEF Working
<1>2. ASSUME IInv, RInv, IInv', AppStep PROVE RInv'
  BY <1>1, <1>2, PassKeeps, RecvSetupReceives, ResetWriteReceives, SMTT(30) DEF AppStep, Threads
<1>3. ASSUME IInv, RInv, IInv', Handler PROVE RInv'
  BY <1>1, <1>3, HandlerPassKeeps, SMTT(30) DEF Handler, Threads
<1>4. ASSUME IInv, RInv, Transmit PROVE RInv'
  <2>1. uart'.rx = uart.rx /\ UNCHANGED <<pc, count, ReceiveBuffer, arrived, dropped>>
    BY <1>4 DEF Transmit, IInv, Types
  <2> QED
    BY <1>4, <2>1, RStill
<1>5. ASSUME RInv, UNCHANGED vars PROVE RInv'
  BY <1>5, RStill, SMTT(30)
<1>6. IInv /\ IInv' /\ RInv /\ [Next]_vars => RInv'
  BY <1>2, <1>3, <1>4, <1>5, PassKeeps, ArriveReceives, SMTT(30) DEF Next
<1>7. IInv /\ RInv => ReceivedGenuine
  <2> SUFFICES ASSUME IInv, RInv PROVE ReceivedGenuine
    OBVIOUS
  <2> DEFINE n == ReceiveBuffer.next - 1
             got == ReceiveBuffer.got
  <2>1. Types /\ RTypes /\ RControl /\ Receiving
    BY DEF IInv, RInv
  <2>2. Filled \in Nat /\ \A i \in 1..Filled : got[i] \in Nat
    BY <2>1, OneReceives, FilledFits, SMTT(30)
  <2>3. n \in Nat /\ n <= Filled /\ n + ReceiveBuffer.RemainingBytes = ReceiveBuffer.RequestedBytes
    <3>1. PICK t \in Threads : \A u \in Threads \ {t} : pc[u] # "rloop"
      BY OneReceives
    <3>2. /\ count[t] \in Nat /\ ReceiveBuffer.next \in Nat \ {0}
          /\ n + ReceiveBuffer.RemainingBytes = ReceiveBuffer.RequestedBytes
      BY <2>1 DEF Types, RTypes
    <3>3. Filled = n + (IF pc[t] = "rloop" THEN count[t] ELSE 0)
      BY <2>1, <3>1, FilledAlone, SMTT(30)
    <3> QED
      BY <3>2, <3>3
  <2>4. \A k \in 1..Filled :
           /\ got[k] # 0
           /\ k + 1 \in 1..Filled =>
                 got[k] < got[k + 1] /\ (got[k] + 1)..(got[k + 1] - 1) \subseteq dropped
    <3> DEFINE x == uart.rx
    <3>1. x \in Seq(Nat) /\ arrived \in Nat /\ Stream(got, Filled, x, arrived, dropped)
      BY <2>1 DEF RTypes, Receiving
    <3> HIDE DEF x, got
    <3> QED
      BY <2>2, <3>1, StreamGenuine
  <2> HIDE DEF n, got
  <2>5. \A k \in 1..n : got[k] # 0
    BY <2>2, <2>3, <2>4
  <2>6. \A k \in 1..(n - 1) :
           got[k] < got[k + 1] /\ (got[k] + 1)..(got[k + 1] - 1) \subseteq dropped
    <3> SUFFICES ASSUME NEW k \in 1..(n - 1)
                 PROVE  got[k] < got[k + 1] /\ (got[k] + 1)..(got[k + 1] - 1) \subseteq dropped
      OBVIOUS
    <3>1. k \in 1..Filled /\ k + 1 \in 1..Filled
      BY <2>2, <2>3
    <3> QED
      BY <2>4, <3>1, Zenon
  <2> QED
    BY <2>3, <2>5, <2>6 DEF ReceivedGenuine, n, got
<1> QED
  BY <1>6, <1>7, RInitInv, Inductive, PTL DEF Spec
=============================================================================

------------------------------ MODULE Jam_proofs ------------------------------
(***************************************************************************)
(* The safety properties of Jam, for any size of the buffer, any length    *)
(* the flash answers and any number of failing calls.                      *)
(*                                                                         *)
(* Neither is inductive.  What is printed is what the buffer holds, so the *)
(* invariant follows the answers from the call through buf to the line,    *)
(* and it follows a failure: which of the next calls find the transaction  *)
(* left open and broken, and which find it closed again.                   *)
(***************************************************************************)
EXTENDS Jam, SequenceTheorems, TLAPS

Cell == [kind : {"own", "junk", "miso"}, call : Nat, idx : Nat, pos : Nat]

(* The calls that keep the transaction open, and those that continue it.   *)
Opening == {1, 7}
Continuing == {2, 8}

LEMMA ScriptFacts ==
    /\ Len(Script) = 8
    /\ \A s \in 1..8 :
          /\ Script[s].offset = IF s \in Continuing THEN 5 ELSE 0
          /\ Script[s].opt = IF s \in Opening THEN TRUE ELSE FALSE
          /\ Script[s].from \in 0..2
          /\ s # 2 => Script[s].length \in 1..BufLen
          /\ s \in Opening => Script[s].length = 5
    /\ Script[2].length = 0
<1> USE DEF Opening, Continuing
<1>1. Len(Script) = 8
  BY DEF Script
<1>2. BufLen \in Nat /\ BufLen >= 5
  BY JamAssumption
<1> DEFINE Fact(s) ==
          /\ Script[s].offset = IF s \in Continuing THEN 5 ELSE 0
          /\ Script[s].opt = IF s \in Opening THEN TRUE ELSE FALSE
          /\ Script[s].from \in 0..2
          /\ s # 2 => Script[s].length \in 1..BufLen
          /\ s \in Opening => Script[s].length = 5
<1>3. /\ Script[1] = Command("RDID",   1, 5, TRUE,  2, 0)
      /\ Script[2] = Command("UID",    0, 0, FALSE, 1, 5)
      /\ Script[3] = Command("RDSR",   1, 2, FALSE, 2, 0)
      /\ Script[4] = Command("RDNVCR", 1, 3, FALSE, 2, 0)
      /\ Script[5] = Command("RDVCR",  1, 2, FALSE, 2, 0)
      /\ Script[6] = Command("RDEVCR", 1, 2, FALSE, 2, 0)
      /\ Script[7] = Command("RDSFDP", 5, 5, TRUE,  0, 0)
      /\ Script[8] = Command("SFDP",   0, BufLen, FALSE, 1, 5)
  BY DEF Script
<1>4. Fact(1) /\ Fact(2) /\ Fact(7)
  BY <1>2, <1>3 DEF Command
<1>5. Fact(3) /\ Fact(4) /\ Fact(5) /\ Fact(6)
  BY <1>2, <1>3 DEF Command
<1>6. Fact(8)
  BY <1>2, <1>3 DEF Command
<1>7. \A s \in 1..8 : Fact(s)
  <2> SUFFICES ASSUME NEW s \in 1..8 PROVE Fact(s)
    BY Zenon
  <2>1. s = 1 \/ s = 2 \/ s = 3 \/ s = 4 \/ s = 5 \/ s = 6 \/ s = 7 \/ s = 8
    OBVIOUS
  <2> HIDE DEF Fact
  <2> QED
    BY <2>1, <1>4, <1>5, <1>6
<1>8. Script[2].length = 0
  BY <1>3 DEF Command
<1> QED
  BY <1>1, <1>7, <1>8, Zenon

-----------------------------------------------------------------------------
Types ==
    /\ pc \in {"issue", "call", "show", "overrun", "copy", "level", "wait", "hello"}
    /\ step \in 1..8
    /\ buf \in [1..BufLen -> Cell]
    /\ got \in Seq(Cell)
    /\ len \in Nat /\ count \in Nat
    /\ failed \subseteq 1..8
    /\ uid \in 0..255

(* A failure before call s that it still feels: the call before it failed, *)
(* or the one before that and the transaction has not been closed since.   *)
Hit(s) == s - 1 \in failed \/ (s \in Continuing /\ s - 2 \in failed)

(* The answers of the flash to call s, at their places.                    *)
Genuine(s, b, n) ==
    \A k \in 1..n : b[k] = Spi!Answer(s, k, k + IF s \in Continuing THEN 5 ELSE 0)

(* Before a call: the transaction is broken only if a failure is felt, and *)
(* the next answer is the one the script expects.                          *)
Issuing ==
    /\ busy = FALSE
    /\ call = step - 1
    /\ open = TRUE /\ broken = TRUE => Hit(step)
    /\ ~(open = TRUE /\ broken = TRUE) => count = IF step \in Continuing THEN 5 ELSE 0
    /\ step = 2 /\ 1 \notin failed => Genuine(1, buf, 5)

(* In a call: what has been received is in buf.                            *)
Calling ==
    /\ busy = TRUE /\ open = TRUE
    /\ call = step
    /\ more = IF step \in Opening THEN TRUE ELSE FALSE
    /\ len <= BufLen /\ Len(got) <= len
    /\ step \in Opening => len = 5
    /\ broken = TRUE => Hit(step)
    /\ broken # TRUE => /\ count = Len(got) + IF step \in Continuing THEN 5 ELSE 0
                        /\ Genuine(step, buf, Len(got))

(* After it: the line can be printed.                                      *)
Showing ==
    /\ busy = FALSE
    /\ call = step
    /\ len <= BufLen
    /\ step \in Opening => len = 5
    /\ ~Hit(step) /\ step \notin failed => Genuine(step, buf, len)
    /\ open = TRUE /\ broken = TRUE =>
          step \in failed \/ (step \in Opening /\ step - 1 \in failed)
    /\ ~(open = TRUE /\ broken = TRUE) => count = IF step \in Opening THEN 5 ELSE 0

Flags == open \in BOOLEAN /\ broken \in BOOLEAN /\ busy \in BOOLEAN

IInv ==
    /\ Types /\ Flags
    /\ pc = "issue" => Issuing
    /\ pc = "call" => Calling
    /\ pc = "show" => Showing
    /\ shown.cmd \in 0..8
    /\ ShownGenuine /\ OverrunOnlyByUid

LEMMA InitInv == Init => IInv
<1> SUFFICES ASSUME Init PROVE IInv
  OBVIOUS
<1> USE DEF Init, Spi!Init
<1>1. Junk \in Cell
  BY DEF Cell, Junk
<1>2. Types
  <2>1. buf \in [1..BufLen -> Cell]
    BY <1>1
  <2>2. got \in Seq(Cell) /\ len \in Nat /\ count \in Nat
    OBVIOUS
  <2>3. uid \in 0..255
    BY JamAssumption
  <2> QED
    BY <2>1, <2>2, <2>3 DEF Types
<1>3. Issuing
  BY DEF Issuing, Continuing
<1>4. ShownGenuine /\ OverrunOnlyByUid
  BY DEF ShownGenuine, OverrunOnlyByUid
<1>5. Flags
  BY Zenon DEF Flags
<1>6. shown.cmd \in 0..8 /\ pc = "issue"
  OBVIOUS
<1> QED
  BY <1>2, <1>3, <1>4, <1>5, <1>6 DEF IInv
(* A line stays genuine when more calls fail.                              *)
LEMMA ShownKept ==
    ASSUME ShownGenuine, UNCHANGED shown, failed \subseteq failed'
    PROVE  ShownGenuine'
  BY DEF ShownGenuine, Spoiled

LEMMA IssueKeeps ==
    ASSUME IInv, Issue
    PROVE  IInv'
<1>1. Types /\ Flags /\ Issuing /\ ShownGenuine /\ shown.cmd \in 0..8
  BY DEF IInv, Issue
<1>2. BufLen \in Nat /\ BufLen >= 5 /\ OtherLengths \subseteq 0..255 /\ uid \in 0..255
  BY <1>1, JamAssumption DEF Types
<1>3. /\ step' = step /\ shown' = shown /\ failed' = failed /\ count' = count
      /\ got' = <<>> /\ call' = call + 1 /\ uid' = uid
      /\ pc' = IF len' > BufLen THEN "overrun" ELSE "call"
  BY DEF Issue, Spi!Begin
<1>4. more' = IF step \in Opening THEN TRUE ELSE FALSE
  <2>1. more' = Script[step].opt
    BY DEF Issue
  <2> QED
    BY <1>1, <2>1, ScriptFacts, Zenon DEF Types
<1>5. /\ busy' = TRUE /\ open' = TRUE /\ broken' \in BOOLEAN
      /\ broken' = TRUE <=> open = TRUE /\ broken = TRUE
  <2>1. busy' = TRUE /\ open' = TRUE /\ broken' = (open /\ broken)
    BY DEF Issue, Spi!Begin
  <2> QED
    BY <1>1, <2>1, Zenon DEF Flags
<1>6. buf' \in [1..BufLen -> Cell]
  <2>1. \A k \in 1..BufLen : Own(step, k) \in Cell
    BY <1>1, <1>2 DEF Types, Own, Cell
  <2>2. \A k \in 1..BufLen : buf[k] \in Cell
    BY <1>1 DEF Types
  <2> QED
    BY <2>1, <2>2 DEF Issue
<1>7. /\ len' \in Nat
      /\ step \in Opening => len' = 5
      /\ len' > BufLen => step = 2 /\ (1 \in failed \/ len' = uid)
  <2>1. len' \in NextLength
    BY DEF Issue
  <2>2. CASE step # 2
    <3>1. /\ Script[step].length \in 1..BufLen
          /\ step \in Opening => Script[step].length = 5
      BY <1>1, <2>2, ScriptFacts, SMTT(30) DEF Types
    <3>2. len' = Script[step].length
      BY <2>1, <3>1 DEF NextLength
    <3> QED
      BY <1>2, <3>1, <3>2
  <2>3. CASE step = 2
    <3>1. len' \in IF buf[5] = Spi!Answer(1, 5, 5) THEN {uid} ELSE OtherLengths
      BY <2>1, <2>3, ScriptFacts DEF NextLength
    <3>2. 1 \notin failed => buf[5] = Spi!Answer(1, 5, 5)
      BY <1>1, <2>3 DEF Issuing, Genuine, Continuing
    <3> QED
      BY <1>2, <2>3, <3>1, <3>2 DEF Opening
  <2> QED
    BY <2>2, <2>3
<1>8. Types'
  BY <1>1, <1>3, <1>6, <1>7 DEF Types
<1>9. pc' = "call" => Calling'
  <2>1. len' <= BufLen \/ pc' # "call"
    BY <1>2, <1>3, <1>7
  <2>2. Len(got') = 0
    BY <1>3
  <2>3. call' = step'
    BY <1>1, <1>3 DEF Issuing, Types
  <2>4. broken' = TRUE => Hit(step)'
    BY <1>1, <1>3, <1>5 DEF Issuing, Hit
  <2>5. broken' # TRUE => count' = Len(got') + IF step' \in Continuing THEN 5 ELSE 0
    <3>1. broken' # TRUE => count = IF step \in Continuing THEN 5 ELSE 0
      BY <1>1, <1>5, Zenon DEF Issuing
    <3> QED
      BY <1>3, <2>2, <3>1
  <2>6. Genuine(step', buf', Len(got'))
    BY <2>2 DEF Genuine
  <2>7. Len(got') <= len' /\ (step' \in Opening => len' = 5)
    BY <1>3, <1>7, <2>2
  <2>8. more' = IF step' \in Opening THEN TRUE ELSE FALSE
    BY <1>3, <1>4
  <2> QED
    BY <1>5, <2>1, <2>3, <2>4, <2>5, <2>6, <2>7, <2>8, Zenon DEF Calling
<1>10. OverrunOnlyByUid'
  BY <1>3, <1>7 DEF OverrunOnlyByUid
<1>11. ShownGenuine'
  BY <1>1, <1>3, ShownKept
<1>12. Flags'
  BY <1>5, Zenon DEF Flags
<1>13. pc' # "issue" /\ pc' # "show" /\ shown'.cmd \in 0..8
  BY <1>1, <1>3
<1> QED
  BY <1>8, <1>9, <1>10, <1>11, <1>12, <1>13 DEF IInv
(* One more byte: the next answer, or anything in a broken transaction.    *)
LEMMA ExchangeKeeps ==
    ASSUME IInv, Exchange
    PROVE  IInv'
<1>1. Types /\ Flags /\ Calling /\ ShownGenuine /\ shown.cmd \in 0..8 /\ pc = "call"
  BY DEF IInv, Exchange
<1>2. BufLen \in Nat
  BY JamAssumption
<1>3. /\ pc' = pc /\ step' = step /\ shown' = shown /\ failed' = failed /\ uid' = uid
      /\ buf' = [buf EXCEPT ![Len(got')] = got'[Len(got')]]
  BY DEF Exchange
<1>4. /\ busy' = busy /\ open' = open /\ broken' = broken /\ call' = call
      /\ len' = len /\ more' = more /\ Len(got) < len
  BY DEF Exchange, Spi!Receive, Spi!ReceiveAny
<1> SUFFICES Types' /\ Calling'
  <2>1. ShownGenuine' /\ OverrunOnlyByUid'
    BY <1>1, <1>3, ShownKept DEF OverrunOnlyByUid
  <2>2. Flags'
    BY <1>1, <1>4 DEF Flags
  <2> QED
    BY <1>1, <1>3, <2>1, <2>2 DEF IInv
<1> DEFINE n == Len(got) + 1
           Taken(b) == got' = Append(got, b) /\ b \in Cell
<1>5. n \in 1..BufLen /\ n <= len
  BY <1>1, <1>2, <1>4 DEF Types, Calling
<1>6. ASSUME NEW b, Taken(b)
      PROVE  got' \in Seq(Cell) /\ Len(got') = n /\ buf' = [buf EXCEPT ![n] = b]
  <2>1. got' \in Seq(Cell) /\ Len(got') = n /\ got'[n] = b
    BY <1>1, <1>6 DEF Types
  <2> QED
    BY <1>3, <2>1
<1>7. CASE broken = TRUE
  <2>1. Taken(Junk) /\ count' = count
    <3>1. Junk \in Cell
      BY DEF Junk, Cell
    <3>2. got' = Append(got, Junk) /\ count' = count
      BY <1>7, Zenon DEF Exchange, Spi!Receive, Spi!ReceiveAny
    <3> QED
      BY <3>1, <3>2
  <2> HIDE DEF Taken
  <2>2. got' \in Seq(Cell) /\ Len(got') = n /\ buf' = [buf EXCEPT ![n] = Junk]
    BY <1>6, <2>1
  <2>3. Types'
    BY <1>1, <1>3, <1>4, <2>1, <2>2, Zenon DEF Types, Taken
  <2>4. Calling'
    BY <1>1, <1>3, <1>4, <1>5, <1>7, <2>2 DEF Calling, Hit
  <2> QED
    BY <2>3, <2>4
<1>8. CASE broken = FALSE
  <2> DEFINE a == Spi!Answer(call, n, count + 1)
  <2>1. got' = Append(got, a) /\ count' = count + 1
    BY <1>8, Zenon DEF Exchange, Spi!Receive, Spi!ReceiveAny
  <2>2. /\ call = step /\ step \in 1..8
        /\ count + 1 = n + IF step \in Continuing THEN 5 ELSE 0
    <3>1. call = step /\ step \in 1..8 /\ Len(got) \in Nat
      BY <1>1 DEF Calling, Types
    <3>2. count = Len(got) + IF step \in Continuing THEN 5 ELSE 0
      BY <1>1, <1>8, Zenon DEF Calling
    <3> QED
      BY <3>1, <3>2
  <2>3. a \in Cell
    BY <1>1, <1>5, <2>2 DEF Spi!Answer, Cell, Types
  <2>4. Taken(a)
    BY <2>1, <2>3
  <2> HIDE DEF a, Taken
  <2>5. got' \in Seq(Cell) /\ Len(got') = n /\ buf' = [buf EXCEPT ![n] = a]
    BY <1>6, <2>4
  <2>6. Types'
    <3>1. buf' \in [1..BufLen -> Cell]
      BY <1>1, <2>3, <2>5, Zenon DEF Types
    <3>2. count' \in Nat
      BY <1>1, <2>1 DEF Types
    <3> QED
      BY <1>1, <1>3, <1>4, <2>5, <3>1, <3>2 DEF Types
  <2>7. Genuine(step, buf, Len(got))
    BY <1>1, <1>8, Zenon DEF Calling
  <2>8. Genuine(step, buf', n)
    <3>1. \A k \in 1..n : k = n \/ k \in 1..Len(got)
      BY <1>1 DEF Types
    <3>2. \A k \in 1..Len(got) : buf'[k] = buf[k]
      BY <1>1, <1>5, <2>5 DEF Types
    <3>3. buf'[n] = a
      BY <1>1, <1>5, <2>5 DEF Types
    <3>4. a = Spi!Answer(step, n, n + IF step \in Continuing THEN 5 ELSE 0)
      BY <2>2 DEF a
    <3> QED
      BY <2>7, <3>1, <3>2, <3>3, <3>4 DEF Genuine
  <2>9. Calling'
    <3>1. count' = Len(got') + IF step' \in Continuing THEN 5 ELSE 0
      BY <1>3, <2>1, <2>2, <2>5
    <3>2. Genuine(step', buf', Len(got'))
      BY <1>3, <2>5, <2>8
    <3> QED
      BY <1>1, <1>3, <1>4, <1>5, <1>8, <2>5, <3>1, <3>2, Zenon DEF Calling
  <2> QED
    BY <2>6, <2>9
<1> QED
  BY <1>1, <1>7, <1>8, Zenon DEF Flags
LEMMA ReturnKeeps ==
    ASSUME IInv, Return
    PROVE  IInv'
<1>1. Types /\ Flags /\ Calling /\ ShownGenuine /\ shown.cmd \in 0..8
  BY DEF IInv, Return
<1>2. /\ pc' = "show" /\ step' = step /\ buf' = buf /\ shown' = shown /\ uid' = uid
      /\ failed' = IF ret' < len THEN failed \cup {step} ELSE failed
  BY DEF Return
<1>3. /\ call' = call /\ len' = len /\ more' = more /\ got' = got /\ busy' = FALSE
  BY DEF Return, Spi!Finish, Spi!Fail
<1>4. /\ count' \in Nat /\ open' \in BOOLEAN /\ broken' \in BOOLEAN
      /\ failed \subseteq failed' /\ failed' \subseteq failed \cup {step}
  <2>1. count' \in Nat
    BY <1>1 DEF Types, Return, Spi!Finish, Spi!Fail
  <2>2. more \in BOOLEAN /\ open \in BOOLEAN /\ broken \in BOOLEAN
    BY <1>1 DEF Flags, Calling
  <2>3. open' \in BOOLEAN /\ broken' \in BOOLEAN
    BY <2>2, Zenon DEF Return, Spi!Finish, Spi!Fail
  <2>4. failed \subseteq failed' /\ failed' \subseteq failed \cup {step}
    BY <1>2
  <2> QED
    BY <2>1, <2>3, <2>4
<1>5. Types' /\ Flags'
  BY <1>1, <1>2, <1>3, <1>4, Zenon DEF Types, Flags
<1>6. ShownGenuine' /\ OverrunOnlyByUid'
  BY <1>1, <1>2, <1>4, ShownKept DEF OverrunOnlyByUid
<1>7. step \in Opening => len' = 5
  BY <1>1, <1>3 DEF Calling
<1>8. len' <= BufLen /\ call' = step'
  BY <1>1, <1>2, <1>3 DEF Calling
<1>9. CASE Spi!Fail
  <2>1. broken' = TRUE /\ open' = TRUE /\ step \in failed'
    BY <1>1, <1>2, <1>9 DEF Spi!Fail, Calling
  <2>2. Showing'
    BY <1>2, <1>3, <1>7, <1>8, <2>1 DEF Showing
  <2> QED
    BY <1>1, <1>2, <1>5, <1>6, <2>2 DEF IInv
<1>10. CASE Spi!Finish
  <2>1. /\ Len(got) = len /\ broken' = broken /\ open' = more
        /\ count' = IF more THEN count ELSE 0
    BY <1>10 DEF Spi!Finish
  <2>2. failed' = failed
    BY <1>1, <1>2, <1>10 DEF Spi!Finish, Types
  <2>3. /\ open' = IF step \in Opening THEN TRUE ELSE FALSE
        /\ count' = IF step \in Opening THEN count ELSE 0
    BY <1>1, <2>1 DEF Calling
  <2>4. step \in Opening => step \notin Continuing
    BY DEF Opening, Continuing
  <2>5. ~Hit(step') => Genuine(step', buf', len')
    BY <1>1, <1>2, <1>3, <2>1, Zenon DEF Calling, Flags
  <2>6. open' = TRUE /\ broken' = TRUE =>
          step \in Opening /\ step - 1 \in failed'
    BY <1>1, <2>1, <2>2, <2>3, <2>4 DEF Calling, Hit
  <2>7. ~(open' = TRUE /\ broken' = TRUE) => count' = IF step \in Opening THEN 5 ELSE 0
    <3>1. CASE step \in Opening /\ broken # TRUE
      <4>1. count = Len(got) + 0 /\ Len(got) \in Nat
        BY <1>1, <2>4, <3>1 DEF Calling, Types
      <4> QED
        BY <1>3, <1>7, <2>1, <2>3, <3>1, <4>1
    <3> QED
      BY <2>1, <2>3, <3>1, Zenon
  <2>8. Showing'
    <3>1. ~Hit(step)' /\ step' \notin failed' => Genuine(step', buf', len')
      BY <1>2, <2>2, <2>5 DEF Hit
    <3> QED
      BY <1>2, <1>3, <1>7, <1>8, <2>6, <2>7, <3>1 DEF Showing
  <2> QED
    BY <1>1, <1>2, <1>5, <1>6, <2>8 DEF IInv
<1> QED
  BY <1>9, <1>10 DEF Return

(* The line, and the next command.                                         *)
LEMMA ShowKeeps ==
    ASSUME IInv, Show
    PROVE  IInv'
<1>1. Types /\ Flags /\ Showing /\ ShownGenuine /\ shown.cmd \in 0..8
  BY DEF IInv, Show
<1>2. /\ buf' = buf /\ failed' = failed /\ busy' = busy /\ open' = open
      /\ broken' = broken /\ count' = count /\ call' = call /\ len' = len /\ got' = got
      /\ uid' = uid
  BY DEF Show, spiVars
<1>3. /\ step < 8 => step' = step + 1 /\ pc' = "issue"
      /\ ~(step < 8) => step' = step /\ pc' = "copy"
  BY ScriptFacts, SMTT(30) DEF Show
<1>4. Types' /\ Flags'
  BY <1>1, <1>2, <1>3 DEF Types, Flags
<1>5. OverrunOnlyByUid'
  BY <1>3, <1>1 DEF OverrunOnlyByUid, Types
<1>6. pc' = "issue" => Issuing'
  <2> SUFFICES ASSUME step < 8, step' = step + 1, pc' = "issue" PROVE Issuing'
    BY <1>1, <1>3 DEF Types
  <2>1. step \in Opening <=> step' \in Continuing
    BY <1>1 DEF Types, Opening, Continuing
  <2>2. busy' = FALSE /\ call' = step' - 1
    BY <1>1, <1>2 DEF Showing, Types
  <2>3. open' = TRUE /\ broken' = TRUE => Hit(step)'
    BY <1>1, <1>2, <2>1 DEF Showing, Hit, Types
  <2>4. ~(open' = TRUE /\ broken' = TRUE) => count' = IF step' \in Continuing THEN 5 ELSE 0
    BY <1>1, <1>2, <2>1 DEF Showing
  <2>5. step' = 2 /\ 1 \notin failed' => Genuine(1, buf', 5)
    <3> SUFFICES ASSUME step = 1, 1 \notin failed PROVE Genuine(1, buf, 5)
      BY <1>1, <1>2 DEF Types
    <3>1. ~Hit(1)
      BY <1>1 DEF Hit, Types, Continuing
    <3> QED
      BY <1>1, <3>1 DEF Showing, Opening
  <2> QED
    BY <2>2, <2>3, <2>4, <2>5 DEF Issuing
<1>7. CASE Script[step].from = 0
  <2>1. shown' = shown
    BY <1>7 DEF Show
  <2>2. ShownGenuine'
    BY <1>1, <1>2, <2>1, ShownKept
  <2> QED
    BY <1>1, <1>3, <1>4, <1>5, <1>6, <2>1, <2>2 DEF IInv, Types
<1>8. CASE Script[step].from # 0
  <2> DEFINE f == Script[step].from
             o == Script[step].offset
             line == SubSeq(buf, f, len)
  <2>1. shown' = [cmd |-> step, bytes |-> line]
    BY <1>8 DEF Show
  <2>2. /\ f \in 1..2 /\ step \in 1..8 /\ len \in Nat /\ len <= BufLen /\ BufLen \in Nat
        /\ o = IF step \in Continuing THEN 5 ELSE 0
    <3>1. step \in 1..8 /\ len \in Nat
      BY <1>1 DEF Types
    <3>2. len <= BufLen /\ BufLen \in Nat
      BY <1>1, JamAssumption DEF Showing, Show
    <3>3. f \in 0..2 /\ o = IF step \in Continuing THEN 5 ELSE 0
      BY <3>1, ScriptFacts, Zenon
    <3> HIDE DEF f, o
    <3>4. f # 0
      BY <1>8 DEF f
    <3> QED
      BY <3>1, <3>2, <3>3, <3>4
  <2>3. ASSUME step \notin failed, ~Hit(step), NEW k \in 1..Len(line)
        PROVE  line[k] = Spi!Answer(step, f + k - 1, o + (f + k - 1))
    <3> HIDE DEF f, o
    <3>1. buf \in Seq(Cell) /\ Len(buf) = BufLen
      BY <1>1, <2>2 DEF Types
    <3>2. f + k - 1 \in 1..len /\ line[k] = buf[f + k - 1]
      BY <2>2, <3>1, SMTT(30)
    <3>3. Genuine(step, buf, len)
      BY <1>1, <2>3 DEF Showing
    <3>4. o + (f + k - 1) = (f + k - 1) + IF step \in Continuing THEN 5 ELSE 0
      BY <2>2
    <3> QED
      BY <3>2, <3>3, <3>4 DEF Genuine
  <2>4. Spoiled(step) <=> step \in failed \/ Hit(step)
    BY <2>2 DEF Spoiled, Hit
  <2>5. ShownGenuine'
    <3> SUFFICES ASSUME ~Spoiled(step), NEW k \in 1..Len(line)
                 PROVE  line[k] = Spi!Answer(step, f + k - 1, o + (f + k - 1))
      BY <1>2, <2>1, Zenon DEF ShownGenuine, Spoiled
    <3> QED
      BY <2>3, <2>4, Zenon
  <2>6. shown'.cmd \in 0..8
    BY <2>1, <2>2
  <2> QED
    BY <1>1, <1>3, <1>4, <1>5, <1>6, <2>5, <2>6 DEF IInv, Types
<1> QED
  BY <1>7, <1>8

(* The packet and the endless loop touch nothing of this.                  *)
LEMMA RestKeeps ==
    ASSUME IInv,
           \/ Overrun \/ CopyWord \/ SetLevel \/ WaitSent \/ Hello \/ EthSent
           \/ UNCHANGED vars
    PROVE  IInv'
<1>1. /\ UNCHANGED <<spiVars, step, buf, shown, failed, uid>>
      /\ pc' = pc \/ pc' \in {"copy", "level", "wait", "hello"}
  BY DEF Overrun, CopyWord, SetLevel, WaitSent, Hello, EthSent, vars
<1>2. /\ busy' = busy /\ open' = open /\ broken' = broken /\ count' = count /\ call' = call
      /\ len' = len /\ more' = more /\ got' = got
  BY <1>1 DEF spiVars
<1>3. ShownGenuine'
  BY <1>1, ShownKept DEF IInv
<1>4. Types' /\ Flags' /\ OverrunOnlyByUid'
  BY <1>1, <1>2, SMTT(30) DEF IInv, Types, Flags, OverrunOnlyByUid
<1>5. (pc' = "issue" => Issuing') /\ (pc' = "call" => Calling') /\ (pc' = "show" => Showing')
  BY <1>1, <1>2, Zenon DEF IInv, Issuing, Calling, Showing, Hit
<1> QED
  BY <1>1, <1>3, <1>4, <1>5 DEF IInv

-----------------------------------------------------------------------------
(* What main() knows of buf at every point, whichever of its calls fail.   *)
THEOREM Inductive == Spec => []IInv
<1>1. IInv /\ [Next]_vars => IInv'
  BY IssueKeeps, ExchangeKeeps, ReturnKeeps, ShowKeeps, RestKeeps DEF Next, Processor
<1> QED
  BY <1>1, InitInv, PTL DEF Spec

(* Every line main() prints shows the answers of the flash to its command, *)
(* unless a call failed in it or just before it (main.c:73).               *)
THEOREM ShownGenuineHolds == Spec => []ShownGenuine
<1>1. IInv => ShownGenuine
  BY DEF IInv
<1> QED
  BY <1>1, Inductive, PTL

(* No read but the one whose length the flash gives leaves buf, and that   *)
(* only if the flash announces too much or the RDID call failed            *)
(* (main.c:80).                                                            *)
THEOREM OverrunOnlyByUidHolds == Spec => []OverrunOnlyByUid
<1>1. IInv => OverrunOnlyByUid
  BY DEF IInv
<1> QED
  BY <1>1, Inductive, PTL
=============================================================================

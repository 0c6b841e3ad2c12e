----------------------------- MODULE SpiExchange -----------------------------
(***************************************************************************)
(* What send_spi() promises its caller (the comment at spi.c:54-63),       *)
(* without FIFOs, chunks or polling.                                       *)
(*                                                                         *)
(* A transaction is opened by the first call and stays open while calls    *)
(* ask for SEND_SPI_MORE.  Within it the caller gets the answers of the    *)
(* flash one after the other, numbered from 1; the numbering runs on over  *)
(* the calls of one transaction.  A call may fail at any byte: it then     *)
(* returns what it got so far, and leaves the transaction open but broken: *)
(* nothing is promised of the bytes received in it from then on.           *)
(***************************************************************************)
EXTENDS Integers, Sequences

VARIABLES
    busy,     \* a call is running
    open,     \* a transaction is open
    broken,   \* a call has failed in the latest transaction
    count,    \* answers delivered in the open transaction, unless broken
    call,     \* number of the latest call
    len, more,   \* its arguments
    got,      \* the bytes it has received
    ret       \* the value the latest call returned

avars == <<busy, open, broken, count, call, len, more, got, ret>>

(* The answer to byte k of call c, the n-th of the transaction.            *)
Answer(c, k, n) == [kind |-> "miso", call |-> c, idx |-> k, pos |-> n]

Init ==
    /\ busy = FALSE /\ open = FALSE /\ broken = FALSE
    /\ count = 0 /\ call = 0 /\ len = 0 /\ more = FALSE
    /\ got = <<>> /\ ret = 0

(* A call continues the open transaction, broken or not, or opens one.     *)
Begin ==
    /\ ~busy /\ busy' = TRUE
    /\ open' = TRUE
    /\ broken' = (open /\ broken)
    /\ call' = call + 1
    /\ len' \in Nat /\ more' \in BOOLEAN
    /\ got' = <<>>
    /\ UNCHANGED <<count, ret>>

Receive ==
    /\ busy /\ ~broken
    /\ Len(got) < len
    /\ count' = count + 1
    /\ got' = Append(got, Answer(call, Len(got) + 1, count'))
    /\ UNCHANGED <<busy, open, broken, call, len, more, ret>>

ReceiveAny ==
    /\ busy /\ broken
    /\ Len(got) < len
    /\ Len(got') = Len(got) + 1
    /\ SubSeq(got', 1, Len(got)) = got
    /\ UNCHANGED <<busy, open, broken, count, call, len, more, ret>>

Finish ==
    /\ busy /\ busy' = FALSE
    /\ Len(got) = len
    /\ ret' = len
    /\ open' = more
    /\ count' = IF more THEN count ELSE 0
    /\ UNCHANGED <<broken, call, len, more, got>>

Fail ==
    /\ busy /\ busy' = FALSE
    /\ Len(got) < len
    /\ ret' = Len(got)
    /\ broken' = TRUE
    /\ count' = 0
    /\ UNCHANGED <<open, call, len, more, got>>

Next == Begin \/ Receive \/ ReceiveAny \/ Finish \/ Fail

Spec == Init /\ [][Next]_avars
=============================================================================

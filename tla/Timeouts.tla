------------------------------- MODULE Timeouts -------------------------------
(***************************************************************************)
(* The timeouts of lwIP (core/timeouts.c): a list in which each entry has  *)
(* the milliseconds it expires after the one before it, and the loop that  *)
(* calls what has expired.  Handlers set and cancel timeouts in turn.      *)
(*                                                                         *)
(* The handlers: one cyclic timer, the TCP timer, and the one-shot timers  *)
(* of users such as PPP.  An entry also has two values of no consequence:  *)
(* left, the milliseconds until it was asked to expire, and slip, those it *)
(* was put off for; they are kept while the loop runs on time.             *)
(***************************************************************************)
EXTENDS Integers, Sequences, FiniteSetsExt

CONSTANTS
    Shots,          \* the one-shot timers
    Delays,         \* the milliseconds they are set for
    Interval,       \* of the cyclic timer
    TcpInterval,    \* TCP_TMR_INTERVAL
    PoolSize,       \* MEMP_NUM_SYS_TIMEOUT
    Wrap,           \* 2^32 in the code
    StartTime,      \* of the clock
    MaxCalls,       \* bound: calls of the users
    MaxLag          \* bound: milliseconds for which something stays overdue

Handlers == Shots \cup {"cyclic_timer", "tcpip_tcp_timer"}
Times == Delays \cup {Interval, TcpInterval}

ASSUME WrapAssumption == Wrap \in Nat \ {0} /\ StartTime \in 0 .. Wrap - 1
ASSUME TimesAssumption == Times \subseteq 0 .. Wrap - 1
ASSUME ShotsAssumption ==
    Shots \cap {"cyclic_timer", "tcpip_tcp_timer", "app", "loop"} = {}

VARIABLES
    now,                      \* sys_now()
    next_timeout,             \* the list
    timeouts_last_time,
    tcpip_tcp_timer_active,
    pcbs,                     \* tcp_active_pcbs || tcp_tw_pcbs
    diff,                     \* of the loop in sys_check_timeouts()
    running,                  \* what runs: "app", "loop" or a handler
    calls, lag,               \* what has happened of the bounds
    starved,                  \* a timeout was not set: the pool was empty
    early                     \* a handler was called before its time

vars == <<now, next_timeout, timeouts_last_time, tcpip_tcp_timer_active, pcbs,
          diff, running, calls, lag, starved, early>>

-----------------------------------------------------------------------------
(* The list.                                                               *)

InsertAt(l, i, e) == SubSeq(l, 1, i - 1) \o <<e>> \o SubSeq(l, i, Len(l))
RemoveAt(l, i) == SubSeq(l, 1, i - 1) \o SubSeq(l, i + 1, Len(l))

For(l, h) == {i \in 1 .. Len(l) : l[i].h = h}

(* The milliseconds from timeouts_last_time to the i-th expiry.            *)
Expiry(l, i) ==
    LET sum[k \in 0 .. Len(l)] == IF k = 0 THEN 0 ELSE sum[k - 1] + l[k].time
    IN  sum[i]

Slipped(l, d) == [i \in DOMAIN l |-> [l[i] EXCEPT !.slip = @ + d]]

Since(l, last, t) == IF l = <<>> THEN 0 ELSE (t - last) % Wrap

(* The milliseconds that remain of a new timeout behind the i-th entry.    *)
Rest(l, msecs, d, i) == (msecs + d - Expiry(l, i)) % Wrap

(* The first entry whose successor, if any, expires later.                 *)
Spot(l, msecs, d) ==
    CHOOSE k \in DOMAIN l :
        /\ k = Len(l) \/ l[k + 1].time > Rest(l, msecs, d, k)
        /\ \A j \in 1 .. k - 1 : l[j + 1].time <= Rest(l, msecs, d, j)

(* Mutant of Place: what follows the new entry is not corrected.           *)
PlaceOnly(l, msecs, d, e) ==
    LET i == Spot(l, msecs, d)
    IN  InsertAt(l, i + 1, [e EXCEPT !.time = Rest(l, msecs, d, i)])

(* Behind the entry at the spot.  Last of all and further away than msecs, *)
(* the first expiry replaces d.                                            *)
Place(l, msecs, d, e) ==
    LET i == Spot(l, msecs, d)
        rest == Rest(l, msecs, d, i)
    IN  IF i < Len(l)
        THEN InsertAt([l EXCEPT ![i + 1].time = @ - rest], i + 1, [e EXCEPT !.time = rest])
        ELSE Append(l, [e EXCEPT !.time =
                          IF rest > msecs THEN (msecs + l[1].time) % Wrap ELSE rest])

(* The list with a timeout msecs from now.  In front of the others it puts *)
(* them all off by d: the first gives up msecs, not msecs + d.             *)
Inserted(l, msecs, d, h) ==
    LET e == [h |-> h, time |-> (msecs + d) % Wrap, left |-> msecs, slip |-> 0]
    IN  CASE l = <<>> -> <<e>>
          [] l # <<>> /\ l[1].time > msecs ->
                <<e>> \o Slipped([l EXCEPT ![1].time = @ - msecs], d)
          [] OTHER -> Place(l, msecs, d, e)

(* Mutant of sys_untimeout: the entry's time goes with it.                 *)
sys_untimeoutShort(l, h) ==
    IF For(l, h) = {} THEN l ELSE RemoveAt(l, Min(For(l, h)))

(* The list without the first entry for h.                                 *)
sys_untimeout(l, h) ==
    LET i == Min(For(l, h))
    IN  IF For(l, h) = {} THEN l
        ELSE IF i = Len(l) THEN RemoveAt(l, i)
        ELSE RemoveAt([l EXCEPT ![i + 1].time = (@ + l[i].time) % Wrap], i)

(* A timeout for h, unless the pool is empty.                              *)
sys_timeout(msecs, h) ==
    IF Len(next_timeout) = PoolSize
    THEN /\ starved' = TRUE
         /\ UNCHANGED <<next_timeout, timeouts_last_time>>
    ELSE /\ next_timeout' =
               Inserted(next_timeout, msecs, Since(next_timeout, timeouts_last_time, now), h)
         /\ timeouts_last_time' = IF next_timeout = <<>> THEN now ELSE timeouts_last_time
         /\ UNCHANGED starved

NoTimeout == UNCHANGED <<next_timeout, timeouts_last_time, starved>>

sys_timeouts_sleeptime(l, last, t) ==
    LET d == (t - last) % Wrap
    IN  CASE l = <<>> -> Wrap - 1
          [] l # <<>> /\ d > l[1].time -> 0
          [] OTHER -> l[1].time - d

-----------------------------------------------------------------------------
(* sys_timeouts_init()                                                     *)
Init ==
    /\ now = StartTime
    /\ next_timeout = Inserted(<<>>, Interval, 0, "cyclic_timer")
    /\ timeouts_last_time = now
    /\ tcpip_tcp_timer_active = FALSE /\ pcbs = FALSE
    /\ diff = 0 /\ running = "app"
    /\ calls = 0 /\ lag = 0 /\ starved = FALSE /\ early = FALSE

(* A millisecond passes.  The loop is on time as long as it is entered     *)
(* when sys_timeouts_sleeptime() is over.  Handlers take time, too.        *)
Tick ==
    LET over == sys_timeouts_sleeptime(next_timeout, timeouts_last_time, now) = 0
    IN  /\ running # "loop" /\ (over => lag < MaxLag)
        /\ now' = (now + 1) % Wrap
        /\ lag' = lag + (IF over THEN 1 ELSE 0)
        /\ next_timeout' = [i \in DOMAIN next_timeout |->
              IF lag' > 0 THEN [next_timeout[i] EXCEPT !.left = 0, !.slip = 0]
              ELSE [next_timeout[i] EXCEPT !.left = @ - 1]]
        /\ UNCHANGED <<timeouts_last_time, tcpip_tcp_timer_active, pcbs,
                       diff, running, calls, starved, early>>

(* Users call from the main loop and from handlers.                        *)
CallFromUser ==
    /\ running # "loop" /\ calls < MaxCalls
    /\ calls' = calls + 1
    /\ UNCHANGED <<now, diff, running, lag, early>>

SetShot(h, msecs) ==
    /\ CallFromUser
    /\ sys_timeout(msecs, h)
    /\ UNCHANGED <<tcpip_tcp_timer_active, pcbs>>

CancelShot(h) ==
    /\ CallFromUser
    /\ next_timeout' = sys_untimeout(next_timeout, h)
    /\ UNCHANGED <<timeouts_last_time, tcpip_tcp_timer_active, pcbs, starved>>

(* TCP_REG() and, in it, tcp_timer_needed().                               *)
Register ==
    /\ CallFromUser
    /\ pcbs' = TRUE
    /\ IF tcpip_tcp_timer_active
       THEN NoTimeout /\ UNCHANGED tcpip_tcp_timer_active
       ELSE tcpip_tcp_timer_active' = TRUE /\ sys_timeout(TcpInterval, "tcpip_tcp_timer")

(* TCP_RMV() of the last one, by tcp_tmr() among others.                   *)
Unregister ==
    /\ CallFromUser /\ pcbs
    /\ pcbs' = FALSE
    /\ UNCHANGED tcpip_tcp_timer_active /\ NoTimeout

sys_restart_timeouts ==
    /\ running = "app" /\ CallFromUser
    /\ timeouts_last_time' = now
    /\ next_timeout' = Slipped(next_timeout, (now - timeouts_last_time) % Wrap)
    /\ UNCHANGED <<tcpip_tcp_timer_active, pcbs, starved>>

-----------------------------------------------------------------------------
(* sys_check_timeouts()                                                    *)

Check ==
    /\ running = "app" /\ next_timeout # <<>>
    /\ diff' = (now - timeouts_last_time) % Wrap
    /\ running' = "loop"
    /\ UNCHANGED <<now, next_timeout, timeouts_last_time, tcpip_tcp_timer_active,
                   pcbs, calls, lag, starved, early>>

Expired == next_timeout # <<>> /\ next_timeout[1].time <= diff

(* The entry goes back to the pool, and its handler is entered.            *)
CallHandler ==
    LET e == Head(next_timeout)
    IN  /\ running = "loop" /\ Expired
        /\ timeouts_last_time' = (timeouts_last_time + e.time) % Wrap
        /\ diff' = diff - e.time
        /\ next_timeout' = Tail(next_timeout)
        /\ running' = e.h
        /\ early' = (early \/ (lag = 0 /\ e.left > 0))
        /\ UNCHANGED <<now, tcpip_tcp_timer_active, pcbs, calls, lag, starved>>

CheckEnds ==
    /\ running = "loop" /\ ~Expired
    /\ diff' = 0 /\ running' = "app"
    /\ UNCHANGED <<now, next_timeout, timeouts_last_time, tcpip_tcp_timer_active,
                   pcbs, calls, lag, starved, early>>

Return(h) ==
    /\ running = h
    /\ running' = "loop"
    /\ UNCHANGED <<now, pcbs, diff, calls, lag, early>>

ShotReturns(h) ==
    /\ Return(h)
    /\ NoTimeout /\ UNCHANGED tcpip_tcp_timer_active

(* Mutant of cyclic_timer: it is set from the main loop only.              *)
cyclic_timerOnce ==
    /\ Return("cyclic_timer")
    /\ NoTimeout /\ UNCHANGED tcpip_tcp_timer_active

cyclic_timer ==
    /\ Return("cyclic_timer")
    /\ sys_timeout(Interval, "cyclic_timer")
    /\ UNCHANGED tcpip_tcp_timer_active

(* Mutant of tcpip_tcp_timer: it stays marked as running.                  *)
tcpip_tcp_timerStays ==
    /\ Return("tcpip_tcp_timer")
    /\ IF pcbs THEN sys_timeout(TcpInterval, "tcpip_tcp_timer") ELSE NoTimeout
    /\ UNCHANGED tcpip_tcp_timer_active

tcpip_tcp_timer ==
    /\ Return("tcpip_tcp_timer")
    /\ tcpip_tcp_timer_active' = pcbs
    /\ IF pcbs THEN sys_timeout(TcpInterval, "tcpip_tcp_timer") ELSE NoTimeout

Loop ==
    \/ CallHandler
    \/ CheckEnds
    \/ \E h \in Shots : ShotReturns(h)
    \/ cyclic_timer
    \/ tcpip_tcp_timer

Next ==
    \/ Tick
    \/ \E h \in Shots, msecs \in Delays : SetShot(h, msecs)
    \/ \E h \in Shots : CancelShot(h)
    \/ Register
    \/ Unregister
    \/ sys_restart_timeouts
    \/ Check
    \/ Loop

(* Time passes whenever it is let to, that is, not just inside the loop;   *)
(* sys_check_timeouts() is called from the main loop and carries on, and   *)
(* its handlers return.                                                    *)
Spec == Init /\ [][Next]_vars /\ SF_vars(Tick) /\ WF_vars(Check) /\ WF_vars(Loop)

-----------------------------------------------------------------------------
(* No time is so large that the sum with a new timeout or with its         *)
(* neighbour wraps: with 2^32 milliseconds, some 49 days.                  *)
Near ==
    lag = 0 => \A i \in DOMAIN next_timeout :
                  IF i = 1 THEN \A msecs \in Times : next_timeout[1].time + msecs < Wrap
                  ELSE next_timeout[i - 1].time + next_timeout[i].time < Wrap

(* While the loop runs on time the list is exact, through insertions       *)
(* anywhere, cancellations, handlers that set timeouts and the wrap of the *)
(* clock: each entry expires when it was asked to, put off by what earlier *)
(* insertions in front of it and sys_restart_timeouts() cost it.           *)
ListExact ==
    lag = 0 => \A i \in DOMAIN next_timeout :
                  next_timeout[i].left + next_timeout[i].slip
                    = Expiry(next_timeout, i) - Since(next_timeout, timeouts_last_time, now)

(* While the loop runs on time no handler is called before its time,       *)
(* whatever the handlers called before it did to the list.                 *)
NeverEarly == ~early

(* As long as the pool has not run empty, TCP has its timer: with a        *)
(* connection the timer is set or runs, and it is set at most once.        *)
TcpTimed ==
    LET set == {i \in DOMAIN next_timeout : next_timeout[i].h = "tcpip_tcp_timer"}
        run == running = "tcpip_tcp_timer"
    IN  ~starved => /\ pcbs => tcpip_tcp_timer_active
                    /\ tcpip_tcp_timer_active = (set # {} \/ run)
                    /\ \A i, j \in set : i = j
                    /\ run => set = {}

(* Once the users leave the list alone, a timeout that is set is called in *)
(* the end, and the cyclic timer goes on for ever unless the pool has run  *)
(* empty: also after the loop was late and took times for expired that had *)
(* not come.  Users who set and cancel timeouts for ever can put off       *)
(* another for ever (timeouts.c:239).                                      *)
Called ==
    <>[][calls' = calls]_vars =>
        /\ \A h \in Shots : []<>(For(next_timeout, h) = {})
        /\ []<>(starved \/ running = "cyclic_timer")
=============================================================================

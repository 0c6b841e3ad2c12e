-------------------------------- MODULE PppFsm --------------------------------
(***************************************************************************)
(* The PPP option negotiation machine of lwIP (fsm.c): two peers that both *)
(* run it over a link that delivers in order and may lose messages.        *)
(*                                                                         *)
(* A handler of fsm.c is an operator on the record of one machine.  Beside *)
(* the fields of struct fsm the record says whether a timeout is pending,  *)
(* whether the layer above was told it is up, and holds the messages a     *)
(* handler sends.                                                          *)
(*                                                                         *)
(* The options are abstracted to one, of which a machine first wants       *)
(* "ask", settles for "less" when that is suggested, and does without      *)
(* ("none") when it is rejected: what resetci, addci, nakci, rejci and     *)
(* ackci of lcp.c, ipcp.c and others do option by option.                  *)
(***************************************************************************)
EXTENDS Integers, Sequences

CONSTANTS
    Peers,          \* the two of them
    Accepts,        \* by peer: the values of the other's option it accepts
    Flags,          \* by peer: a subset of SILENT, PASSIVE, RESTART
    MaxConfReqs, MaxTermReqs, MaxNakLoops,   \* the settings of the pcb
    Ids,            \* number of identifiers; 256 in the code
    MaxCalls, MaxLosses, MaxEarly, MaxFailures   \* bounds of the model

ASSUME PeersAssumption == \E a, b \in Peers : a # b /\ Peers = {a, b}
ASSUME IdsAssumption == Ids \in Nat \ {0, 1}

VARIABLES
    fsm,        \* by peer: the machine
    link,       \* by peer: messages on their way to it
    calls, losses, early, failures   \* what has happened of the bounds

vars == <<fsm, link, calls, losses, early, failures>>

Other(p) == CHOOSE q \in Peers : q # p

Negotiating == {"REQSENT", "ACKRCVD", "ACKSENT"}
Timed == Negotiating \cup {"CLOSING", "STOPPING"}
Below == {"INITIAL", "STARTING"}

-----------------------------------------------------------------------------
(* What handlers do to a machine.                                          *)

Goto(m, s) == [m EXCEPT !.state = s]

(* ppp_impl.h: a timeout takes the place of the one pending, if any.       *)
TIMEOUT(m) == [m EXCEPT !.timer = TRUE, !.dry = FALSE]
UNTIMEOUT(m) == [m EXCEPT !.timer = FALSE]

(* The callbacks up and down; odd when they do not alternate.              *)
Up(m) == [m EXCEPT !.up = TRUE, !.odd = @ \/ m.up]
Down(m) == [m EXCEPT !.up = FALSE, !.odd = @ \/ ~m.up]

fsm_sdata(m, code, id, o) == [m EXCEPT !.out = Append(@, [code |-> code, id |-> id, opt |-> o])]

NextId(m) == (m.id + 1) % Ids

(* Mutant of Renew: the count of requests starts again with every one.     *)
RenewAlways(m, retransmit) ==
    [m EXCEPT !.retransmits = MaxConfReqs,
              !.id = IF retransmit THEN @ ELSE NextId(m),
              !.reqid = IF retransmit THEN @ ELSE NextId(m)]

Renew(m, retransmit) ==
    IF retransmit THEN m
    ELSE [m EXCEPT !.retransmits = MaxConfReqs, !.id = NextId(m), !.reqid = NextId(m)]

(* A Configure-Request.  Without memory for it, no timeout is started.     *)
fsm_sconfreq(m, retransmit) ==
    LET a == IF m.state \in Negotiating THEN m
             ELSE [m EXCEPT !.want = "ask", !.nakloops = 0, !.rnakloops = 0]
        b == [Renew(a, retransmit) EXCEPT !.seen_ack = FALSE, !.dry = m.nomem]
    IN  IF m.nomem THEN b
        ELSE TIMEOUT([fsm_sdata(b, "CONFREQ", b.reqid, b.want) EXCEPT !.retransmits = @ - 1])

TermReq(m) ==
    fsm_sdata([m EXCEPT !.id = NextId(m), !.reqid = NextId(m)], "TERMREQ", NextId(m), "none")

fsm_lowerup(m) ==
    CASE m.state = "INITIAL" -> Goto(m, "CLOSED")
      [] m.state = "STARTING" ->
            IF "SILENT" \in m.flags THEN Goto(m, "STOPPED")
            ELSE Goto(fsm_sconfreq(m, FALSE), "REQSENT")
      [] OTHER -> m

fsm_lowerdown(m) ==
    CASE m.state = "CLOSED" -> Goto(m, "INITIAL")
      [] m.state = "STOPPED" -> Goto(m, "STARTING")
      [] m.state = "CLOSING" -> UNTIMEOUT(Goto(m, "INITIAL"))
      [] m.state \in Negotiating \cup {"STOPPING"} -> UNTIMEOUT(Goto(m, "STARTING"))
      [] m.state = "OPENED" -> Goto(Down(m), "STARTING")
      [] OTHER -> m

Restart(m) == IF "RESTART" \in m.flags THEN fsm_lowerup(fsm_lowerdown(m)) ELSE m

fsm_open(m) ==
    CASE m.state = "INITIAL" -> Goto(m, "STARTING")
      [] m.state = "CLOSED" ->
            IF "SILENT" \in m.flags THEN Goto(m, "STOPPED")
            ELSE Goto(fsm_sconfreq(m, FALSE), "REQSENT")
      [] m.state = "CLOSING" -> Restart(Goto(m, "STOPPING"))
      [] m.state \in {"STOPPED", "OPENED"} -> Restart(m)
      [] OTHER -> m

Quiet(m) == IF m.state = "OPENED" THEN Down(m) ELSE UNTIMEOUT(m)

terminate_layer(m, next) ==
    LET a == TermReq([Quiet(m) EXCEPT !.retransmits = MaxTermReqs])
    IN  IF MaxTermReqs = 0
        THEN Goto(a, IF next = "CLOSING" THEN "CLOSED" ELSE "STOPPED")
        ELSE Goto(TIMEOUT([a EXCEPT !.retransmits = @ - 1]), next)

fsm_close(m) ==
    CASE m.state = "STARTING" -> Goto(m, "INITIAL")
      [] m.state = "STOPPED" -> Goto(m, "CLOSED")
      [] m.state = "STOPPING" -> Goto(m, "CLOSING")
      [] m.state \in Negotiating \cup {"OPENED"} -> terminate_layer(m, "CLOSING")
      [] OTHER -> m

fsm_timeout(m) ==
    CASE m.state \in {"CLOSING", "STOPPING"} ->
            IF m.retransmits <= 0
            THEN Goto(m, IF m.state = "CLOSING" THEN "CLOSED" ELSE "STOPPED")
            ELSE TIMEOUT([TermReq(m) EXCEPT !.retransmits = @ - 1])
      [] m.state \in Negotiating ->
            IF m.retransmits <= 0 THEN Goto(m, "STOPPED")
            ELSE LET a == fsm_sconfreq(m, TRUE)
                 IN  IF a.state = "ACKRCVD" THEN Goto(a, "REQSENT") ELSE a
      [] OTHER -> m

fsm_protreject(m) ==
    CASE m.state = "CLOSING" -> UNTIMEOUT(Goto(m, "CLOSED"))
      [] m.state \in Negotiating \cup {"STOPPING"} -> UNTIMEOUT(Goto(m, "STOPPED"))
      [] m.state = "OPENED" -> terminate_layer(m, "STOPPING")
      [] OTHER -> m

-----------------------------------------------------------------------------
(* fsm_input(): the messages.                                              *)

(* Mutants of Reopen: the layer above is not told; nothing is requested.   *)
ReopenSilent(m) == Goto(fsm_sconfreq(m, FALSE), "REQSENT")
ReopenPassive(m) == Goto(Down(m), "REQSENT")

(* Down and negotiate afresh.                                              *)
Reopen(m) == Goto(fsm_sconfreq(Down(m), FALSE), "REQSENT")

(* reqci: the answer to a request for o.                                   *)
reqci(m, o, reject) ==
    IF o \in m.accepts THEN "CONFACK" ELSE IF reject THEN "CONFREJ" ELSE "CONFNAK"

(* Mutant of Opened: the timeout of the negotiation goes on.               *)
OpenedTimed(m) == Up(Goto(m, "OPENED"))

Opened(m) == Up(Goto(UNTIMEOUT(m), "OPENED"))

Answer(m, id, o) ==
    LET code == reqci(m, o, m.nakloops >= MaxNakLoops)
        a == fsm_sdata(m, code, id, IF code = "CONFNAK" THEN "less" ELSE o)
    IN  CASE code = "CONFACK" /\ m.state = "ACKRCVD" ->
               Opened([a EXCEPT !.nakloops = 0, !.his = o])
          [] code = "CONFACK" /\ m.state # "ACKRCVD" ->
               Goto([a EXCEPT !.nakloops = 0, !.his = o], "ACKSENT")
          [] OTHER ->
               Goto([a EXCEPT !.nakloops = IF code = "CONFNAK" THEN @ + 1 ELSE @],
                    IF m.state = "ACKRCVD" THEN "ACKRCVD" ELSE "REQSENT")

fsm_rconfreq(m, id, o) ==
    CASE m.state = "CLOSED" -> fsm_sdata(m, "TERMACK", id, "none")
      [] m.state \in {"CLOSING", "STOPPING"} -> m
      [] m.state = "OPENED" -> Answer(Reopen(m), id, o)
      [] m.state = "STOPPED" -> Answer(Goto(fsm_sconfreq(m, FALSE), "REQSENT"), id, o)
      [] OTHER -> Answer(m, id, o)

Expected(m, id) == id = m.reqid /\ ~m.seen_ack

(* Mutant of Acked: neither the identifier nor the options are compared.   *)
AckedAny(m, id, o) == ~m.seen_ack

Acked(m, id, o) == Expected(m, id) /\ o = m.want

fsm_rconfack(m, id, o) ==
    LET a == [m EXCEPT !.seen_ack = TRUE, !.rnakloops = 0]
    IN  CASE ~Acked(m, id, o) -> m
          [] OTHER ->
        CASE m.state \in {"CLOSED", "STOPPED"} -> fsm_sdata(a, "TERMACK", id, "none")
          [] m.state = "REQSENT" -> Goto([a EXCEPT !.retransmits = MaxConfReqs], "ACKRCVD")
          [] m.state = "ACKRCVD" -> Goto(fsm_sconfreq(UNTIMEOUT(a), FALSE), "REQSENT")
          [] m.state = "ACKSENT" -> Opened([a EXCEPT !.retransmits = MaxConfReqs])
          [] m.state = "OPENED" -> Reopen(a)
          [] OTHER -> a

(* What nakci and rejci return: 0 for an answer they find bad, and less    *)
(* than 0 when the protocol gives up, as ccp_rejci() does when everything  *)
(* is rejected.  In neither case do they change what is wanted.            *)
Verdicts(code) ==
    CASE code = "CONFNAK" -> {0, 1} [] code = "CONFREJ" -> {-1, 0, 1} [] OTHER -> {1}

(* What is wanted after a Nak or a Reject.                                 *)
Wanted(m, code, ret) ==
    IF ret < 0 THEN m.want
    ELSE IF code = "CONFNAK" /\ m.rnakloops + 1 < MaxNakLoops THEN "less" ELSE "none"

fsm_rconfnakrej(m, code, id, ret) ==
    LET n == [m EXCEPT !.rnakloops = IF code = "CONFNAK" THEN @ + 1 ELSE 0]
        a == [n EXCEPT !.seen_ack = TRUE, !.want = Wanted(m, code, ret)]
    IN  CASE ~Expected(m, id) -> m
          [] Expected(m, id) /\ ret = 0 -> n
          [] OTHER ->
        CASE m.state \in {"CLOSED", "STOPPED"} -> fsm_sdata(a, "TERMACK", id, "none")
          [] m.state \in {"REQSENT", "ACKSENT"} ->
                IF ret < 0 THEN Goto(UNTIMEOUT(a), "STOPPED")
                ELSE fsm_sconfreq(UNTIMEOUT(a), FALSE)
          [] m.state = "ACKRCVD" -> Goto(fsm_sconfreq(UNTIMEOUT(a), FALSE), "REQSENT")
          [] m.state = "OPENED" -> Reopen(a)
          [] OTHER -> a

fsm_rtermreq(m, id) ==
    LET a == CASE m.state \in {"ACKRCVD", "ACKSENT"} -> Goto(m, "REQSENT")
               [] m.state = "OPENED" ->
                     TIMEOUT(Down(Goto([m EXCEPT !.retransmits = 0], "STOPPING")))
               [] OTHER -> m
    IN  fsm_sdata(a, "TERMACK", id, "none")

fsm_rtermack(m) ==
    CASE m.state = "CLOSING" -> Goto(UNTIMEOUT(m), "CLOSED")
      [] m.state = "STOPPING" -> Goto(UNTIMEOUT(m), "STOPPED")
      [] m.state = "ACKRCVD" -> Goto(m, "REQSENT")
      [] m.state = "OPENED" -> Reopen(m)
      [] OTHER -> m

fsm_rcoderej(m) == IF m.state = "ACKRCVD" THEN Goto(m, "REQSENT") ELSE m

(* A code that the protocol does not know either is rejected.              *)
CodeRej(m) == fsm_sdata([m EXCEPT !.id = NextId(m)], "CODEREJ", NextId(m), "none")

fsm_input(m, msg, ret) ==
    CASE m.state \in Below -> m
      [] OTHER ->
    CASE msg.code = "CONFREQ" -> fsm_rconfreq(m, msg.id, msg.opt)
      [] msg.code = "CONFACK" -> fsm_rconfack(m, msg.id, msg.opt)
      [] msg.code \in {"CONFNAK", "CONFREJ"} -> fsm_rconfnakrej(m, msg.code, msg.id, ret)
      [] msg.code = "TERMREQ" -> fsm_rtermreq(m, msg.id)
      [] msg.code = "TERMACK" -> fsm_rtermack(m)
      [] msg.code = "CODEREJ" -> fsm_rcoderej(m)
      [] OTHER -> CodeRej(m)

-----------------------------------------------------------------------------
fsm_init(p) ==
    [state |-> "INITIAL", flags |-> Flags[p], accepts |-> Accepts[p],
     id |-> 0, reqid |-> 0, seen_ack |-> FALSE, retransmits |-> 0,
     nakloops |-> 0, rnakloops |-> 0, want |-> "ask", his |-> "none",
     timer |-> FALSE, up |-> FALSE, odd |-> FALSE, dry |-> FALSE,
     nomem |-> FALSE, out |-> <<>>]

(* Both layers have been opened; the lower one is not up yet.              *)
Init ==
    /\ fsm = [p \in Peers |-> fsm_open(fsm_init(p))]
    /\ link = [p \in Peers |-> <<>>]
    /\ calls = 0 /\ losses = 0 /\ early = 0 /\ failures = 0

(* The machine of peer p, with or without the memory for a request.        *)
Machine(p, nomem) == [fsm[p] EXCEPT !.nomem = nomem]

(* Its handler has left r: what it sent is on the link, and in is what has *)
(* still to arrive.  A shortage counts only if it leaves no timeout.       *)
Step(p, nomem, r, in) ==
    /\ nomem => (failures < MaxFailures /\ r.dry)
    /\ failures' = failures + (IF nomem THEN 1 ELSE 0)
    /\ fsm' = [fsm EXCEPT ![p] = [r EXCEPT !.out = <<>>, !.nomem = FALSE]]
    /\ link' = [link EXCEPT ![p] = in, ![Other(p)] = @ \o r.out]

Unknown == [code |-> "UNKNOWN", id |-> 0, opt |-> "none"]

LowerUp(p) ==
    /\ fsm[p].state \in Below
    /\ \E nomem \in BOOLEAN :
          Step(p, nomem, fsm_lowerup(Machine(p, nomem)), link[p])
    /\ UNCHANGED <<calls, losses, early>>

(* The layers above and below call, or a packet of an unknown code comes.  *)
Call(p) ==
    /\ calls < MaxCalls
    /\ calls' = calls + 1
    /\ \E nomem \in BOOLEAN :
          LET m == Machine(p, nomem)
          IN  \/ m.state \notin Below /\ Step(p, nomem, fsm_lowerdown(m), link[p])
              \/ Step(p, nomem, fsm_open(m), link[p])
              \/ Step(p, nomem, fsm_close(m), link[p])
              \/ m.state \notin Below /\ Step(p, nomem, fsm_protreject(m), link[p])
              \/ m.state \notin Below /\ Step(p, nomem, fsm_input(m, Unknown, 1), link[p])
    /\ UNCHANGED <<losses, early>>

(* A bad answer counts as a loss, and giving up as a call.                 *)
Receive(p) ==
    /\ link[p] # <<>>
    /\ \E nomem \in BOOLEAN, ret \in Verdicts(Head(link[p]).code) :
          /\ Step(p, nomem, fsm_input(Machine(p, nomem), Head(link[p]), ret), Tail(link[p]))
          /\ ret = 0 => losses < MaxLosses
          /\ ret < 0 => calls < MaxCalls
          /\ losses' = losses + (IF ret = 0 THEN 1 ELSE 0)
          /\ calls' = calls + (IF ret < 0 THEN 1 ELSE 0)
    /\ UNCHANGED early

(* A timeout; an early one has not waited for the messages on their way.   *)
Timeout(p) ==
    LET soon == \E q \in Peers : link[q] # <<>>
    IN  /\ fsm[p].timer
        /\ soon => early < MaxEarly
        /\ early' = early + (IF soon THEN 1 ELSE 0)
        /\ \E nomem \in BOOLEAN :
              Step(p, nomem, fsm_timeout(UNTIMEOUT(Machine(p, nomem))), link[p])
        /\ UNCHANGED <<calls, losses>>

Lose(p) ==
    /\ link[p] # <<>> /\ losses < MaxLosses
    /\ losses' = losses + 1
    /\ link' = [link EXCEPT ![p] = Tail(@)]
    /\ UNCHANGED <<fsm, calls, early, failures>>

Next == \E p \in Peers : LowerUp(p) \/ Call(p) \/ Receive(p) \/ Timeout(p) \/ Lose(p)

(* The lower layer comes up, the link delivers what it does not lose, and  *)
(* timeouts fire: sys_check_timeouts() is called for ever, and the timeout *)
(* of one machine does not put off that of the other.                      *)
Spec == /\ Init /\ [][Next]_vars
        /\ \A p \in Peers : WF_vars(LowerUp(p)) /\ WF_vars(Receive(p)) /\ SF_vars(Timeout(p))

-----------------------------------------------------------------------------
(* A timeout is pending exactly when the machine waits for its peer,       *)
(* through every order of messages, calls and timeouts: none is left over  *)
(* to hit a later state, and none is missing, which would be for ever.     *)
(* The exception is a request there was no memory for (fsm.c:739).         *)
TimerIffWaiting ==
    \A p \in Peers : fsm[p].timer = (fsm[p].state \in Timed /\ ~fsm[p].dry)

(* The layer above is told up and down in turn, and is up exactly in       *)
(* OPENED.                                                                 *)
UpIffOpened ==
    \A p \in Peers : ~fsm[p].odd /\ fsm[p].up = (fsm[p].state = "OPENED")

(* When both are open, each has acknowledged what the other wants now, and *)
(* not what it wanted in an earlier request.                               *)
Agreement ==
    (\A p \in Peers : fsm[p].state = "OPENED")
       => \A p \in Peers : fsm[p].his = fsm[Other(p)].want

(* Negotiating and closing end: once calls, losses and early timeouts are  *)
(* over, each machine is open or has given up, unless a shortage of memory *)
(* has left one of them waiting without a timeout.                         *)
Settles ==
    <>[](\/ \A p \in Peers : fsm[p].state \notin Timed
         \/ \E p \in Peers : fsm[p].state \in Timed /\ fsm[p].dry)

(* Left alone, two machines that were opened both come up and stay up,     *)
(* through losses, bad answers and early timeouts, unless one runs out of  *)
(* requests or of memory, or its protocol gives up (fsm.c:551).            *)
ComesUp ==
    [](calls = 0 /\ failures = 0 /\ \A p \in Peers : fsm[p].timer => fsm[p].retransmits > 0)
       => <>[](\A p \in Peers : fsm[p].state = "OPENED")
=============================================================================

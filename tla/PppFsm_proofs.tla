----------------------------- MODULE PppFsm_proofs -----------------------------
(***************************************************************************)
(* The invariants of PppFsm, for any number of identifiers, calls, losses  *)
(* and timeouts and any settings: first those of one machine, whatever is  *)
(* on the link, then what the two agree on.                                *)
(*                                                                         *)
(* A machine is Good when its timeout, its state and what the layer above  *)
(* was told go together.  Every handler takes a Good machine to a Good     *)
(* one, whatever it is handed; what happens on the link does not matter.   *)
(***************************************************************************)
EXTENDS PppFsm, TLAPS

Fields ==
    {"state", "flags", "accepts", "id", "reqid", "seen_ack", "retransmits",
     "nakloops", "rnakloops", "want", "his", "timer", "up", "odd", "dry",
     "nomem", "out"}

IsMachine(m) ==
    /\ DOMAIN m = Fields
    /\ m.timer \in BOOLEAN /\ m.up \in BOOLEAN /\ m.dry \in BOOLEAN /\ m.nomem \in BOOLEAN

(* What the layer above was told.                                          *)
Told(m) ==
    /\ m.odd = FALSE
    /\ m.up = TRUE <=> m.state = "OPENED"

States == Below \cup Timed \cup {"CLOSED", "STOPPED", "OPENED"}

Good(m) ==
    /\ IsMachine(m) /\ m.state \in States
    /\ Told(m)
    /\ m.timer = TRUE <=> m.state \in Timed /\ m.dry = FALSE

IInv == DOMAIN fsm = Peers /\ \A p \in Peers : Good(fsm[p])

USE DEF Fields, IsMachine, Told, States, Below, Timed, Negotiating

-----------------------------------------------------------------------------
(* What the helpers do to the fields that count.                           *)

LEMMA UpDown ==
    ASSUME NEW m, IsMachine(m), m.odd = FALSE
    PROVE  /\ m.up = FALSE => /\ IsMachine(Up(m)) /\ Up(m).odd = FALSE /\ Up(m).up = TRUE
           /\ m.up = TRUE => /\ IsMachine(Down(m)) /\ Down(m).odd = FALSE /\ Down(m).up = FALSE
<1>1. m.up = FALSE => (m.odd \/ m.up) = FALSE
  BY Zenon
<1>2. m.up = TRUE => (m.odd \/ ~m.up) = FALSE
  BY Zenon
<1> QED
  BY <1>1, <1>2, Zenon DEF Up, Down

(* A request leaves a timeout pending, or no memory and none.              *)
LEMMA Requested ==
    ASSUME NEW m, IsMachine(m), m.timer = FALSE, NEW again \in BOOLEAN
    PROVE  LET r == fsm_sconfreq(m, again) IN
             /\ IsMachine(r)
             /\ r.state = m.state /\ r.up = m.up /\ r.odd = m.odd
             /\ r.timer = TRUE <=> r.dry = FALSE
<1> DEFINE a == IF m.state \in Negotiating THEN m
                ELSE [m EXCEPT !.want = "ask", !.nakloops = 0, !.rnakloops = 0]
           c == Renew(a, again)
           b == [c EXCEPT !.seen_ack = FALSE, !.dry = m.nomem]
           Same(r) == /\ r.state = m.state /\ r.up = m.up /\ r.odd = m.odd
                      /\ r.timer = FALSE /\ r.nomem = m.nomem
<1>1. IsMachine(a) /\ Same(a)
  OBVIOUS
<1>2. IsMachine(c) /\ Same(c)
  BY <1>1 DEF Renew
<1>3. IsMachine(b) /\ Same(b) /\ b.dry = m.nomem
  BY <1>2
<1>4. fsm_sconfreq(m, again) =
        IF m.nomem THEN b
        ELSE TIMEOUT([fsm_sdata(b, "CONFREQ", b.reqid, b.want) EXCEPT !.retransmits = @ - 1])
  BY DEF fsm_sconfreq
<1> HIDE DEF b
<1>5. CASE m.nomem = TRUE
  BY <1>3, <1>4, <1>5
<1>6. CASE m.nomem = FALSE
  BY <1>3, <1>4, <1>6 DEF TIMEOUT, fsm_sdata
<1> QED
  BY <1>5, <1>6, Zenon

-----------------------------------------------------------------------------
(* The handlers.                                                           *)

(* A request that starts a negotiation.                                    *)
LEMMA Asks ==
    ASSUME NEW m, IsMachine(m), m.timer = FALSE, m.odd = FALSE, m.up = FALSE
    PROVE  LET r == Goto(fsm_sconfreq(m, FALSE), "REQSENT") IN
             Good(r) /\ r.state = "REQSENT"
  BY Requested, ZenonT(30) DEF Good, Goto

LEMMA lowerupKeeps ==
    ASSUME NEW m, Good(m)
    PROVE  Good(fsm_lowerup(m))
<1>1. CASE m.state = "STARTING" /\ "SILENT" \notin m.flags
  <2>1. Good(Goto(fsm_sconfreq(m, FALSE), "REQSENT"))
    BY <1>1, Asks, Zenon DEF Good
  <2> QED
    BY <1>1, <2>1, Zenon DEF fsm_lowerup
<1>2. CASE ~(m.state = "STARTING" /\ "SILENT" \notin m.flags)
  BY <1>2, ZenonT(30) DEF Good, fsm_lowerup, Goto
<1> QED
  BY <1>1, <1>2

LEMMA lowerdownKeeps ==
    ASSUME NEW m, Good(m)
    PROVE  Good(fsm_lowerdown(m))
<1>1. CASE m.state = "OPENED"
  <2>1. IsMachine(Down(m)) /\ Down(m).odd = FALSE /\ Down(m).up = FALSE
    BY <1>1, UpDown, Zenon DEF Good
  <2>2. Down(m).timer = FALSE
    BY <1>1 DEF Good, Down
  <2>3. Good(Goto(Down(m), "STARTING"))
    BY <2>1, <2>2 DEF Good, Goto
  <2> QED
    BY <1>1, <2>3 DEF fsm_lowerdown
<1>2. CASE m.state # "OPENED"
  BY <1>2, Zenon DEF Good, fsm_lowerdown, Goto, UNTIMEOUT
<1> QED
  BY <1>1, <1>2

LEMMA RestartKeeps ==
    ASSUME NEW m, Good(m)
    PROVE  Good(Restart(m))
  BY lowerdownKeeps, lowerupKeeps DEF Restart

LEMMA openKeeps ==
    ASSUME NEW m, Good(m)
    PROVE  Good(fsm_open(m))
<1>1. CASE m.state = "CLOSED" /\ "SILENT" \notin m.flags
  <2>1. Good(Goto(fsm_sconfreq(m, FALSE), "REQSENT"))
    BY <1>1, Asks, Zenon DEF Good
  <2> QED
    BY <1>1, <2>1, Zenon DEF fsm_open
<1>2. CASE m.state = "CLOSING"
  <2>1. Good(Goto(m, "STOPPING"))
    BY <1>2 DEF Good, Goto
  <2>2. Good(Restart(Goto(m, "STOPPING")))
    BY <2>1, RestartKeeps
  <2> QED
    BY <1>2, <2>2 DEF fsm_open
<1>3. CASE m.state \in {"STOPPED", "OPENED"}
  BY <1>3, RestartKeeps DEF fsm_open
<1>4. CASE /\ m.state \notin {"CLOSING", "STOPPED", "OPENED"}
           /\ ~(m.state = "CLOSED" /\ "SILENT" \notin m.flags)
  BY <1>4, Zenon DEF Good, fsm_open, Goto
<1> QED
  BY <1>1, <1>2, <1>3, <1>4

(* The end of a layer, for as long as it takes.                            *)
LEMMA terminateKeeps ==
    ASSUME NEW m, Good(m), m.state \in Negotiating \cup {"OPENED"},
           NEW next \in {"CLOSING", "STOPPING"}
    PROVE  Good(terminate_layer(m, next))
<1> DEFINE Idle(r) == /\ IsMachine(r) /\ r.odd = FALSE /\ r.up = FALSE
                      /\ r.timer = FALSE
           b == [Quiet(m) EXCEPT !.retransmits = MaxTermReqs]
           a == TermReq(b)
<1>1. Idle(Quiet(m))
  <2>1. CASE m.state = "OPENED"
    BY <2>1, UpDown DEF Good, Quiet, Down
  <2>2. CASE m.state # "OPENED"
    BY <2>2 DEF Good, Quiet, UNTIMEOUT
  <2> QED
    BY <2>1, <2>2, Zenon
<1>2. Idle(b)
  BY <1>1
<1>3. Idle(a)
  <2> HIDE DEF b
  <2> QED
    BY <1>2 DEF TermReq, fsm_sdata
<1>4. terminate_layer(m, next) =
        IF MaxTermReqs = 0
        THEN Goto(a, IF next = "CLOSING" THEN "CLOSED" ELSE "STOPPED")
        ELSE Goto(TIMEOUT([a EXCEPT !.retransmits = @ - 1]), next)
  BY DEF terminate_layer
<1> HIDE DEF a
<1>5. CASE MaxTermReqs = 0
  <2>1. \A s \in {"CLOSED", "STOPPED"} : Good(Goto(a, s))
    BY <1>3 DEF Good, Goto
  <2> QED
    BY <1>4, <1>5, <2>1
<1>6. CASE MaxTermReqs # 0
  <2>1. Good(Goto(TIMEOUT([a EXCEPT !.retransmits = @ - 1]), next))
    BY <1>3 DEF Good, Goto, TIMEOUT
  <2> QED
    BY <1>4, <1>6, <2>1
<1> QED
  BY <1>5, <1>6

LEMMA closeKeeps ==
    ASSUME NEW m, Good(m)
    PROVE  Good(fsm_close(m))
<1>1. CASE m.state \in Negotiating \cup {"OPENED"}
  BY <1>1, terminateKeeps DEF fsm_close
<1>2. CASE m.state \notin Negotiating \cup {"OPENED"}
  BY <1>2 DEF Good, fsm_close, Goto
<1> QED
  BY <1>1, <1>2

LEMMA protrejectKeeps ==
    ASSUME NEW m, Good(m)
    PROVE  Good(fsm_protreject(m))
<1>1. CASE m.state = "OPENED"
  BY <1>1, terminateKeeps DEF fsm_protreject
<1>2. CASE m.state # "OPENED"
  BY <1>2, Zenon DEF Good, fsm_protreject, Goto, UNTIMEOUT
<1> QED
  BY <1>1, <1>2
(* A timeout that was pending is so no more when its handler runs.         *)
LEMMA timeoutKeeps ==
    ASSUME NEW m, Good(m), m.timer = TRUE
    PROVE  Good(fsm_timeout(UNTIMEOUT(m)))
<1> DEFINE u == UNTIMEOUT(m)
<1> SUFFICES Good(fsm_timeout(u))
  OBVIOUS
<1>1. /\ IsMachine(u) /\ u.timer = FALSE /\ u.odd = FALSE /\ u.up = FALSE
      /\ u.state = m.state /\ u.state \in Timed
  BY DEF Good, UNTIMEOUT
<1> HIDE DEF u
<1>2. CASE u.state \in {"CLOSING", "STOPPING"} /\ u.retransmits <= 0
  <2>1. \A s \in {"CLOSED", "STOPPED"} : Good(Goto(u, s))
    BY <1>1 DEF Good, Goto
  <2> QED
    BY <1>2, <2>1 DEF fsm_timeout
<1>3. CASE u.state \in {"CLOSING", "STOPPING"} /\ ~(u.retransmits <= 0)
  <2>1. Good(TIMEOUT([TermReq(u) EXCEPT !.retransmits = @ - 1]))
    BY <1>1 DEF Good, TermReq, fsm_sdata, TIMEOUT
  <2> QED
    BY <1>3, <2>1, Zenon DEF fsm_timeout
<1>4. CASE u.state \in Negotiating /\ u.retransmits <= 0
  <2>1. Good(Goto(u, "STOPPED"))
    BY <1>1 DEF Good, Goto
  <2> QED
    BY <1>4, <2>1 DEF fsm_timeout
<1>5. CASE u.state \in Negotiating /\ ~(u.retransmits <= 0)
  <2> DEFINE a == fsm_sconfreq(u, TRUE)
  <2>1. /\ IsMachine(a) /\ a.state = u.state /\ a.up = u.up /\ a.odd = u.odd
        /\ a.timer = TRUE <=> a.dry = FALSE
    BY <1>1, Requested, Zenon
  <2> HIDE DEF a
  <2>2. Good(a) /\ Good(Goto(a, "REQSENT"))
    BY <1>1, <1>5, <2>1 DEF Good, Goto
  <2>3. fsm_timeout(u) = IF a.state = "ACKRCVD" THEN Goto(a, "REQSENT") ELSE a
    BY <1>5 DEF fsm_timeout, a
  <2> QED
    BY <2>2, <2>3
<1> QED
  BY <1>1, <1>2, <1>3, <1>4, <1>5

-----------------------------------------------------------------------------
(* The messages.                                                           *)

LEMMA sdataKeeps ==
    ASSUME NEW m, Good(m), NEW code, NEW id, NEW o
    PROVE  LET r == fsm_sdata(m, code, id, o) IN Good(r) /\ r.state = m.state
  BY DEF Good, fsm_sdata

LEMMA ReopenKeeps ==
    ASSUME NEW m, Good(m), m.state = "OPENED"
    PROVE  Good(Reopen(m)) /\ Reopen(m).state = "REQSENT"
<1>1. IsMachine(Down(m)) /\ Down(m).odd = FALSE /\ Down(m).up = FALSE
  BY UpDown, Zenon DEF Good
<1>2. Down(m).timer = FALSE
  BY DEF Good, Down
<1> QED
  BY <1>1, <1>2, Asks, Zenon DEF Reopen

LEMMA OpenedKeeps ==
    ASSUME NEW m, Good(m), m.state # "OPENED"
    PROVE  Good(Opened(m))
<1> DEFINE a == Goto(UNTIMEOUT(m), "OPENED")
<1>1. /\ IsMachine(a) /\ a.odd = FALSE /\ a.up = FALSE /\ a.timer = FALSE
      /\ a.state = "OPENED"
  BY DEF Good, Goto, UNTIMEOUT
<1> HIDE DEF a
<1>2. IsMachine(Up(a)) /\ Up(a).odd = FALSE /\ Up(a).up = TRUE
  BY <1>1, UpDown, Zenon
<1>3. Up(a).timer = FALSE /\ Up(a).state = "OPENED"
  BY <1>1 DEF Up
<1>4. Good(Up(a))
  BY <1>2, <1>3 DEF Good
<1> QED
  BY <1>4 DEF Opened, a
LEMMA AnswerKeeps ==
    ASSUME NEW m, Good(m), m.state \in Negotiating, NEW id, NEW o
    PROVE  Good(Answer(m, id, o))
<1> DEFINE code == reqci(m, o, m.nakloops >= MaxNakLoops)
           a == fsm_sdata(m, code, id, IF code = "CONFNAK" THEN "less" ELSE o)
           b == [a EXCEPT !.nakloops = 0, !.his = o]
           c == [a EXCEPT !.nakloops = IF code = "CONFNAK" THEN @ + 1 ELSE @]
<1>1. Good(a) /\ a.state = m.state
  BY sdataKeeps
<1> HIDE DEF a, code
<1>2. /\ Good(b) /\ b.state = m.state
      /\ Good(c) /\ c.state = m.state
  BY <1>1 DEF Good
<1>3. Answer(m, id, o) =
        CASE code = "CONFACK" /\ m.state = "ACKRCVD" -> Opened(b)
          [] code = "CONFACK" /\ m.state # "ACKRCVD" -> Goto(b, "ACKSENT")
          [] OTHER -> Goto(c, IF m.state = "ACKRCVD" THEN "ACKRCVD" ELSE "REQSENT")
  BY DEF Answer, a, code
<1> HIDE DEF b, c
<1>4. Good(Opened(b))
  BY <1>2, OpenedKeeps
<1>5. /\ Good(Goto(b, "ACKSENT"))
      /\ \A s \in {"ACKRCVD", "REQSENT"} : Good(Goto(c, s))
  BY <1>2 DEF Good, Goto
<1> QED
  BY <1>3, <1>4, <1>5

LEMMA rconfreqKeeps ==
    ASSUME NEW m, Good(m), m.state \notin Below, NEW id, NEW o
    PROVE  Good(fsm_rconfreq(m, id, o))
<1>1. CASE m.state \in {"CLOSED", "CLOSING", "STOPPING"}
  BY <1>1, sdataKeeps, Zenon DEF fsm_rconfreq
<1>2. CASE m.state = "OPENED"
  <2>1. Good(Answer(Reopen(m), id, o))
    BY <1>2, ReopenKeeps, AnswerKeeps
  <2> QED
    BY <1>2, <2>1 DEF fsm_rconfreq
<1>3. CASE m.state = "STOPPED"
  <2>1. Good(Answer(Goto(fsm_sconfreq(m, FALSE), "REQSENT"), id, o))
    BY <1>3, Asks, AnswerKeeps, Zenon DEF Good
  <2> QED
    BY <1>3, <2>1, Zenon DEF fsm_rconfreq
<1>4. CASE m.state \in Negotiating
  BY <1>4, AnswerKeeps, Zenon DEF fsm_rconfreq
<1> QED
  BY <1>1, <1>2, <1>3, <1>4, Zenon DEF Good

(* A request sent in place of the one that was answered.                   *)
LEMMA AsksAgain ==
    ASSUME NEW m, Good(m), m.state \in Negotiating
    PROVE  /\ Good(fsm_sconfreq(UNTIMEOUT(m), FALSE))
           /\ Good(Goto(fsm_sconfreq(UNTIMEOUT(m), FALSE), "REQSENT"))
<1> DEFINE u == UNTIMEOUT(m)
           r == fsm_sconfreq(u, FALSE)
<1>1. /\ IsMachine(u) /\ u.timer = FALSE /\ u.odd = FALSE /\ u.up = FALSE
      /\ u.state = m.state
  BY DEF Good, UNTIMEOUT
<1> HIDE DEF u
<1>2. /\ IsMachine(r) /\ r.state = u.state /\ r.up = u.up /\ r.odd = u.odd
      /\ r.timer = TRUE <=> r.dry = FALSE
  BY <1>1, Requested, Zenon
<1> HIDE DEF r
<1>3. Good(r) /\ Good(Goto(r, "REQSENT"))
  BY <1>1, <1>2 DEF Good, Goto
<1> QED
  BY <1>3, Zenon DEF r, u

LEMMA rconfackKeeps ==
    ASSUME NEW m, Good(m), NEW id, NEW o
    PROVE  Good(fsm_rconfack(m, id, o))
<1> DEFINE a == [m EXCEPT !.seen_ack = TRUE, !.rnakloops = 0]
           b == [a EXCEPT !.retransmits = MaxConfReqs]
<1>1. Good(a) /\ a.state = m.state /\ Good(b) /\ b.state = m.state
  BY DEF Good
<1>2. fsm_rconfack(m, id, o) =
        CASE ~Acked(m, id, o) -> m
          [] OTHER ->
        CASE m.state \in {"CLOSED", "STOPPED"} -> fsm_sdata(a, "TERMACK", id, "none")
          [] m.state = "REQSENT" -> Goto(b, "ACKRCVD")
          [] m.state = "ACKRCVD" -> Goto(fsm_sconfreq(UNTIMEOUT(a), FALSE), "REQSENT")
          [] m.state = "ACKSENT" -> Opened(b)
          [] m.state = "OPENED" -> Reopen(a)
          [] OTHER -> a
  BY DEF fsm_rconfack
<1> HIDE DEF a, b
<1>3. Good(fsm_sdata(a, "TERMACK", id, "none"))
  BY <1>1, sdataKeeps
<1>4. m.state = "REQSENT" => Good(Goto(b, "ACKRCVD"))
  BY <1>1 DEF Good, Goto
<1>5. m.state = "ACKRCVD" => Good(Goto(fsm_sconfreq(UNTIMEOUT(a), FALSE), "REQSENT"))
  BY <1>1, AsksAgain, Zenon
<1>6. m.state = "ACKSENT" => Good(Opened(b))
  BY <1>1, OpenedKeeps
<1>7. m.state = "OPENED" => Good(Reopen(a))
  BY <1>1, ReopenKeeps
<1> QED
  BY <1>1, <1>2, <1>3, <1>4, <1>5, <1>6, <1>7, Zenon

LEMMA rconfnakrejKeeps ==
    ASSUME NEW m, Good(m), NEW code, NEW id, NEW ret
    PROVE  Good(fsm_rconfnakrej(m, code, id, ret))
<1> DEFINE n == [m EXCEPT !.rnakloops = IF code = "CONFNAK" THEN @ + 1 ELSE 0]
           a == [n EXCEPT !.seen_ack = TRUE, !.want = Wanted(m, code, ret)]
<1>1. Good(n) /\ Good(a) /\ a.state = m.state
  BY DEF Good
<1>2. fsm_rconfnakrej(m, code, id, ret) =
        CASE ~Expected(m, id) -> m
          [] Expected(m, id) /\ ret = 0 -> n
          [] OTHER ->
        CASE m.state \in {"CLOSED", "STOPPED"} -> fsm_sdata(a, "TERMACK", id, "none")
          [] m.state \in {"REQSENT", "ACKSENT"} ->
                IF ret < 0 THEN Goto(UNTIMEOUT(a), "STOPPED")
                ELSE fsm_sconfreq(UNTIMEOUT(a), FALSE)
          [] m.state = "ACKRCVD" -> Goto(fsm_sconfreq(UNTIMEOUT(a), FALSE), "REQSENT")
          [] m.state = "OPENED" -> Reopen(a)
          [] OTHER -> a
  BY DEF fsm_rconfnakrej
<1> HIDE DEF a, n
<1>3. Good(fsm_sdata(a, "TERMACK", id, "none"))
  BY <1>1, sdataKeeps
<1>4. m.state \in Negotiating =>
        /\ Good(fsm_sconfreq(UNTIMEOUT(a), FALSE))
        /\ Good(Goto(fsm_sconfreq(UNTIMEOUT(a), FALSE), "REQSENT"))
        /\ Good(Goto(UNTIMEOUT(a), "STOPPED"))
  <2>1. m.state \in Negotiating => Good(Goto(UNTIMEOUT(a), "STOPPED"))
    BY <1>1 DEF Good, Goto, UNTIMEOUT
  <2> QED
    BY <1>1, <2>1, AsksAgain, Zenon
<1>5. m.state = "OPENED" => Good(Reopen(a))
  BY <1>1, ReopenKeeps
<1> QED
  BY <1>1, <1>2, <1>3, <1>4, <1>5, Zenon

LEMMA rtermreqKeeps ==
    ASSUME NEW m, Good(m), NEW id
    PROVE  Good(fsm_rtermreq(m, id))
<1> DEFINE a == CASE m.state \in {"ACKRCVD", "ACKSENT"} -> Goto(m, "REQSENT")
                  [] m.state = "OPENED" ->
                        TIMEOUT(Down(Goto([m EXCEPT !.retransmits = 0], "STOPPING")))
                  [] OTHER -> m
<1>1. CASE m.state = "OPENED"
  <2> DEFINE b == Goto([m EXCEPT !.retransmits = 0], "STOPPING")
  <2>1. IsMachine(b) /\ b.odd = FALSE /\ b.up = TRUE /\ b.state = "STOPPING"
    BY <1>1 DEF Good, Goto
  <2> HIDE DEF b
  <2>2. /\ IsMachine(Down(b)) /\ Down(b).odd = FALSE /\ Down(b).up = FALSE
        /\ Down(b).state = "STOPPING"
    BY <2>1, UpDown, Zenon DEF Down
  <2>3. Good(TIMEOUT(Down(b)))
    BY <2>2 DEF Good, TIMEOUT
  <2> QED
    BY <1>1, <2>3, sdataKeeps DEF fsm_rtermreq, b
<1>2. CASE m.state # "OPENED"
  <2>1. Good(a)
    BY <1>2 DEF Good, Goto
  <2> QED
    BY <2>1, sdataKeeps DEF fsm_rtermreq
<1> QED
  BY <1>1, <1>2

LEMMA rtermackKeeps ==
    ASSUME NEW m, Good(m)
    PROVE  Good(fsm_rtermack(m))
<1>1. CASE m.state = "OPENED"
  BY <1>1, ReopenKeeps DEF fsm_rtermack
<1>2. CASE m.state # "OPENED"
  BY <1>2, ZenonT(30) DEF Good, fsm_rtermack, Goto, UNTIMEOUT
<1> QED
  BY <1>1, <1>2

LEMMA CodeRejKeeps ==
    ASSUME NEW m, Good(m)
    PROVE  Good(fsm_rcoderej(m)) /\ Good(CodeRej(m))
<1>1. Good(fsm_rcoderej(m))
  BY DEF Good, fsm_rcoderej, Goto
<1>2. Good([m EXCEPT !.id = NextId(m)])
  BY DEF Good
<1> QED
  BY <1>1, <1>2, sdataKeeps, Zenon DEF CodeRej

LEMMA inputKeeps ==
    ASSUME NEW m, Good(m), NEW msg, NEW ret
    PROVE  Good(fsm_input(m, msg, ret))
  BY rconfreqKeeps, rconfackKeeps, rconfnakrejKeeps, rtermreqKeeps, rtermackKeeps,
     CodeRejKeeps DEF fsm_input

-----------------------------------------------------------------------------
LEMMA InitInv == Init => IInv
<1>1. \A p \in Peers : Good(fsm_init(p))
  BY DEF Good, fsm_init
<1> QED
  BY <1>1, openKeeps DEF Init, IInv

(* A step of peer p is a handler, with or without the memory for a request.*)
LEMMA Handled ==
    ASSUME IInv, NEW p \in Peers, NEW r, Good(r),
           fsm' = [fsm EXCEPT ![p] = [r EXCEPT !.out = <<>>, !.nomem = FALSE]]
    PROVE  IInv'
<1>1. Good([r EXCEPT !.out = <<>>, !.nomem = FALSE])
  BY DEF Good
<1> QED
  BY <1>1 DEF IInv

LEMMA Memory ==
    ASSUME IInv, NEW p \in Peers, NEW nomem \in BOOLEAN
    PROVE  /\ Good(Machine(p, nomem))
           /\ Machine(p, nomem).timer = fsm[p].timer
  BY DEF IInv, Good, Machine

LEMMA NextKeeps ==
    ASSUME IInv, NEW p \in Peers,
           LowerUp(p) \/ Call(p) \/ Receive(p) \/ Timeout(p) \/ Lose(p)
    PROVE  IInv'
<1>1. \A nomem \in BOOLEAN :
         Good(Machine(p, nomem)) /\ Machine(p, nomem).timer = fsm[p].timer
  BY Memory
<1>2. ASSUME NEW nomem, NEW r, NEW in, Good(r), Step(p, nomem, r, in)
      PROVE  IInv'
  BY <1>2, Handled, Zenon DEF Step
<1>3. CASE LowerUp(p)
  <2>1. PICK nomem \in BOOLEAN :
           Step(p, nomem, fsm_lowerup(Machine(p, nomem)), link[p])
    BY <1>3, Zenon DEF LowerUp
  <2> QED
    BY <1>1, <1>2, <2>1, lowerupKeeps, Zenon
<1>4. CASE Call(p)
  <2>1. PICK nomem \in BOOLEAN :
           LET m == Machine(p, nomem)
           IN  \/ Step(p, nomem, fsm_lowerdown(m), link[p])
               \/ Step(p, nomem, fsm_open(m), link[p])
               \/ Step(p, nomem, fsm_close(m), link[p])
               \/ Step(p, nomem, fsm_protreject(m), link[p])
               \/ Step(p, nomem, fsm_input(m, Unknown, 1), link[p])
    BY <1>4, Zenon DEF Call
  <2>2. /\ Good(fsm_lowerdown(Machine(p, nomem))) /\ Good(fsm_open(Machine(p, nomem)))
        /\ Good(fsm_close(Machine(p, nomem))) /\ Good(fsm_protreject(Machine(p, nomem)))
        /\ Good(fsm_input(Machine(p, nomem), Unknown, 1))
    BY <1>1, lowerdownKeeps, openKeeps, closeKeeps, protrejectKeeps, inputKeeps, Zenon
  <2> QED
    BY <1>2, <2>1, <2>2, Zenon
<1>5. CASE Receive(p)
  <2>1. PICK nomem \in BOOLEAN, ret \in Verdicts(Head(link[p]).code) :
           Step(p, nomem, fsm_input(Machine(p, nomem), Head(link[p]), ret), Tail(link[p]))
    BY <1>5, Zenon DEF Receive
  <2> QED
    BY <1>1, <1>2, <2>1, inputKeeps, Zenon
<1>6. CASE Timeout(p)
  <2>1. PICK nomem \in BOOLEAN :
           Step(p, nomem, fsm_timeout(UNTIMEOUT(Machine(p, nomem))), link[p])
    BY <1>6, Zenon DEF Timeout
  <2>2. fsm[p].timer = TRUE
    BY <1>6, Zenon DEF Timeout, IInv, Good, IsMachine
  <2>3. Good(fsm_timeout(UNTIMEOUT(Machine(p, nomem))))
    BY <1>1, <2>2, timeoutKeeps, Zenon
  <2> QED
    BY <1>2, <2>1, <2>3, Zenon
<1>7. CASE Lose(p)
  BY <1>7 DEF Lose, IInv
<1> QED
  BY <1>3, <1>4, <1>5, <1>6, <1>7, Zenon

(* Every machine is Good in every reachable state, and whatever arrives.   *)
THEOREM Inductive == Spec => []IInv
<1>1. IInv /\ [Next]_vars => IInv'
  <2>1. IInv /\ UNCHANGED vars => IInv'
    BY DEF IInv, vars
  <2> QED
    BY <2>1, NextKeeps DEF Next
<1> QED
  BY <1>1, InitInv, PTL DEF Spec

(* A timeout is pending exactly when the machine waits for its peer: no    *)
(* path through fsm.c leaves one over or forgets one, but for the request  *)
(* there was no memory for (fsm.c:739).                                    *)
THEOREM TimerIffWaitingHolds == Spec => []TimerIffWaiting
<1>1. IInv => TimerIffWaiting
  <2> SUFFICES ASSUME IInv, NEW p \in Peers
               PROVE  fsm[p].timer = (fsm[p].state \in Timed /\ ~fsm[p].dry)
    BY Zenon DEF TimerIffWaiting
  <2>1. /\ fsm[p].timer \in BOOLEAN /\ fsm[p].dry \in BOOLEAN
        /\ fsm[p].timer = TRUE <=> fsm[p].state \in Timed /\ fsm[p].dry = FALSE
    BY Zenon DEF IInv, Good
  <2> QED
    BY <2>1, Zenon
<1> QED
  BY <1>1, Inductive, PTL

(* The layer above is told up and down in turn, and is up exactly in       *)
(* OPENED, through every path of fsm.c.                                    *)
THEOREM UpIffOpenedHolds == Spec => []UpIffOpened
<1>1. IInv => UpIffOpened
  <2> SUFFICES ASSUME IInv, NEW p \in Peers
               PROVE  ~fsm[p].odd /\ fsm[p].up = (fsm[p].state = "OPENED")
    BY Zenon DEF UpIffOpened
  <2>1. /\ fsm[p].up \in BOOLEAN /\ fsm[p].odd = FALSE
        /\ fsm[p].up = TRUE <=> fsm[p].state = "OPENED"
    BY Zenon DEF IInv, Good
  <2> QED
    BY <2>1, Zenon
<1> QED
  BY <1>1, Inductive, PTL

-----------------------------------------------------------------------------
(***************************************************************************)
(* What both machines and the link between them keep: Agreement.           *)
(*                                                                         *)
(* The request of a machine is Clear when no copy of it on the way to the  *)
(* peer says anything else, no older request follows it, and, once it is   *)
(* granted (an acknowledgement of it has arrived or is on its way), the    *)
(* peer keeps what it asks for and has no older request still to answer.   *)
(* Handlers keep requests Clear as long as an identifier that is given to  *)
(* a new request is not that of an old message still on the link.          *)
(***************************************************************************)
Options == {"ask", "less", "none"}
Codes == {"CONFREQ", "CONFACK", "CONFNAK", "CONFREJ", "TERMREQ", "TERMACK", "CODEREJ"}
Message == [code : Codes, id : Int, opt : Options]

(* The states in which the last request of a machine counts, and those in  *)
(* which it has been acknowledged.                                         *)
Live(m) == m.state \in Negotiating \cup {"OPENED"}
Agreed(m) == m.state \in {"ACKRCVD", "OPENED"}

(* A request, or an acknowledgement of one, with the identifier id.        *)
Requests(c, id) == c.code = "CONFREQ" /\ c.id = id
Grants(c, id) == c.code = "CONFACK" /\ c.id = id

Granted(m, from) == Agreed(m) \/ \E i \in DOMAIN from : Grants(from[i], m.reqid)

Only(m, to) == \A i \in DOMAIN to : to[i].code = "CONFREQ" => to[i].id = m.reqid

(* to is on its way from the machine m, from is on its way to it, and his  *)
(* is what the peer keeps of m's options.                                  *)
Clear(m, his, to, from) ==
    /\ \A i \in DOMAIN to : Requests(to[i], m.reqid) => to[i].opt = m.want
    /\ \A i, j \in DOMAIN to :
          i < j /\ Requests(to[i], m.reqid) /\ to[j].code = "CONFREQ" => to[j].id = m.reqid
    /\ Granted(m, from) => his = m.want /\ Only(m, to)

(* A machine between two handlers.                                         *)
Rests(m) ==
    /\ m.out = <<>> /\ m.want \in Options
    /\ m.id \in 0 .. Ids - 1 /\ m.reqid \in 0 .. Ids - 1

ClearInv ==
    /\ link \in [Peers -> Seq(Message)]
    /\ \A p \in Peers :
          /\ Rests(fsm[p])
          /\ Live(fsm[p]) =>
                Clear(fsm[p], fsm[Other(p)].his, link[Other(p)], link[p])

(* The hypothesis: identifiers are not used up while a message waits.  The *)
(* next identifier (++f->id in fsm.c, an octet), whether a request, a      *)
(* Terminate-Request or a Code-Reject gets it, is not that of an earlier   *)
(* request on its way to the peer, nor of an acknowledgement on its way    *)
(* back.                                                                   *)
FreshIds ==
    \A p \in Peers : fsm[p].id' # fsm[p].id =>
       /\ \A i \in DOMAIN link[Other(p)] : ~Requests(link[Other(p)][i], fsm[p].id')
       /\ \A i \in DOMAIN link[p] : ~Grants(link[p][i], fsm[p].id')

-----------------------------------------------------------------------------
(* What a handler that found m has left in r: the request is the same, or  *)
(* it is new and not yet acknowledged; every request sent is the last one. *)

Sound(r) ==
    /\ IsMachine(r) /\ r.out \in Seq(Message) /\ r.want \in Options
    /\ r.id \in 0 .. Ids - 1 /\ r.reqid \in 0 .. Ids - 1
    /\ \A i \in DOMAIN r.out :
          r.out[i].code = "CONFREQ" => r.out[i].id = r.reqid /\ r.out[i].opt = r.want

SameRequest(m, r) == r.reqid = m.reqid /\ (Live(r) => Live(m) /\ r.want = m.want)

NewRequest(m, r) == r.reqid = NextId(m) /\ r.id = NextId(m) /\ ~Agreed(r)

NoAck(m, r) == r.his = m.his /\ \A i \in DOMAIN r.out : r.out[i].code # "CONFACK"

Does(m, r) ==
    /\ Sound(r)
    /\ \/ SameRequest(m, r) /\ (Agreed(r) => Agreed(m))
       \/ NewRequest(m, r)

(* Another identifier, which is one.                                       *)
LEMMA AnotherId ==
    ASSUME NEW m, m.id \in 0 .. Ids - 1
    PROVE  NextId(m) \in 0 .. Ids - 1 /\ NextId(m) # m.id
  BY IdsAssumption DEF NextId

(* What the machine itself does keeps its request Clear.  It is the same   *)
(* one, perhaps sent again or just acknowledged, ...                       *)
LEMMA SameIsClear ==
    ASSUME NEW m, NEW r, NEW his, NEW to \in Seq(Message), NEW from, NEW in,
           Sound(r), SameRequest(m, r), Live(r), Clear(m, his, to, from),
           Granted(r, in) => Granted(m, from)
    PROVE  Clear(r, his, to \o r.out, in)
<1> DEFINE all == to \o r.out
<1>1. /\ r.reqid = m.reqid /\ r.want = m.want
      /\ r.out \in Seq(Message)
  BY DEF Sound, SameRequest
<1>2. \A i \in DOMAIN all :
        \/ i \in DOMAIN to /\ all[i] = to[i]
        \/ /\ i > Len(to) /\ (i - Len(to)) \in DOMAIN r.out
           /\ all[i] = r.out[i - Len(to)]
  BY <1>1
<1>2a. DOMAIN to = 1 .. Len(to) /\ Len(to) \in Nat /\ \A i \in DOMAIN all : i \in Nat
  BY <1>1
<1> HIDE DEF all
<1>3. \A i \in DOMAIN all :
        \/ i \in DOMAIN to /\ all[i] = to[i]
        \/ /\ i > Len(to)
           /\ all[i].code = "CONFREQ" => all[i].id = m.reqid /\ all[i].opt = m.want
  BY <1>1, <1>2 DEF Sound
<1>4. \A i \in DOMAIN all : Requests(all[i], r.reqid) => all[i].opt = r.want
  BY <1>1, <1>3, Zenon DEF Clear, Requests
<1>5. \A i, j \in DOMAIN all :
         i < j /\ Requests(all[i], r.reqid) /\ all[j].code = "CONFREQ" => all[j].id = r.reqid
  <2> SUFFICES ASSUME NEW i \in DOMAIN all, NEW j \in DOMAIN all, i < j,
                      Requests(all[i], r.reqid), all[j].code = "CONFREQ"
               PROVE  all[j].id = r.reqid
    BY Zenon
  <2>1. CASE j \in DOMAIN to /\ all[j] = to[j]
    <3>1. i \in DOMAIN to /\ all[i] = to[i]
      BY <1>2a, <1>3, <2>1
    <3> QED
      BY <1>1, <2>1, <3>1, Zenon DEF Clear
  <2> QED
    BY <1>1, <1>3, <2>1, Zenon
<1>6. Granted(r, in) => his = r.want /\ Only(r, all)
  BY <1>1, <1>3, Zenon DEF Clear, Only
<1> QED
  BY <1>4, <1>5, <1>6, Zenon DEF Clear, all

(* ... or a new one, with an identifier that nothing on the link bears.    *)
LEMMA NewIsClear ==
    ASSUME NEW r, NEW his, NEW to \in Seq(Message), NEW in,
           Sound(r), ~Agreed(r),
           \A i \in DOMAIN to : ~Requests(to[i], r.reqid),
           \A i \in DOMAIN in : ~Grants(in[i], r.reqid)
    PROVE  Clear(r, his, to \o r.out, in)
<1> DEFINE all == to \o r.out
<1>1. r.out \in Seq(Message)
  BY DEF Sound
<1>2. \A i \in DOMAIN all :
        \/ i \in DOMAIN to /\ all[i] = to[i]
        \/ /\ i > Len(to) /\ (i - Len(to)) \in DOMAIN r.out
           /\ all[i] = r.out[i - Len(to)]
  BY <1>1
<1>2a. DOMAIN to = 1 .. Len(to) /\ Len(to) \in Nat /\ \A i \in DOMAIN all : i \in Nat
  BY <1>1
<1> HIDE DEF all
<1>3. \A i \in DOMAIN all :
        \/ i \in DOMAIN to /\ all[i] = to[i]
        \/ /\ i > Len(to)
           /\ all[i].code = "CONFREQ" => all[i].id = r.reqid /\ all[i].opt = r.want
  BY <1>1, <1>2 DEF Sound
<1>4. \A i \in DOMAIN all : Requests(all[i], r.reqid) => all[i].opt = r.want
  BY <1>3, Zenon DEF Requests
<1>5. \A i, j \in DOMAIN all :
         i < j /\ Requests(all[i], r.reqid) /\ all[j].code = "CONFREQ" => all[j].id = r.reqid
  <2> SUFFICES ASSUME NEW i \in DOMAIN all, NEW j \in DOMAIN all, i < j,
                      Requests(all[i], r.reqid), all[j].code = "CONFREQ"
               PROVE  all[j].id = r.reqid
    BY Zenon
  <2>1. i > Len(to)
    BY <1>3, Zenon
  <2>2. j \notin DOMAIN to
    BY <1>2a, <2>1
  <2> QED
    BY <1>3, <2>2, Zenon
<1>6. ~Granted(r, in)
  BY Zenon DEF Granted
<1> QED
  BY <1>4, <1>5, <1>6, Zenon DEF Clear, all

(* What the peer does keeps it Clear: it receives or loses a message, or   *)
(* none, and sends no acknowledgement, ...                                 *)
LEMMA PeerKeepsClear ==
    ASSUME NEW m, NEW his, NEW to \in Seq(Message), NEW from \in Seq(Message),
           NEW rest, rest = to \/ (to # <<>> /\ rest = Tail(to)),
           NEW out \in Seq(Message),
           \A i \in DOMAIN out : out[i].code # "CONFACK",
           Clear(m, his, to, from)
    PROVE  Clear(m, his, rest, from \o out)
<1>1. Granted(m, from \o out) => Granted(m, from)
  <2> SUFFICES ASSUME NEW i \in DOMAIN (from \o out), Grants((from \o out)[i], m.reqid)
               PROVE  \E j \in DOMAIN from : Grants(from[j], m.reqid)
    BY Zenon DEF Granted
  <2>1. \/ i \in DOMAIN from /\ (from \o out)[i] = from[i]
        \/ (i - Len(from)) \in DOMAIN out /\ (from \o out)[i] = out[i - Len(from)]
    OBVIOUS
  <2> QED
    BY <2>1, Zenon DEF Grants
<1>2. PICK k \in {0, 1} :
        /\ \A i \in DOMAIN rest : (i + k) \in DOMAIN to /\ rest[i] = to[i + k]
        /\ DOMAIN rest \subseteq Nat
  <2>1. CASE rest = to
    <3>1. \A i \in DOMAIN rest : (i + 0) \in DOMAIN to /\ rest[i] = to[i + 0]
      BY <2>1
    <3> QED
      BY <2>1, <3>1
  <2>2. CASE to # <<>> /\ rest = Tail(to)
    <3>1. \A i \in DOMAIN rest : (i + 1) \in DOMAIN to /\ rest[i] = to[i + 1]
      BY <2>2
    <3> QED
      BY <2>2, <3>1
  <2> QED
    BY <2>1, <2>2, Zenon
<1>3. \A i, j \in DOMAIN rest : i < j => i + k < j + k
  BY <1>2
<1>4. \A i \in DOMAIN rest : Requests(rest[i], m.reqid) => rest[i].opt = m.want
  BY <1>2, Zenon DEF Clear
<1>5. \A i, j \in DOMAIN rest :
         i < j /\ Requests(rest[i], m.reqid) /\ rest[j].code = "CONFREQ" => rest[j].id = m.reqid
  BY <1>2, <1>3, Zenon DEF Clear
<1>6. Only(m, to) => Only(m, rest)
  BY <1>2, Zenon DEF Only
<1> QED
  BY <1>1, <1>4, <1>5, <1>6, Zenon DEF Clear

(* ... or it acknowledges the request it receives and keeps what that asks *)
(* for.                                                                    *)
LEMMA AckKeepsClear ==
    ASSUME NEW m, NEW his, NEW to \in Seq(Message), NEW from \in Seq(Message),
           to # <<>>, Head(to).code = "CONFREQ",
           NEW out \in Seq(Message),
           \A i \in DOMAIN out : out[i].code = "CONFACK" => out[i].id = Head(to).id,
           Clear(m, his, to, from)
    PROVE  Clear(m, Head(to).opt, Tail(to), from \o out)
<1> DEFINE rest == Tail(to)
<1>1. /\ \A i \in DOMAIN rest : (i + 1) \in DOMAIN to /\ rest[i] = to[i + 1] /\ 1 < i + 1
      /\ \A i, j \in DOMAIN rest : i < j => i + 1 < j + 1
      /\ 1 \in DOMAIN to /\ Head(to) = to[1]
  OBVIOUS
<1> HIDE DEF rest
<1>4. \A i \in DOMAIN rest : Requests(rest[i], m.reqid) => rest[i].opt = m.want
  BY <1>1, Zenon DEF Clear
<1>5. \A i, j \in DOMAIN rest :
         i < j /\ Requests(rest[i], m.reqid) /\ rest[j].code = "CONFREQ" => rest[j].id = m.reqid
  BY <1>1, Zenon DEF Clear
<1>6. CASE Head(to).id = m.reqid
  <2>1. Requests(to[1], m.reqid)
    BY <1>1, <1>6, Zenon DEF Requests
  <2>2. Head(to).opt = m.want
    BY <1>1, <2>1, Zenon DEF Clear
  <2>3. Only(m, rest)
    BY <1>1, <2>1, Zenon DEF Clear, Only
  <2> QED
    BY <1>4, <1>5, <2>2, <2>3, Zenon DEF Clear, rest
<1>7. CASE Head(to).id # m.reqid
  <2>1. ~Only(m, to)
    BY <1>1, <1>7, Zenon DEF Only
  <2>2. ~Granted(m, from)
    BY <2>1, Zenon DEF Clear
  <2>3. ~Granted(m, from \o out)
    <3> SUFFICES ASSUME NEW i \in DOMAIN (from \o out), Grants((from \o out)[i], m.reqid)
                 PROVE  \E j \in DOMAIN from : Grants(from[j], m.reqid)
      BY <2>2, Zenon DEF Granted
    <3>1. \/ i \in DOMAIN from /\ (from \o out)[i] = from[i]
          \/ (i - Len(from)) \in DOMAIN out /\ (from \o out)[i] = out[i - Len(from)]
      OBVIOUS
    <3> QED
      BY <1>7, <3>1, Zenon DEF Grants
  <2> QED
    BY <1>4, <1>5, <2>3, Zenon DEF Clear, rest
<1> QED
  BY <1>6, <1>7

-----------------------------------------------------------------------------
(* What the handlers do to the request of their machine.                   *)

(* Untouched: neither the request nor what is sent.                        *)
Untouched(m, r) ==
    /\ IsMachine(r)
    /\ r.id = m.id /\ r.reqid = m.reqid /\ r.want = m.want
    /\ r.his = m.his /\ r.out = m.out

LEMMA UntouchedDoes ==
    ASSUME NEW m, Rests(m), NEW r, Untouched(m, r),
           Live(r) => Live(m), Agreed(r) => Agreed(m)
    PROVE  Rests(r) /\ Does(m, r) /\ NoAck(m, r)
<1>1. Rests(r)
  BY DEF Rests, Untouched
<1>2. DOMAIN r.out = {}
  BY <1>1 DEF Rests
<1>3. Sound(r)
  BY <1>1, <1>2 DEF Rests, Sound, Untouched
<1> QED
  BY <1>1, <1>2, <1>3, Zenon DEF Untouched, Does, SameRequest, NoAck

(* A Configure-Request.                                                    *)
LEMMA RequestDoes ==
    ASSUME NEW m, IsMachine(m), Rests(m), NEW again \in BOOLEAN
    PROVE  LET r == fsm_sconfreq(m, again) IN
             /\ Sound(r) /\ NoAck(m, r) /\ r.state = m.state
             /\ r.reqid = IF again THEN m.reqid ELSE NextId(m)
             /\ ~again => r.id = NextId(m)
             /\ m.state \in Negotiating => r.want = m.want
<1> DEFINE a == IF m.state \in Negotiating THEN m
                ELSE [m EXCEPT !.want = "ask", !.nakloops = 0, !.rnakloops = 0]
           c == Renew(a, again)
           b == [c EXCEPT !.seen_ack = FALSE, !.dry = m.nomem]
           d == TIMEOUT([fsm_sdata(b, "CONFREQ", b.reqid, b.want) EXCEPT !.retransmits = @ - 1])
           Like(r) == /\ IsMachine(r) /\ r.state = m.state /\ r.his = m.his
                      /\ r.want \in Options
                      /\ m.state \in Negotiating => r.want = m.want
<1>1. Like(a) /\ Rests(a) /\ a.id = m.id /\ a.reqid = m.reqid
  BY DEF Rests, Options
<1>2. /\ Like(c) /\ Rests(c) /\ c.reqid = IF again THEN m.reqid ELSE NextId(m)
      /\ ~again => c.id = NextId(m)
  <2> HIDE DEF a
  <2>1. NextId(a) \in 0 .. Ids - 1 /\ NextId(a) = NextId(m)
    BY <1>1, AnotherId DEF Rests, NextId
  <2> QED
    BY <1>1, <2>1 DEF Renew, Rests
<1>3. /\ Like(b) /\ Rests(b) /\ b.reqid = IF again THEN m.reqid ELSE NextId(m)
      /\ ~again => b.id = NextId(m)
  <2> HIDE DEF c
  <2> QED
    BY <1>2, Zenon DEF Rests
<1>4. fsm_sconfreq(m, again) = IF m.nomem THEN b ELSE d
  BY DEF fsm_sconfreq
<1> DEFINE msg == [code |-> "CONFREQ", id |-> b.reqid, opt |-> b.want]
<1>5. /\ Like(d) /\ d.out = <<msg>> /\ d.id = b.id /\ d.reqid = b.reqid
      /\ d.want = b.want
  <2> HIDE DEF b
  <2>1. Append(b.out, msg) = <<msg>>
    BY <1>3 DEF Rests
  <2> QED
    BY <1>3, <2>1 DEF TIMEOUT, fsm_sdata
<1> HIDE DEF b, d
<1>6. msg \in Message
  BY <1>3 DEF Message, Rests, Codes
<1>7. Sound(b) /\ NoAck(m, b)
  <2>1. DOMAIN b.out = {} /\ b.out \in Seq(Message)
    BY <1>3 DEF Rests
  <2> QED
    BY <1>3, <2>1 DEF Sound, Rests, NoAck
<1>8. Sound(d) /\ NoAck(m, d)
  <2>1. /\ d.out \in Seq(Message) 
        /\ \A i \in DOMAIN d.out : d.out[i] = msg
    BY <1>5, <1>6
  <2>2. msg.code = "CONFREQ" /\ msg.code # "CONFACK" /\ msg.id = b.reqid /\ msg.opt = b.want
    OBVIOUS
  <2> HIDE DEF msg
  <2> QED
    BY <1>3, <1>5, <2>1, <2>2, Zenon DEF Sound, Rests, NoAck
<1>9. \A r \in {b, d} : /\ Sound(r) /\ NoAck(m, r) /\ Like(r)
                        /\ r.reqid = IF again THEN m.reqid ELSE NextId(m)
                        /\ ~again => r.id = NextId(m)
  BY <1>3, <1>5, <1>7, <1>8, Zenon
<1> HIDE DEF Like
<1>10. fsm_sconfreq(m, again) \in {b, d}
  BY <1>4, Zenon
<1> QED
  BY <1>9, <1>10, Zenon DEF Like

LEMMA GotoDoes ==
    ASSUME NEW m, NEW r, Sound(r), NEW s
    PROVE  /\ Sound(Goto(r, s)) /\ Goto(r, s).state = s
           /\ Goto(r, s).id = r.id /\ Goto(r, s).reqid = r.reqid
           /\ Goto(r, s).want = r.want
           /\ NoAck(m, r) => NoAck(m, Goto(r, s))
  BY DEF Sound, Goto, NoAck

(* A request that starts a negotiation, or starts it again: u is the       *)
(* machine m but for what has no part in it.                               *)
LEMMA AskDoes ==
    ASSUME NEW m, NEW u, IsMachine(u), Rests(u), u.id = m.id, u.his = m.his
    PROVE  LET r == Goto(fsm_sconfreq(u, FALSE), "REQSENT") IN
             Does(m, r) /\ NoAck(m, r) /\ r.state = "REQSENT"
<1> DEFINE a == fsm_sconfreq(u, FALSE)
           r == Goto(a, "REQSENT")
<1>1. Sound(a) /\ NoAck(u, a) /\ a.reqid = NextId(u) /\ a.id = NextId(u)
  BY RequestDoes, Zenon
<1> HIDE DEF a
<1>2. NoAck(m, a) /\ NextId(u) = NextId(m)
  BY <1>1 DEF NoAck, NextId
<1>3. /\ Sound(r) /\ r.state = "REQSENT" /\ r.reqid = NextId(m)
      /\ r.id = NextId(m) /\ NoAck(m, r)
  BY <1>1, <1>2, GotoDoes
<1> HIDE DEF r
<1>4. Does(m, r)
  BY <1>3 DEF Does, NewRequest, Agreed
<1> QED
  BY <1>3, <1>4, Zenon DEF r, a

(* A Terminate-Request, an acknowledgement of one or a Code-Reject.        *)
LEMMA TermDoes ==
    ASSUME NEW m, NEW u, IsMachine(u), Rests(u), u.his = m.his,
           NEW code \in {"TERMREQ", "TERMACK", "CODEREJ"}, NEW id \in Int
    PROVE  LET r == fsm_sdata(u, code, id, "none") IN
             /\ Sound(r) /\ NoAck(m, r)
             /\ r.state = u.state /\ r.want = u.want
             /\ r.reqid = u.reqid /\ r.id = u.id
<1> DEFINE msg == [code |-> code, id |-> id, opt |-> "none"]
           r == fsm_sdata(u, code, id, "none")
<1>1. msg \in Message /\ msg.code # "CONFREQ" /\ msg.code # "CONFACK"
  BY DEF Message, Codes, Options
<1>2. Append(u.out, msg) = <<msg>>
  BY DEF Rests
<1>3. /\ IsMachine(r) /\ r.out = <<msg>> /\ r.want = u.want /\ r.id = u.id
      /\ r.reqid = u.reqid /\ r.state = u.state /\ r.his = m.his
  BY <1>2 DEF fsm_sdata
<1> HIDE DEF msg, r
<1>4. /\ r.out \in Seq(Message)
      /\ \A i \in DOMAIN r.out : r.out[i] = msg
  BY <1>1, <1>3
<1> QED
  BY <1>1, <1>3, <1>4, Zenon DEF Sound, Rests, NoAck, r

LEMMA lowerdownDoes ==
    ASSUME NEW m, Good(m), Rests(m)
    PROVE  LET r == fsm_lowerdown(m) IN
             /\ Untouched(m, r) /\ Rests(r) /\ Does(m, r) /\ NoAck(m, r)
             /\ Live(r) => Live(m)
             /\ Agreed(r) => Agreed(m)
<1> DEFINE r == fsm_lowerdown(m)
<1>1. \A s : Untouched(m, Goto(m, s)) /\ Goto(m, s).state = s
  BY DEF Good, Goto, Untouched
<1>2. \A s : Untouched(m, UNTIMEOUT(Goto(m, s))) /\ UNTIMEOUT(Goto(m, s)).state = s
  BY DEF Good, Goto, UNTIMEOUT, Untouched
<1>3. m.state = "OPENED" => /\ Untouched(m, Goto(Down(m), "STARTING"))
                            /\ Goto(Down(m), "STARTING").state = "STARTING"
  <2> SUFFICES ASSUME m.state = "OPENED"
               PROVE  /\ Untouched(m, Goto(Down(m), "STARTING"))
                      /\ Goto(Down(m), "STARTING").state = "STARTING"
    BY Zenon
  <2>1. Untouched(m, Down(m))
    <3>1. IsMachine(Down(m))
      BY UpDown, Zenon DEF Good
    <3> QED
      BY <3>1 DEF Good, Untouched, Down
  <2> QED
    BY <2>1 DEF Goto, Untouched
<1>4. Untouched(m, m)
  BY DEF Good, Untouched
<1>5. Untouched(m, r) /\ (r.state = m.state \/ r.state \in Below)
  BY <1>1, <1>2, <1>3, <1>4, ZenonT(30) DEF fsm_lowerdown
<1> HIDE DEF r
<1>6. (Live(r) => Live(m)) /\ (Agreed(r) => Agreed(m))
  BY <1>5 DEF Live, Agreed
<1> QED
  BY <1>5, <1>6, UntouchedDoes, Zenon DEF r

LEMMA lowerupDoes ==
    ASSUME NEW m, Good(m), Rests(m)
    PROVE  Does(m, fsm_lowerup(m)) /\ NoAck(m, fsm_lowerup(m))
<1>1. CASE m.state = "STARTING" /\ "SILENT" \notin m.flags
  <2>1. fsm_lowerup(m) = Goto(fsm_sconfreq(m, FALSE), "REQSENT")
    BY <1>1, Zenon DEF fsm_lowerup
  <2>2. IsMachine(m)
    BY Zenon DEF Good
  <2> QED
    BY <2>1, <2>2, AskDoes, Zenon
<1>2. CASE ~(m.state = "STARTING" /\ "SILENT" \notin m.flags)
  <2> DEFINE r == fsm_lowerup(m)
  <2>1. \A s : Untouched(m, Goto(m, s)) /\ Goto(m, s).state = s
    BY DEF Good, Goto, Untouched
  <2>2. Untouched(m, m)
    BY DEF Good, Untouched
  <2>3. Untouched(m, r) /\ (r.state = m.state \/ r.state \in {"CLOSED", "STOPPED"})
    BY <1>2, <2>1, <2>2, ZenonT(30) DEF fsm_lowerup
  <2> HIDE DEF r
  <2>4. (Live(r) => Live(m)) /\ (Agreed(r) => Agreed(m))
    BY <2>3 DEF Live, Agreed
  <2> QED
    BY <2>3, <2>4, UntouchedDoes, Zenon DEF r
<1> QED
  BY <1>1, <1>2, Zenon

(* What is done to a machine of which the request was not touched is done  *)
(* to the machine.                                                         *)
LEMMA AfterUntouched ==
    ASSUME NEW m, NEW u, NEW r, Untouched(m, u), Live(u) => Live(m), Agreed(u) => Agreed(m),
           Does(u, r), NoAck(u, r)
    PROVE  Does(m, r) /\ NoAck(m, r)
<1>1. SameRequest(u, r) => SameRequest(m, r)
  BY DEF Untouched, SameRequest
<1>2. NewRequest(u, r) => NewRequest(m, r)
  BY DEF Untouched, NewRequest, NextId
<1>3. NoAck(m, r)
  BY DEF Untouched, NoAck
<1> QED
  BY <1>1, <1>2, <1>3, Zenon DEF Does

LEMMA RestartDoes ==
    ASSUME NEW m, Good(m), Rests(m)
    PROVE  Does(m, Restart(m)) /\ NoAck(m, Restart(m))
<1> DEFINE u == fsm_lowerdown(m)
<1>1. Untouched(m, u) /\ Rests(u) /\ Good(u)
  BY lowerdownDoes, lowerdownKeeps, Zenon
<1>2. (Live(u) => Live(m)) /\ (Agreed(u) => Agreed(m))
  BY lowerdownDoes, Zenon
<1> HIDE DEF u
<1>3. Does(u, fsm_lowerup(u)) /\ NoAck(u, fsm_lowerup(u))
  BY <1>1, lowerupDoes, Zenon
<1>4. Does(m, fsm_lowerup(u)) /\ NoAck(m, fsm_lowerup(u))
  BY <1>1, <1>2, <1>3, AfterUntouched, Zenon
<1>5. Does(m, m) /\ NoAck(m, m)
  BY UntouchedDoes, Zenon DEF Good, Untouched
<1> QED
  BY <1>4, <1>5, Zenon DEF Restart, u

LEMMA openDoes ==
    ASSUME NEW m, Good(m), Rests(m)
    PROVE  Does(m, fsm_open(m)) /\ NoAck(m, fsm_open(m))
<1>1. CASE m.state = "CLOSED" /\ "SILENT" \notin m.flags
  <2>1. fsm_open(m) = Goto(fsm_sconfreq(m, FALSE), "REQSENT")
    BY <1>1, Zenon DEF fsm_open
  <2>2. IsMachine(m)
    BY Zenon DEF Good
  <2> QED
    BY <2>1, <2>2, AskDoes, Zenon
<1>2. CASE m.state = "CLOSING"
  <2> DEFINE u == Goto(m, "STOPPING")
  <2>1. Untouched(m, u) /\ Good(u) /\ u.state = "STOPPING"
    BY <1>2 DEF Good, Goto, Untouched
  <2>2. fsm_open(m) = Restart(u)
    BY <1>2 DEF fsm_open
  <2> HIDE DEF u
  <2>3. ~Live(u) /\ ~Agreed(u)
    BY <2>1 DEF Live, Agreed
  <2>4. Rests(u)
    BY <2>1, <2>3, UntouchedDoes, Zenon
  <2>5. Does(u, Restart(u)) /\ NoAck(u, Restart(u))
    BY <2>1, <2>4, RestartDoes, Zenon
  <2> QED
    BY <2>1, <2>2, <2>3, <2>5, AfterUntouched, Zenon
<1>3. CASE m.state \in {"STOPPED", "OPENED"}
  BY <1>3, RestartDoes, Zenon DEF fsm_open
<1>4. CASE /\ m.state \notin {"CLOSING", "STOPPED", "OPENED"}
           /\ ~(m.state = "CLOSED" /\ "SILENT" \notin m.flags)
  <2> DEFINE r == fsm_open(m)
  <2>1. \A s : Untouched(m, Goto(m, s)) /\ Goto(m, s).state = s
    BY DEF Good, Goto, Untouched
  <2>2. Untouched(m, m)
    BY DEF Good, Untouched
  <2>3. Untouched(m, r) /\ (r.state = m.state \/ r.state \in {"STARTING", "STOPPED"})
    BY <1>4, <2>1, <2>2, ZenonT(30) DEF fsm_open
  <2> HIDE DEF r
  <2>4. (Live(r) => Live(m)) /\ (Agreed(r) => Agreed(m))
    BY <2>3 DEF Live, Agreed
  <2> QED
    BY <2>3, <2>4, UntouchedDoes, Zenon DEF r
<1> QED
  BY <1>1, <1>2, <1>3, <1>4, Zenon

(* A Terminate-Request takes the identifier of the last request.           *)
LEMMA TermReqDoes ==
    ASSUME NEW m, NEW u, Untouched(m, u), Rests(m)
    PROVE  LET r == TermReq(u) IN
             /\ Sound(r) /\ NoAck(m, r) /\ r.reqid = NextId(m) /\ r.id = NextId(m)
             /\ r.state = u.state
<1> DEFINE b == [u EXCEPT !.id = NextId(u), !.reqid = NextId(u)]
<1>1. NextId(u) = NextId(m) /\ NextId(m) \in 0 .. Ids - 1
  BY AnotherId DEF Untouched, NextId, Rests
<1>2. /\ IsMachine(b) /\ Rests(b) /\ b.his = m.his /\ b.state = u.state
      /\ b.reqid = NextId(m) /\ b.id = NextId(m)
  BY <1>1 DEF Untouched, Rests
<1>3. NextId(u) \in Int
  BY <1>1, IdsAssumption
<1>4. TermReq(u) = fsm_sdata(b, "TERMREQ", NextId(u), "none")
  BY DEF TermReq
<1> HIDE DEF b
<1> QED
  BY <1>2, <1>3, <1>4, TermDoes

LEMMA terminateDoes ==
    ASSUME NEW m, Good(m), Rests(m), m.state \in Negotiating \cup {"OPENED"},
           NEW next \in {"CLOSING", "STOPPING"}
    PROVE  LET r == terminate_layer(m, next) IN Does(m, r) /\ NoAck(m, r)
<1> DEFINE b == [Quiet(m) EXCEPT !.retransmits = MaxTermReqs]
           a == TermReq(b)
<1>1. Untouched(m, Quiet(m))
  <2>1. CASE m.state = "OPENED"
    <3>1. IsMachine(Down(m))
      BY <2>1, UpDown, Zenon DEF Good
    <3> QED
      BY <2>1, <3>1 DEF Good, Quiet, Down, Untouched
  <2>2. CASE m.state # "OPENED"
    BY <2>2 DEF Good, Quiet, UNTIMEOUT, Untouched
  <2> QED
    BY <2>1, <2>2, Zenon
<1>2. Untouched(m, b)
  BY <1>1 DEF Untouched
<1>3. Sound(a) /\ NoAck(m, a) /\ a.reqid = NextId(m) /\ a.id = NextId(m)
  <2> HIDE DEF b
  <2> QED
    BY <1>2, TermReqDoes, Zenon
<1>4. terminate_layer(m, next) =
        IF MaxTermReqs = 0
        THEN Goto(a, IF next = "CLOSING" THEN "CLOSED" ELSE "STOPPED")
        ELSE Goto(TIMEOUT([a EXCEPT !.retransmits = @ - 1]), next)
  BY DEF terminate_layer
<1> HIDE DEF a
<1>5. \A s \in {"CLOSED", "STOPPED"} :
         Does(m, Goto(a, s)) /\ NoAck(m, Goto(a, s))
  <2> SUFFICES ASSUME NEW s \in {"CLOSED", "STOPPED"}
               PROVE  Does(m, Goto(a, s)) /\ NoAck(m, Goto(a, s))
    BY Zenon
  <2>1. /\ Sound(Goto(a, s)) /\ NoAck(m, Goto(a, s))
        /\ Goto(a, s).reqid = NextId(m) /\ Goto(a, s).id = NextId(m)
        /\ Goto(a, s).state = s
    BY <1>3, GotoDoes
  <2> QED
    BY <2>1 DEF Does, NewRequest, Agreed
<1>6. LET r == Goto(TIMEOUT([a EXCEPT !.retransmits = @ - 1]), next)
      IN  Does(m, r) /\ NoAck(m, r)
  <2> DEFINE t == TIMEOUT([a EXCEPT !.retransmits = @ - 1])
  <2>1. Sound(t) /\ NoAck(m, t) /\ t.reqid = NextId(m) /\ t.id = NextId(m)
    BY <1>3, Zenon DEF Sound, NoAck, TIMEOUT
  <2> HIDE DEF t
  <2>2. /\ Sound(Goto(t, next)) /\ NoAck(m, Goto(t, next))
        /\ Goto(t, next).reqid = NextId(m) /\ Goto(t, next).id = NextId(m)
        /\ Goto(t, next).state = next
    BY <2>1, GotoDoes
  <2>3. Does(m, Goto(t, next))
    BY <2>2 DEF Does, NewRequest, Agreed
  <2> QED
    BY <2>2, <2>3, Zenon DEF t
<1> QED
  BY <1>4, <1>5, <1>6, Zenon

LEMMA closeDoes ==
    ASSUME NEW m, Good(m), Rests(m)
    PROVE  Does(m, fsm_close(m)) /\ NoAck(m, fsm_close(m))
<1>1. CASE m.state \in Negotiating \cup {"OPENED"}
  <2>1. fsm_close(m) = terminate_layer(m, "CLOSING")
    BY <1>1 DEF fsm_close
  <2> QED
    BY <1>1, <2>1, terminateDoes
<1>2. CASE m.state \notin Negotiating \cup {"OPENED"}
  <2> DEFINE r == fsm_close(m)
  <2>1. \A s : Untouched(m, Goto(m, s)) /\ Goto(m, s).state = s
    BY DEF Good, Goto, Untouched
  <2>2. Untouched(m, m)
    BY DEF Good, Untouched
  <2>3. Untouched(m, r) /\ (r.state = m.state \/ r.state \in {"INITIAL", "CLOSED", "CLOSING"})
    BY <1>2, <2>1, <2>2, ZenonT(30) DEF fsm_close
  <2> HIDE DEF r
  <2>4. (Live(r) => Live(m)) /\ (Agreed(r) => Agreed(m))
    BY <2>3 DEF Live, Agreed
  <2> QED
    BY <2>3, <2>4, UntouchedDoes, Zenon DEF r
<1> QED
  BY <1>1, <1>2, Zenon

LEMMA protrejectDoes ==
    ASSUME NEW m, Good(m), Rests(m)
    PROVE  Does(m, fsm_protreject(m)) /\ NoAck(m, fsm_protreject(m))
<1>1. CASE m.state = "OPENED"
  <2>1. fsm_protreject(m) = terminate_layer(m, "STOPPING")
    BY <1>1 DEF fsm_protreject
  <2> QED
    BY <1>1, <2>1, terminateDoes
<1>2. CASE m.state # "OPENED"
  <2> DEFINE r == fsm_protreject(m)
  <2>1. \A s : Untouched(m, UNTIMEOUT(Goto(m, s))) /\ UNTIMEOUT(Goto(m, s)).state = s
    BY DEF Good, Goto, UNTIMEOUT, Untouched
  <2>2. Untouched(m, m)
    BY DEF Good, Untouched
  <2>3. Untouched(m, r) /\ (r.state = m.state \/ r.state \in {"STOPPED", "CLOSED"})
    BY <1>2, <2>1, <2>2, ZenonT(30) DEF fsm_protreject
  <2> HIDE DEF r
  <2>4. (Live(r) => Live(m)) /\ (Agreed(r) => Agreed(m))
    BY <2>3 DEF Live, Agreed
  <2> QED
    BY <2>3, <2>4, UntouchedDoes, Zenon DEF r
<1> QED
  BY <1>1, <1>2, Zenon

LEMMA timeoutDoes ==
    ASSUME NEW m, Good(m), Rests(m), m.state \in Timed
    PROVE  LET r == fsm_timeout(UNTIMEOUT(m)) IN Does(m, r) /\ NoAck(m, r)
<1> DEFINE u == UNTIMEOUT(m)
           r == fsm_timeout(u)
<1>1. Untouched(m, u) /\ u.state = m.state
  BY DEF Good, UNTIMEOUT, Untouched
<1> HIDE DEF u
<1>1a. Rests(u) /\ IsMachine(u)
  BY <1>1 DEF Untouched, Rests
<1>1b. \A s : Untouched(m, Goto(u, s)) /\ Goto(u, s).state = s
  BY <1>1 DEF Goto, Untouched
<1>2. CASE u.retransmits <= 0
  <2>1. Untouched(m, r) /\ r.state \in {"STOPPED", "CLOSED"}
    BY <1>1, <1>1b, <1>2, ZenonT(30) DEF fsm_timeout
  <2> HIDE DEF r
  <2>2. ~Live(r) /\ ~Agreed(r)
    BY <2>1 DEF Live, Agreed
  <2> QED
    BY <2>1, <2>2, UntouchedDoes, Zenon DEF r, u
<1>3. CASE u.state \in {"CLOSING", "STOPPING"} /\ ~(u.retransmits <= 0)
  <2> DEFINE t == TermReq(u)
  <2>1. /\ Sound(t) /\ NoAck(m, t) /\ t.reqid = NextId(m) /\ t.id = NextId(m)
        /\ t.state = u.state
    BY <1>1, TermReqDoes, Zenon
  <2>2. r = TIMEOUT([t EXCEPT !.retransmits = @ - 1])
    BY <1>3, Zenon DEF fsm_timeout
  <2> HIDE DEF t, r
  <2>3. /\ Sound(r) /\ NoAck(m, r) /\ r.reqid = NextId(m) /\ r.id = NextId(m)
        /\ r.state = u.state
    BY <2>1, <2>2, ZenonT(30) DEF Sound, NoAck, TIMEOUT
  <2>4. Does(m, r)
    BY <1>3, <2>3 DEF Does, NewRequest, Agreed
  <2> QED
    BY <2>3, <2>4, Zenon DEF r, u
<1>4. CASE u.state \in Negotiating /\ ~(u.retransmits <= 0)
  <2> DEFINE a == fsm_sconfreq(u, TRUE)
  <2>1. /\ Sound(a) /\ NoAck(u, a) /\ a.state = u.state /\ a.reqid = u.reqid
        /\ a.want = u.want
    BY <1>1a, <1>4, RequestDoes, Zenon
  <2>2. r = IF a.state = "ACKRCVD" THEN Goto(a, "REQSENT") ELSE a
    BY <1>4 DEF fsm_timeout
  <2> HIDE DEF a
  <2>3. /\ Sound(Goto(a, "REQSENT")) /\ NoAck(u, Goto(a, "REQSENT"))
        /\ Goto(a, "REQSENT").state = "REQSENT"
        /\ Goto(a, "REQSENT").reqid = u.reqid /\ Goto(a, "REQSENT").want = u.want
    BY <2>1, GotoDoes
  <2>4. /\ Sound(r) /\ NoAck(u, r) /\ r.reqid = u.reqid /\ r.want = u.want
        /\ r.state = "REQSENT" \/ r.state = u.state
    BY <2>1, <2>2, <2>3, Zenon
  <2> HIDE DEF r
  <2>5. NoAck(m, r) /\ SameRequest(m, r) /\ (Agreed(r) => Agreed(m))
    BY <1>1, <1>4, <2>4 DEF NoAck, SameRequest, Live, Agreed, Untouched
  <2> QED
    BY <2>4, <2>5, Zenon DEF Does, r, u
<1> QED
  BY <1>1, <1>2, <1>3, <1>4, Zenon

-----------------------------------------------------------------------------
(* The messages.                                                           *)

LEMMA ReopenDoes ==
    ASSUME NEW m, NEW w, Good(w), w.state = "OPENED", Rests(w),
           w.id = m.id, w.his = m.his
    PROVE  Does(m, Reopen(w)) /\ NoAck(m, Reopen(w)) /\ Reopen(w).state = "REQSENT"
<1>1. IsMachine(Down(w))
  BY UpDown, Zenon DEF Good
<1>2. Rests(Down(w)) /\ Down(w).id = m.id /\ Down(w).his = m.his
  BY DEF Good, Rests, Down
<1> QED
  BY <1>1, <1>2, AskDoes, Zenon DEF Reopen

(* The answer to a request for o: an acknowledgement bears its identifier  *)
(* and goes with keeping o.                                                *)
Acks(m, r, id, o) ==
    \/ NoAck(m, r)
    \/ r.his = o /\ \A i \in DOMAIN r.out : r.out[i].code = "CONFACK" => r.out[i].id = id

LEMMA OpenedDoes ==
    ASSUME NEW m, Good(m), m.state # "OPENED", Sound(m)
    PROVE  LET r == Opened(m) IN
             /\ Sound(r) /\ r.out = m.out /\ r.his = m.his /\ r.state = "OPENED"
             /\ r.id = m.id /\ r.reqid = m.reqid /\ r.want = m.want
<1>1. IsMachine(Opened(m))
  BY OpenedKeeps, Zenon DEF Good
<1>2. LET r == Opened(m) IN
         /\ r.out = m.out /\ r.his = m.his /\ r.state = "OPENED" /\ r.id = m.id
         /\ r.reqid = m.reqid /\ r.want = m.want
  BY DEF Opened, Up, Goto, UNTIMEOUT, Good
<1> QED
  BY <1>1, <1>2, Zenon DEF Sound

LEMMA AnswerDoes ==
    ASSUME NEW m, NEW u, Good(u), u.state \in Negotiating, Does(m, u), NoAck(m, u),
           NEW id \in Int, NEW o \in Options
    PROVE  Does(m, Answer(u, id, o)) /\ Acks(m, Answer(u, id, o), id, o)
<1> DEFINE code == reqci(u, o, u.nakloops >= MaxNakLoops)
           msg == [code |-> code, id |-> id, opt |-> IF code = "CONFNAK" THEN "less" ELSE o]
           a == fsm_sdata(u, code, id, IF code = "CONFNAK" THEN "less" ELSE o)
           b == [a EXCEPT !.nakloops = 0, !.his = o]
           c == [a EXCEPT !.nakloops = IF code = "CONFNAK" THEN @ + 1 ELSE @]
           r == Answer(u, id, o)
<1>1. code \in {"CONFACK", "CONFREJ", "CONFNAK"}
  BY Zenon DEF reqci
<1>2. Good(a) /\ a.state = u.state
  BY sdataKeeps, Zenon
<1>3. /\ a.out = Append(u.out, msg) /\ a.id = u.id /\ a.reqid = u.reqid
      /\ a.want = u.want /\ a.his = u.his
  BY DEF Good, fsm_sdata
<1>4. r = CASE code = "CONFACK" /\ u.state = "ACKRCVD" -> Opened(b)
            [] code = "CONFACK" /\ u.state # "ACKRCVD" -> Goto(b, "ACKSENT")
            [] OTHER -> Goto(c, IF u.state = "ACKRCVD" THEN "ACKRCVD" ELSE "REQSENT")
  BY DEF Answer
<1> HIDE DEF code, a, r
<1>5. msg \in Message /\ msg.code = code /\ msg.id = id
  BY <1>1 DEF Message, Codes, Options
<1> HIDE DEF msg
<1>6. /\ Append(u.out, msg) \in Seq(Message)
      /\ \A i \in DOMAIN Append(u.out, msg) :
            \/ i \in DOMAIN u.out /\ Append(u.out, msg)[i] = u.out[i]
            \/ Append(u.out, msg)[i] = msg
  BY <1>5 DEF Does, Sound
<1>7. /\ Sound(a)
      /\ \A i \in DOMAIN a.out : a.out[i].code = "CONFACK" => a.out[i] = msg
  <2>1. /\ IsMachine(a) /\ a.out \in Seq(Message) /\ a.want \in Options
        /\ a.id \in 0 .. Ids - 1 /\ a.reqid \in 0 .. Ids - 1
    BY <1>2, <1>3, <1>6, Zenon DEF Good, Does, Sound
  <2>2. \A i \in DOMAIN a.out :
          \/ i \in DOMAIN u.out /\ a.out[i] = u.out[i]
          \/ a.out[i] = msg
    BY <1>3, <1>6, Zenon
  <2>3. \A i \in DOMAIN u.out :
          /\ u.out[i].code = "CONFREQ" => u.out[i].id = a.reqid /\ u.out[i].opt = a.want
          /\ u.out[i].code # "CONFACK"
    BY <1>3, Zenon DEF Does, Sound, NoAck
  <2>4. msg.code # "CONFREQ"
    BY <1>1, <1>5
  <2> QED
    BY <2>1, <2>2, <2>3, <2>4, Zenon DEF Sound
<1>8. /\ Good(b) /\ Sound(b) /\ b.state = u.state /\ b.his = o
      /\ b.out = a.out /\ b.id = u.id /\ b.reqid = u.reqid /\ b.want = u.want
  BY <1>2, <1>3, <1>7, SMTT(30) DEF Good, Sound
<1>9. /\ Good(c) /\ Sound(c) /\ c.state = u.state /\ c.his = m.his
      /\ c.out = a.out /\ c.id = u.id /\ c.reqid = u.reqid /\ c.want = u.want
  BY <1>2, <1>3, <1>7 DEF Good, Sound, NoAck
<1> HIDE DEF b, c
<1>10. /\ Sound(r) /\ r.id = u.id /\ r.reqid = u.reqid /\ r.want = u.want
       /\ r.state \in Negotiating \cup {"OPENED"}
       /\ r.state \in {"ACKRCVD", "OPENED"} => u.state = "ACKRCVD"
       /\ Acks(m, r, id, o)
  <2>1. CASE code = "CONFACK" /\ u.state = "ACKRCVD"
    <3>1. r = Opened(b)
      BY <1>4, <2>1
    <3>2. /\ Sound(r) /\ r.out = a.out /\ r.his = o /\ r.state = "OPENED"
          /\ r.id = u.id /\ r.reqid = u.reqid /\ r.want = u.want
      BY <1>8, <2>1, <3>1, OpenedDoes
    <3> QED
      BY <1>5, <1>7, <2>1, <3>2, Zenon DEF Acks
  <2>2. CASE code = "CONFACK" /\ u.state # "ACKRCVD"
    <3>1. r = Goto(b, "ACKSENT")
      BY <1>4, <2>2
    <3>2. /\ Sound(r) /\ r.out = a.out /\ r.his = o /\ r.state = "ACKSENT"
          /\ r.id = u.id /\ r.reqid = u.reqid /\ r.want = u.want
      BY <1>8, <3>1, Zenon DEF Goto, Sound
    <3> QED
      BY <1>5, <1>7, <2>2, <3>2, Zenon DEF Acks
  <2>3. CASE code # "CONFACK"
    <3> DEFINE s == IF u.state = "ACKRCVD" THEN "ACKRCVD" ELSE "REQSENT"
    <3>1. r = Goto(c, s)
      BY <1>4, <2>3
    <3> HIDE DEF s
    <3>2. /\ Sound(r) /\ r.out = a.out /\ r.his = m.his /\ r.state = s
          /\ r.id = u.id /\ r.reqid = u.reqid /\ r.want = u.want
      BY <1>9, <3>1, Zenon DEF Goto, Sound
    <3>3. NoAck(m, r)
      BY <1>5, <1>7, <2>3, <3>2, Zenon DEF NoAck
    <3> QED
      BY <3>2, <3>3, Zenon DEF Acks, s
  <2> QED
    BY <2>1, <2>2, <2>3, Zenon
<1>11. Does(m, r)
  <2>1. CASE SameRequest(m, u) /\ (Agreed(u) => Agreed(m))
    BY <1>10, <2>1 DEF Does, SameRequest, Live, Agreed
  <2>2. CASE NewRequest(m, u)
    BY <1>10, <2>2 DEF Does, NewRequest, Agreed
  <2> QED
    BY <2>1, <2>2, Zenon DEF Does
<1> QED
  BY <1>10, <1>11, Zenon DEF r

LEMMA rconfreqDoes ==
    ASSUME NEW m, Good(m), Rests(m), m.state \notin Below, NEW id \in Int, NEW o \in Options
    PROVE  Does(m, fsm_rconfreq(m, id, o)) /\ Acks(m, fsm_rconfreq(m, id, o), id, o)
<1>0. IsMachine(m) /\ Does(m, m) /\ NoAck(m, m)
  BY UntouchedDoes, Zenon DEF Good, Untouched
<1>1. CASE m.state = "CLOSED"
  <2> DEFINE r == fsm_sdata(m, "TERMACK", id, "none")
  <2>1. /\ Sound(r) /\ NoAck(m, r) /\ r.state = m.state
        /\ r.want = m.want /\ r.reqid = m.reqid
    BY <1>0, TermDoes
  <2>2. fsm_rconfreq(m, id, o) = r
    BY <1>1 DEF fsm_rconfreq
  <2> HIDE DEF r
  <2>3. Does(m, r) /\ Acks(m, r, id, o)
    BY <2>1, Zenon DEF Does, SameRequest, Live, Agreed, Acks
  <2> QED
    BY <2>2, <2>3, Zenon
<1>2. CASE m.state \in {"CLOSING", "STOPPING"}
  BY <1>0, <1>2, Zenon DEF fsm_rconfreq, Acks
<1>3. CASE m.state = "OPENED"
  <2>1. /\ Does(m, Reopen(m)) /\ NoAck(m, Reopen(m)) /\ Good(Reopen(m))
        /\ Reopen(m).state \in Negotiating
    BY <1>3, ReopenDoes, ReopenKeeps
  <2>2. fsm_rconfreq(m, id, o) = Answer(Reopen(m), id, o)
    BY <1>3 DEF fsm_rconfreq
  <2> QED
    BY <2>1, <2>2, AnswerDoes, Zenon
<1>4. CASE m.state = "STOPPED"
  <2> DEFINE u == Goto(fsm_sconfreq(m, FALSE), "REQSENT")
  <2>1. Does(m, u) /\ NoAck(m, u) /\ u.state = "REQSENT"
    BY <1>0, AskDoes, Zenon
  <2>2. Good(u)
    BY <1>4, Asks, Zenon DEF Good
  <2>3. fsm_rconfreq(m, id, o) = Answer(u, id, o)
    BY <1>4, Zenon DEF fsm_rconfreq
  <2> HIDE DEF u
  <2> QED
    BY <2>1, <2>2, <2>3, AnswerDoes, Zenon
<1>5. CASE m.state \in Negotiating
  <2>1. fsm_rconfreq(m, id, o) = Answer(m, id, o)
    BY <1>5, Zenon DEF fsm_rconfreq
  <2> QED
    BY <1>0, <1>5, <2>1, AnswerDoes
<1> QED
  BY <1>1, <1>2, <1>3, <1>4, <1>5, Zenon DEF Good

(* An acknowledgement of the last request is what makes it agreed.         *)
DoesIfAcked(m, r, id) ==
    /\ Sound(r)
    /\ \/ SameRequest(m, r) /\ (Agreed(r) => Agreed(m) \/ id = m.reqid)
       \/ NewRequest(m, r)

LEMMA rconfackDoes ==
    ASSUME NEW m, Good(m), Rests(m), NEW id \in Int, NEW o
    PROVE  LET r == fsm_rconfack(m, id, o) IN DoesIfAcked(m, r, id) /\ NoAck(m, r)
<1> DEFINE a == [m EXCEPT !.seen_ack = TRUE, !.rnakloops = 0]
           b == [a EXCEPT !.retransmits = MaxConfReqs]
           r == fsm_rconfack(m, id, o)
<1> SUFFICES DoesIfAcked(m, r, id) /\ NoAck(m, r)
  BY Zenon
<1>0. \A x : Does(m, x) => DoesIfAcked(m, x, id)
  BY Zenon DEF Does, DoesIfAcked
<1>1. /\ Good(a) /\ a.state = m.state /\ Untouched(m, a)
      /\ Good(b) /\ b.state = m.state /\ Untouched(m, b)
  BY DEF Good, Untouched
<1>2. CASE ~Acked(m, id, o)
  <2>1. r = m
    BY <1>2, Zenon DEF fsm_rconfack
  <2>2. Does(m, m) /\ NoAck(m, m)
    BY UntouchedDoes, Zenon DEF Good, Untouched
  <2> QED
    BY <1>0, <2>1, <2>2, Zenon
<1>3. CASE Acked(m, id, o)
  <2>1. r =
        CASE m.state \in {"CLOSED", "STOPPED"} -> fsm_sdata(a, "TERMACK", id, "none")
          [] m.state = "REQSENT" -> Goto(b, "ACKRCVD")
          [] m.state = "ACKRCVD" -> Goto(fsm_sconfreq(UNTIMEOUT(a), FALSE), "REQSENT")
          [] m.state = "ACKSENT" -> Opened(b)
          [] m.state = "OPENED" -> Reopen(a)
          [] OTHER -> a
    BY <1>3 DEF fsm_rconfack
  <2>2. id = m.reqid
    BY <1>3, Zenon DEF Acked, Expected
  <2> HIDE DEF a, b, r
  <2>3. Rests(a) /\ a.id = m.id /\ a.his = m.his /\ IsMachine(a) /\ Sound(b)
    BY <1>1, UntouchedDoes, Zenon DEF Untouched, Does, Live, Agreed
  <2>4. CASE m.state \in {"CLOSED", "STOPPED"}
    <3>1. r = fsm_sdata(a, "TERMACK", id, "none")
      BY <2>1, <2>4, Zenon
    <3>2. /\ Sound(r) /\ NoAck(m, r)
          /\ r.state = m.state /\ r.reqid = m.reqid
      BY <1>1, <2>3, <3>1, TermDoes DEF Untouched
    <3> QED
      BY <2>4, <3>2 DEF DoesIfAcked, SameRequest, Live, Agreed
  <2>5. CASE m.state = "REQSENT"
    <3>1. r = Goto(b, "ACKRCVD")
      BY <2>1, <2>5
    <3>2. /\ Sound(r) /\ r.reqid = m.reqid /\ r.want = m.want
          /\ r.his = m.his /\ r.out = <<>> 
      BY <1>1, <2>3, <3>1, ZenonT(30) DEF Goto, Untouched, Sound, Rests
    <3>3. DOMAIN r.out = {}
      BY <3>2
    <3> QED
      BY <2>2, <2>5, <3>2, <3>3 DEF DoesIfAcked, SameRequest, Live, Agreed, NoAck
  <2>6. CASE m.state = "ACKRCVD"
    <3> DEFINE u == UNTIMEOUT(a)
    <3>1. r = Goto(fsm_sconfreq(u, FALSE), "REQSENT")
      BY <2>1, <2>6
    <3>2. IsMachine(u) /\ Rests(u) /\ u.id = m.id /\ u.his = m.his
      BY <2>3 DEF UNTIMEOUT, Rests
    <3> HIDE DEF u
    <3>3. Does(m, r) /\ NoAck(m, r)
      BY <3>1, <3>2, AskDoes, Zenon
    <3> QED
      BY <1>0, <3>3, Zenon
  <2>7. CASE m.state = "ACKSENT"
    <3>1. r = Opened(b)
      BY <2>1, <2>7
    <3>2. /\ Sound(r) /\ r.reqid = m.reqid /\ r.want = m.want
          /\ r.his = m.his /\ r.out = <<>> 
      BY <1>1, <2>3, <2>7, <3>1, OpenedDoes DEF Untouched, Rests
    <3>3. DOMAIN r.out = {}
      BY <3>2
    <3> QED
      BY <2>2, <2>7, <3>2, <3>3 DEF DoesIfAcked, SameRequest, Live, Agreed, NoAck
  <2>8. CASE m.state = "OPENED"
    <3>1. r = Reopen(a)
      BY <2>1, <2>8
    <3>2. Does(m, r) /\ NoAck(m, r)
      BY <1>1, <2>3, <2>8, <3>1, ReopenDoes, Zenon
    <3> QED
      BY <1>0, <3>2, Zenon
  <2>9. CASE m.state \notin Negotiating \cup {"CLOSED", "STOPPED", "OPENED"}
    <3>1. r = a
      BY <2>1, <2>9, Zenon
    <3>2. Does(m, r) /\ NoAck(m, r)
      BY <1>1, <3>1, UntouchedDoes, Zenon DEF Live, Agreed
    <3> QED
      BY <1>0, <3>2, Zenon
  <2> QED
    BY <2>4, <2>5, <2>6, <2>7, <2>8, <2>9, Zenon DEF r
<1> QED
  BY <1>2, <1>3, Zenon

LEMMA rconfnakrejDoes ==
    ASSUME NEW m, Good(m), Rests(m), NEW code, NEW id \in Int, NEW ret
    PROVE  LET r == fsm_rconfnakrej(m, code, id, ret) IN Does(m, r) /\ NoAck(m, r)
<1> DEFINE n == [m EXCEPT !.rnakloops = IF code = "CONFNAK" THEN @ + 1 ELSE 0]
           a == [n EXCEPT !.seen_ack = TRUE, !.want = Wanted(m, code, ret)]
           u == UNTIMEOUT(a)
           r == fsm_rconfnakrej(m, code, id, ret)
<1> SUFFICES Does(m, r) /\ NoAck(m, r)
  BY Zenon
<1>0. Wanted(m, code, ret) \in Options
  BY Zenon DEF Wanted, Options, Rests
<1>1. /\ Good(a) /\ a.state = m.state /\ Rests(a) /\ IsMachine(a)
      /\ a.id = m.id /\ a.reqid = m.reqid /\ a.his = m.his
  BY <1>0 DEF Good, Rests
<1>2. CASE ~Expected(m, id)
  <2>1. r = m
    BY <1>2, Zenon DEF fsm_rconfnakrej
  <2> QED
    BY <2>1, UntouchedDoes, Zenon DEF Good, Untouched
<1>2a. CASE Expected(m, id) /\ ret = 0
  <2>1. r = n
    BY <1>2a, Zenon DEF fsm_rconfnakrej
  <2>2. Untouched(m, n) /\ n.state = m.state
    BY DEF Good, Untouched
  <2> HIDE DEF n
  <2>3. Does(m, n) /\ NoAck(m, n)
    BY <2>2, UntouchedDoes, Zenon DEF Live, Agreed
  <2> QED
    BY <2>1, <2>3, Zenon
<1>3. CASE Expected(m, id) /\ ~(ret = 0)
  <2>1. r =
        CASE m.state \in {"CLOSED", "STOPPED"} -> fsm_sdata(a, "TERMACK", id, "none")
          [] m.state \in {"REQSENT", "ACKSENT"} ->
                IF ret < 0 THEN Goto(u, "STOPPED") ELSE fsm_sconfreq(u, FALSE)
          [] m.state = "ACKRCVD" -> Goto(fsm_sconfreq(u, FALSE), "REQSENT")
          [] m.state = "OPENED" -> Reopen(a)
          [] OTHER -> a
    BY <1>3 DEF fsm_rconfnakrej
  <2> HIDE DEF a, r
  <2>3. /\ IsMachine(u) /\ Rests(u) /\ u.id = m.id /\ u.his = m.his /\ u.state = m.state
        /\ u.reqid = m.reqid
    BY <1>1 DEF UNTIMEOUT, Rests
  <2> HIDE DEF u
  <2>4. CASE m.state \in {"CLOSED", "STOPPED"}
    <3>1. r = fsm_sdata(a, "TERMACK", id, "none")
      BY <2>1, <2>4, Zenon
    <3>2. /\ Sound(r) /\ NoAck(m, r)
          /\ r.state = m.state /\ r.reqid = m.reqid
      BY <1>1, <3>1, TermDoes DEF Rests
    <3> QED
      BY <2>4, <3>2 DEF Does, SameRequest, Live, Agreed
  <2>4a. CASE m.state \in {"REQSENT", "ACKSENT"} /\ ret < 0
    <3>1. r = Goto(u, "STOPPED")
      BY <2>1, <2>4a, Zenon
    <3>2. /\ IsMachine(r) /\ Rests(r) /\ r.state = "STOPPED" /\ r.his = m.his
          /\ r.reqid = m.reqid
      BY <2>3, <3>1 DEF Goto, Rests
    <3>3. r.out = <<>>
      BY <3>2, Zenon DEF Rests
    <3>4. DOMAIN r.out = {} /\ r.out \in Seq(Message)
      BY <3>3
    <3>5. Sound(r) /\ NoAck(m, r)
      BY <3>2, <3>4, Zenon DEF Sound, NoAck, Rests
    <3> QED
      BY <3>2, <3>5 DEF Does, SameRequest, Live, Agreed
  <2>5. CASE m.state \in {"REQSENT", "ACKSENT"} /\ ~(ret < 0)
    <3>1. r = fsm_sconfreq(u, FALSE)
      BY <2>1, <2>5, Zenon
    <3>2. /\ Sound(r) /\ NoAck(u, r) /\ r.state = u.state
          /\ r.reqid = NextId(u) /\ r.id = NextId(u)
      BY <2>3, <3>1, RequestDoes, Zenon
    <3>3. /\ NoAck(m, r) /\ r.reqid = NextId(m) /\ r.id = NextId(m)
          /\ r.state \in {"REQSENT", "ACKSENT"}
      BY <2>3, <2>5, <3>2 DEF NoAck, NextId
    <3> QED
      BY <3>2, <3>3 DEF Does, NewRequest, Agreed
  <2>6. CASE m.state = "ACKRCVD"
    <3>1. r = Goto(fsm_sconfreq(u, FALSE), "REQSENT")
      BY <2>1, <2>6
    <3> QED
      BY <2>3, <3>1, AskDoes, Zenon
  <2>8. CASE m.state = "OPENED"
    <3>1. r = Reopen(a)
      BY <2>1, <2>8
    <3> QED
      BY <1>1, <2>8, <3>1, ReopenDoes, Zenon
  <2>9. CASE m.state \notin Negotiating \cup {"CLOSED", "STOPPED", "OPENED"}
    <3>1. r = a
      BY <2>1, <2>9, Zenon
    <3>2. r.out = <<>> /\ r.reqid = m.reqid
      BY <1>1, <3>1, Zenon DEF Rests
    <3>2a. DOMAIN r.out = {} /\ r.out \in Seq(Message)
      BY <3>2
    <3>3. Sound(r) /\ NoAck(m, r)
      BY <1>1, <3>1, <3>2a, Zenon DEF Sound, NoAck, Rests
    <3> QED
      BY <1>1, <2>9, <3>1, <3>2, <3>3 DEF Does, SameRequest, Live, Agreed
  <2> QED
    BY <2>4, <2>4a, <2>5, <2>6, <2>8, <2>9, Zenon DEF r
<1> QED
  BY <1>2, <1>2a, <1>3, Zenon

LEMMA rtermreqDoes ==
    ASSUME NEW m, Good(m), Rests(m), NEW id \in Int
    PROVE  LET r == fsm_rtermreq(m, id) IN Does(m, r) /\ NoAck(m, r)
<1> DEFINE g == Goto([m EXCEPT !.retransmits = 0], "STOPPING")
           a == CASE m.state \in {"ACKRCVD", "ACKSENT"} -> Goto(m, "REQSENT")
                  [] m.state = "OPENED" -> TIMEOUT(Down(g))
                  [] OTHER -> m
           r == fsm_rtermreq(m, id)
<1>1. r = fsm_sdata(a, "TERMACK", id, "none")
  BY DEF fsm_rtermreq
<1>2. /\ Untouched(m, a)
      /\ \/ a.state = "REQSENT" /\ Live(m)
         \/ a.state = "STOPPING"
         \/ a.state = m.state
  <2>1. CASE m.state = "OPENED"
    <3>1. Untouched(m, g) /\ g.odd = FALSE /\ g.up = TRUE /\ g.state = "STOPPING"
      BY <2>1 DEF Good, Goto, Untouched
    <3> HIDE DEF g
    <3>2. IsMachine(Down(g))
      BY <3>1, UpDown, Zenon DEF Untouched
    <3>3. Untouched(m, Down(g)) /\ Down(g).state = "STOPPING"
      BY <3>1, <3>2 DEF Untouched, Down
    <3>4. Untouched(m, TIMEOUT(Down(g))) /\ TIMEOUT(Down(g)).state = "STOPPING"
      BY <3>3 DEF Untouched, TIMEOUT
    <3>5. a = TIMEOUT(Down(g))
      BY <2>1
    <3> QED
      BY <3>4, <3>5, Zenon
  <2>2. CASE m.state # "OPENED"
    BY <2>2 DEF Good, Goto, Untouched, Live
  <2> QED
    BY <2>1, <2>2, Zenon
<1> HIDE DEF a, r
<1>3. IsMachine(a) /\ Rests(a) /\ a.his = m.his
  BY <1>2 DEF Untouched, Rests
<1>4. /\ Sound(r) /\ NoAck(m, r)
      /\ r.state = a.state /\ r.want = m.want /\ r.reqid = m.reqid
  BY <1>1, <1>2, <1>3, TermDoes DEF Untouched
<1>5. Does(m, r)
  BY <1>2, <1>4, Zenon DEF Does, SameRequest, Live, Agreed
<1> QED
  BY <1>4, <1>5, Zenon DEF r

LEMMA rtermackDoes ==
    ASSUME NEW m, Good(m), Rests(m)
    PROVE  Does(m, fsm_rtermack(m)) /\ NoAck(m, fsm_rtermack(m))
<1>1. CASE m.state = "OPENED"
  <2>1. fsm_rtermack(m) = Reopen(m)
    BY <1>1 DEF fsm_rtermack
  <2> QED
    BY <1>1, <2>1, ReopenDoes
<1>2. CASE m.state # "OPENED"
  <2> DEFINE r == fsm_rtermack(m)
  <2>1. \A s : Untouched(m, Goto(m, s)) /\ Goto(m, s).state = s
    BY DEF Good, Goto, Untouched
  <2>2. \A s : Untouched(m, Goto(UNTIMEOUT(m), s)) /\ Goto(UNTIMEOUT(m), s).state = s
    BY DEF Good, Goto, UNTIMEOUT, Untouched
  <2>3. Untouched(m, m)
    BY DEF Good, Untouched
  <2>4. /\ Untouched(m, r)
        /\ \/ r.state = m.state
           \/ r.state \in {"CLOSED", "STOPPED"}
           \/ r.state = "REQSENT" /\ m.state = "ACKRCVD"
    BY <1>2, <2>1, <2>2, <2>3, ZenonT(30) DEF fsm_rtermack
  <2> HIDE DEF r
  <2>5. (Live(r) => Live(m)) /\ (Agreed(r) => Agreed(m))
    BY <2>4 DEF Live, Agreed
  <2> QED
    BY <2>4, <2>5, UntouchedDoes, Zenon DEF r
<1> QED
  BY <1>1, <1>2, Zenon

LEMMA rcoderejDoes ==
    ASSUME NEW m, Good(m), Rests(m)
    PROVE  Does(m, fsm_rcoderej(m)) /\ NoAck(m, fsm_rcoderej(m))
<1> DEFINE r == fsm_rcoderej(m)
<1>1. /\ Untouched(m, r)
      /\ r.state = m.state \/ (r.state = "REQSENT" /\ m.state = "ACKRCVD")
  BY DEF fsm_rcoderej, Good, Goto, Untouched
<1> HIDE DEF r
<1>2. (Live(r) => Live(m)) /\ (Agreed(r) => Agreed(m))
  BY <1>1 DEF Live, Agreed
<1> QED
  BY <1>1, <1>2, UntouchedDoes, Zenon DEF r

(* A Code-Reject takes an identifier, and the request keeps its own.       *)
LEMMA CodeRejDoes ==
    ASSUME NEW m, Good(m), Rests(m)
    PROVE  Does(m, CodeRej(m)) /\ NoAck(m, CodeRej(m))
<1> DEFINE u == [m EXCEPT !.id = NextId(m)]
           r == CodeRej(m)
<1>1. NextId(m) \in 0 .. Ids - 1
  BY AnotherId DEF Rests
<1>2. NextId(m) \in Int
  BY <1>1, IdsAssumption
<1>3. /\ IsMachine(u) /\ Rests(u) /\ u.his = m.his /\ u.state = m.state
      /\ u.reqid = m.reqid /\ u.want = m.want
  BY <1>1 DEF Good, Rests
<1>4. r = fsm_sdata(u, "CODEREJ", NextId(m), "none")
  BY Zenon DEF CodeRej
<1> HIDE DEF u, r
<1>5. /\ Sound(r) /\ NoAck(m, r)
      /\ r.state = m.state /\ r.want = m.want /\ r.reqid = m.reqid
  BY <1>2, <1>3, <1>4, TermDoes
<1>6. Does(m, r)
  BY <1>5, Zenon DEF Does, SameRequest, Live, Agreed
<1> QED
  BY <1>5, <1>6, Zenon DEF r

(* fsm_input: a message as it is taken off the link, or one of an unknown  *)
(* code.                                                                   *)
LEMMA inputDoes ==
    ASSUME NEW m, Good(m), Rests(m), NEW msg \in Message \cup {Unknown}, NEW ret
    PROVE  LET r == fsm_input(m, msg, ret) IN
             \/ Does(m, r) /\ NoAck(m, r)
             \/ msg.code = "CONFREQ" /\ Does(m, r) /\ Acks(m, r, msg.id, msg.opt)
             \/ msg.code = "CONFACK" /\ DoesIfAcked(m, r, msg.id) /\ NoAck(m, r)
<1> DEFINE r == fsm_input(m, msg, ret)
<1>0. msg.id \in Int /\ msg.opt \in Options
  BY DEF Message, Unknown, Options
<1>1. CASE m.state \in Below
  <2>1. r = m
    BY <1>1, Zenon DEF fsm_input
  <2> QED
    BY <2>1, UntouchedDoes, Zenon DEF Good, Untouched
<1>2. CASE m.state \notin Below
  <2>1. r = CASE msg.code = "CONFREQ" -> fsm_rconfreq(m, msg.id, msg.opt)
              [] msg.code = "CONFACK" -> fsm_rconfack(m, msg.id, msg.opt)
              [] msg.code \in {"CONFNAK", "CONFREJ"} -> fsm_rconfnakrej(m, msg.code, msg.id, ret)
              [] msg.code = "TERMREQ" -> fsm_rtermreq(m, msg.id)
              [] msg.code = "TERMACK" -> fsm_rtermack(m)
              [] msg.code = "CODEREJ" -> fsm_rcoderej(m)
              [] OTHER -> CodeRej(m)
    BY <1>2, Zenon DEF fsm_input
  <2> HIDE DEF r
  <2>2. CASE msg.code = "CONFREQ"
    <3>1. r = fsm_rconfreq(m, msg.id, msg.opt)
      BY <2>1, <2>2
    <3> QED
      BY <1>0, <1>2, <2>2, <3>1, rconfreqDoes, Zenon DEF r
  <2>3. CASE msg.code = "CONFACK"
    <3>1. r = fsm_rconfack(m, msg.id, msg.opt)
      BY <2>1, <2>3
    <3> QED
      BY <1>0, <2>3, <3>1, rconfackDoes, Zenon DEF r
  <2>4. CASE msg.code \in {"CONFNAK", "CONFREJ"}
    <3>1. r = fsm_rconfnakrej(m, msg.code, msg.id, ret)
      BY <2>1, <2>4
    <3> QED
      BY <1>0, <3>1, rconfnakrejDoes, Zenon DEF r
  <2>5. CASE msg.code = "TERMREQ"
    <3>1. r = fsm_rtermreq(m, msg.id)
      BY <2>1, <2>5
    <3> QED
      BY <1>0, <3>1, rtermreqDoes, Zenon DEF r
  <2>6. CASE msg.code = "TERMACK"
    <3>1. r = fsm_rtermack(m)
      BY <2>1, <2>6
    <3> QED
      BY <3>1, rtermackDoes, Zenon DEF r
  <2>7. CASE msg.code = "CODEREJ"
    <3>1. r = fsm_rcoderej(m)
      BY <2>1, <2>7
    <3> QED
      BY <3>1, rcoderejDoes, Zenon DEF r
  <2>8. CASE msg = Unknown
    <3>1. r = CodeRej(m)
      BY <2>1, <2>8 DEF Unknown
    <3> QED
      BY <3>1, CodeRejDoes, Zenon DEF r
  <2>9. msg \in Message => msg.code \in Codes
    BY DEF Message
  <2> QED
    BY <2>2, <2>3, <2>4, <2>5, <2>6, <2>7, <2>8, <2>9, Zenon DEF Codes
<1> QED
  BY <1>1, <1>2, Zenon

-----------------------------------------------------------------------------
(* Steps.                                                                  *)

LEMMA TwoPeers ==
    ASSUME NEW p \in Peers
    PROVE  /\ Other(p) \in Peers /\ Other(p) # p /\ Other(Other(p)) = p
           /\ Peers = {p, Other(p)}
<1>1. PICK a \in Peers, b \in Peers : a # b /\ Peers = {a, b}
  BY PeersAssumption, Zenon
<1>2. \A x \in Peers : Other(x) \in Peers /\ Other(x) # x
  <2> TAKE x \in Peers
  <2>1. \E q \in Peers : q # x
    BY <1>1, Zenon
  <2> QED
    BY <2>1, Zenon DEF Other
<1>3. \A x, y \in Peers : y # x => y = Other(x) /\ Peers = {x, y}
  BY <1>1, <1>2
<1> QED
  BY <1>2, <1>3

LEMMA MemoryUntouched ==
    ASSUME IInv, ClearInv, NEW p \in Peers, NEW nomem \in BOOLEAN
    PROVE  LET m == Machine(p, nomem) IN
             /\ Good(m) /\ Rests(m) /\ Untouched(fsm[p], m) /\ m.state = fsm[p].state
<1>1. Good(fsm[p]) /\ Rests(fsm[p])
  BY Zenon DEF IInv, ClearInv
<1> QED
  BY <1>1 DEF Good, Rests, Untouched, Machine

(* The machine p has left r, and in has still to arrive: if the requests   *)
(* of both are Clear, they are so after the step.                          *)
LEMMA BothClear ==
    ASSUME IInv, ClearInv, NEW p \in Peers, NEW r, NEW in \in Seq(Message), Sound(r),
           fsm' = [fsm EXCEPT ![p] = [r EXCEPT !.out = <<>>, !.nomem = FALSE]],
           link' = [link EXCEPT ![p] = in, ![Other(p)] = @ \o r.out],
           Live(r) => Clear(r, fsm[Other(p)].his, link[Other(p)] \o r.out, in),
           Live(fsm[Other(p)]) =>
              Clear(fsm[Other(p)], r.his, in, link[Other(p)] \o r.out)
    PROVE  ClearInv'
<1> DEFINE q == Other(p)
           n == [r EXCEPT !.out = <<>>, !.nomem = FALSE]
           to == link[q] \o r.out
<1>1. q \in Peers /\ q # p /\ Other(q) = p /\ Peers = {p, q}
  BY TwoPeers
<1> HIDE DEF q
<1>2. /\ n.out = <<>> /\ n.state = r.state /\ n.reqid = r.reqid /\ n.id = r.id
      /\ n.want = r.want /\ n.his = r.his
  BY DEF Sound
<1> HIDE DEF n
<1>3. fsm'[p] = n /\ fsm'[q] = fsm[q]
  BY <1>1 DEF IInv, n, q
<1>4. to \in Seq(Message)
  BY <1>1 DEF ClearInv, Sound
<1>5. link \in [Peers -> Seq(Message)]
  BY Zenon DEF ClearInv
<1>6. link'[p] = in /\ link'[q] = to /\ link' \in [Peers -> Seq(Message)]
  BY <1>1, <1>4, <1>5 DEF q
<1> HIDE DEF to
<1>7. \A his, a, b : Clear(r, his, a, b) => Clear(n, his, a, b)
  BY <1>2, Zenon DEF Clear, Granted, Agreed, Only
<1>8. Live(r) <=> Live(n)
  BY <1>2, Zenon DEF Live
<1>9. Rests(fsm'[p]) /\ Rests(fsm'[q])
  BY <1>1, <1>2, <1>3, Zenon DEF ClearInv, Rests, Sound
<1>10. Live(fsm'[p]) => Clear(fsm'[p], fsm'[q].his, link'[q], link'[p])
  BY <1>3, <1>6, <1>7, <1>8, Zenon DEF to, q
<1>11. Live(fsm'[q]) => Clear(fsm'[q], fsm'[p].his, link'[p], link'[q])
  BY <1>2, <1>3, <1>6, Zenon DEF to, q
<1>12. \A x \in Peers :
         /\ Rests(fsm'[x])
         /\ Live(fsm'[x]) =>
               Clear(fsm'[x], fsm'[Other(x)].his, link'[Other(x)], link'[x])
  BY <1>1, <1>9, <1>10, <1>11, Zenon DEF q
<1> QED
  BY <1>6, <1>12, Zenon DEF ClearInv

(* What is left on the way to p is the end of what was.                    *)
Left(p, in) == in = link[p] \/ (link[p] # <<>> /\ in = Tail(link[p]))

LEMMA LeftWas ==
    ASSUME ClearInv, NEW p \in Peers, NEW in, Left(p, in)
    PROVE  /\ in \in Seq(Message)
           /\ \A i \in DOMAIN in : \E j \in DOMAIN link[p] : in[i] = link[p][j]
<1>1. link[p] \in Seq(Message)
  BY Zenon DEF ClearInv
<1>2. CASE in = link[p]
  BY <1>1, <1>2, Zenon
<1>3. CASE link[p] # <<>> /\ in = Tail(link[p])
  <2>1. /\ in \in Seq(Message)
        /\ \A i \in DOMAIN in : (i + 1) \in DOMAIN link[p] /\ in[i] = link[p][i + 1]
    BY <1>1, <1>3
  <2> QED
    BY <2>1, Zenon
<1> QED
  BY <1>2, <1>3, Zenon DEF Left

(* The request of the machine itself.                                      *)
LEMMA OwnClear ==
    ASSUME IInv, ClearInv, FreshIds, NEW p \in Peers, NEW r, NEW in, Left(p, in),
           fsm'[p].id = r.id,
           \/ Does(fsm[p], r)
           \/ /\ link[p] # <<>> /\ Head(link[p]).code = "CONFACK"
              /\ DoesIfAcked(fsm[p], r, Head(link[p]).id)
    PROVE  Live(r) => Clear(r, fsm[Other(p)].his, link[Other(p)] \o r.out, in)
<1> DEFINE m == fsm[p]
           his == fsm[Other(p)].his
           to == link[Other(p)]
<1> SUFFICES ASSUME Live(r) PROVE Clear(r, his, to \o r.out, in)
  BY Zenon
<1>1. Other(p) \in Peers
  BY TwoPeers, Zenon
<1>2. /\ to \in Seq(Message) /\ link[p] \in Seq(Message) /\ Rests(m)
      /\ Live(m) => Clear(m, his, to, link[p])
  BY <1>1, Zenon DEF ClearInv
<1>3. \A i \in DOMAIN in : \E j \in DOMAIN link[p] : in[i] = link[p][j]
  BY LeftWas
<1>4. Sound(r)
  BY Zenon DEF Does, DoesIfAcked
<1>5. CASE NewRequest(m, r)
  <2>1. r.id # m.id /\ r.reqid = r.id
    BY <1>2, <1>5, AnotherId, Zenon DEF NewRequest, Rests
  <2>2. /\ \A i \in DOMAIN to : ~Requests(to[i], r.reqid)
        /\ \A i \in DOMAIN link[p] : ~Grants(link[p][i], r.reqid)
    BY <2>1, Zenon DEF FreshIds
  <2>3. \A i \in DOMAIN in : ~Grants(in[i], r.reqid)
    BY <1>3, <2>2, Zenon
  <2>4. ~Agreed(r)
    BY <1>5, Zenon DEF NewRequest
  <2> HIDE DEF to, his
  <2> QED
    BY <1>2, <1>4, <2>2, <2>3, <2>4, NewIsClear, Zenon
<1>6. CASE ~NewRequest(m, r)
  <2>1. SameRequest(m, r) /\ Live(m)
    BY <1>6, Zenon DEF Does, DoesIfAcked, SameRequest
  <2>2. Agreed(r) => Granted(m, link[p])
    <3>1. CASE Does(m, r)
      BY <1>6, <3>1, Zenon DEF Does, Granted
    <3>2. CASE /\ link[p] # <<>> /\ Head(link[p]).code = "CONFACK"
               /\ DoesIfAcked(m, r, Head(link[p]).id)
      <4>1. 1 \in DOMAIN link[p] /\ Head(link[p]) = link[p][1]
        BY <1>2, <3>2
      <4> QED
        BY <1>6, <3>2, <4>1, Zenon DEF DoesIfAcked, Granted, Grants
    <3> QED
      BY <3>1, <3>2, Zenon
  <2>3. Granted(r, in) => Granted(m, link[p])
    BY <1>3, <2>1, <2>2, Zenon DEF Granted, SameRequest
  <2>4. Clear(m, his, to, link[p])
    BY <1>2, <2>1, Zenon
  <2> HIDE DEF m, to, his
  <2> QED
    BY <1>2, <1>4, <2>1, <2>3, <2>4, SameIsClear, Zenon
<1> QED
  BY <1>5, <1>6, Zenon

(* The request of its peer.                                                *)
LEMMA PeerClear ==
    ASSUME ClearInv, NEW p \in Peers, NEW r, NEW in, Left(p, in), Sound(r),
           \/ NoAck(fsm[p], r)
           \/ /\ link[p] # <<>> /\ Head(link[p]).code = "CONFREQ" /\ in = Tail(link[p])
              /\ Acks(fsm[p], r, Head(link[p]).id, Head(link[p]).opt)
    PROVE  Live(fsm[Other(p)]) =>
              Clear(fsm[Other(p)], r.his, in, link[Other(p)] \o r.out)
<1> DEFINE q == Other(p)
           m == fsm[q]
           to == link[p]
           from == link[q]
           out == r.out
<1> SUFFICES ASSUME Live(m) PROVE Clear(m, r.his, in, from \o out)
  BY Zenon
<1>1. q \in Peers /\ Other(q) = p
  BY TwoPeers, Zenon
<1>2. /\ to \in Seq(Message) /\ from \in Seq(Message) /\ out \in Seq(Message)
      /\ Clear(m, fsm[p].his, to, from)
  BY <1>1, Zenon DEF ClearInv, Sound
<1>3. CASE NoAck(fsm[p], r)
  <2>1. /\ r.his = fsm[p].his /\ \A i \in DOMAIN out : out[i].code # "CONFACK"
        /\ in = to \/ (to # <<>> /\ in = Tail(to))
    BY <1>3, Zenon DEF NoAck, Left
  <2> HIDE DEF m, to, from, out
  <2>2. Clear(m, fsm[p].his, in, from \o out)
    BY <1>2, <2>1, PeerKeepsClear, Zenon
  <2> QED
    BY <2>1, <2>2, Zenon
<1>4. CASE ~NoAck(fsm[p], r)
  <2>1. /\ to # <<>> /\ Head(to).code = "CONFREQ" /\ in = Tail(to)
        /\ r.his = Head(to).opt
        /\ \A i \in DOMAIN out : out[i].code = "CONFACK" => out[i].id = Head(to).id
    BY <1>4, Zenon DEF Acks
  <2> HIDE DEF m, to, from, out
  <2>2. Clear(m, Head(to).opt, Tail(to), from \o out)
    BY <1>2, <2>1, AckKeepsClear, Zenon
  <2> QED
    BY <2>1, <2>2, Zenon
<1> QED
  BY <1>3, <1>4, Zenon

(* A handler of p has run.                                                 *)
LEMMA StepClear ==
    ASSUME IInv, ClearInv, FreshIds, NEW p \in Peers, NEW nomem \in BOOLEAN, NEW r, NEW in,
           Step(p, nomem, r, in), Left(p, in),
           LET m == Machine(p, nomem)
               c == Head(link[p])
           IN  \/ Does(m, r) /\ NoAck(m, r)
               \/ /\ link[p] # <<>> /\ c.code = "CONFREQ" /\ in = Tail(link[p])
                  /\ Does(m, r) /\ Acks(m, r, c.id, c.opt)
               \/ /\ link[p] # <<>> /\ c.code = "CONFACK"
                  /\ DoesIfAcked(m, r, c.id) /\ NoAck(m, r)
    PROVE  ClearInv'
<1> DEFINE m == Machine(p, nomem)
           f == fsm[p]
           c == Head(link[p])
<1>1. Untouched(f, m) /\ m.state = f.state
  BY MemoryUntouched, Zenon
<1> HIDE DEF m, f, c
<1>2. /\ SameRequest(m, r) => SameRequest(f, r)
      /\ NewRequest(m, r) => NewRequest(f, r)
      /\ NoAck(m, r) => NoAck(f, r)
      /\ m.reqid = f.reqid /\ (Agreed(m) <=> Agreed(f))
  <2>1. SameRequest(m, r) => SameRequest(f, r)
    BY <1>1, Zenon DEF Untouched, SameRequest, Live
  <2>2. NewRequest(m, r) => NewRequest(f, r)
    BY <1>1, Zenon DEF Untouched, NewRequest, NextId
  <2>3. NoAck(m, r) => NoAck(f, r)
    BY <1>1, Zenon DEF Untouched, NoAck
  <2>4. m.reqid = f.reqid /\ (Agreed(m) <=> Agreed(f))
    BY <1>1, Zenon DEF Untouched, Agreed
  <2> QED
    BY <2>1, <2>2, <2>3, <2>4, Zenon
<1>3. Does(m, r) => Does(f, r)
  BY <1>2, Zenon DEF Does
<1>4. \A id : DoesIfAcked(m, r, id) => DoesIfAcked(f, r, id)
  BY <1>2, Zenon DEF DoesIfAcked
<1>5. \A id, o : Acks(m, r, id, o) => Acks(f, r, id, o)
  BY <1>2, Zenon DEF Acks
<1>6. Sound(r)
  BY Zenon DEF Does, DoesIfAcked
<1>7. /\ fsm' = [fsm EXCEPT ![p] = [r EXCEPT !.out = <<>>, !.nomem = FALSE]]
      /\ link' = [link EXCEPT ![p] = in, ![Other(p)] = @ \o r.out]
  BY Zenon DEF Step
<1>8. fsm'[p].id = r.id
  BY <1>6, <1>7 DEF IInv, Sound
<1>9. \/ Does(fsm[p], r)
      \/ /\ link[p] # <<>> /\ Head(link[p]).code = "CONFACK"
         /\ DoesIfAcked(fsm[p], r, Head(link[p]).id)
  BY <1>3, <1>4, Zenon DEF m, f
<1>10. \/ NoAck(fsm[p], r)
       \/ /\ link[p] # <<>> /\ Head(link[p]).code = "CONFREQ" /\ in = Tail(link[p])
          /\ Acks(fsm[p], r, Head(link[p]).id, Head(link[p]).opt)
  BY <1>2, <1>5, Zenon DEF m, f
<1>11. in \in Seq(Message)
  BY LeftWas, Zenon
<1>12. Live(r) => Clear(r, fsm[Other(p)].his, link[Other(p)] \o r.out, in)
  BY <1>8, <1>9, OwnClear, Zenon
<1>13. Live(fsm[Other(p)]) => Clear(fsm[Other(p)], r.his, in, link[Other(p)] \o r.out)
  BY <1>6, <1>10, PeerClear, Zenon
<1> QED
  BY <1>6, <1>7, <1>11, <1>12, <1>13, BothClear, Zenon

(* A message is lost: of what is on the way there is less.                 *)
LEMMA LoseClear ==
    ASSUME ClearInv, NEW p \in Peers, Lose(p)
    PROVE  ClearInv'
<1> DEFINE q == Other(p)
           in == Tail(link[p])
<1>1. q \in Peers /\ q # p /\ Other(q) = p /\ Peers = {p, q}
  BY TwoPeers
<1> HIDE DEF q
<1>2. link \in [Peers -> Seq(Message)]
  BY Zenon DEF ClearInv
<1>3. link[p] \in Seq(Message) /\ link[q] \in Seq(Message) /\ link[p] # <<>>
  BY <1>1, <1>2, Zenon DEF Lose
<1>4. in \in Seq(Message) /\ link[q] \o <<>> = link[q]
  BY <1>3
<1>5. /\ fsm' = fsm /\ link'[p] = in /\ link'[q] = link[q]
      /\ link' \in [Peers -> Seq(Message)]
  BY <1>1, <1>2, <1>4 DEF Lose
<1>6. \A i \in DOMAIN in : \E j \in DOMAIN link[p] : in[i] = link[p][j]
  BY LeftWas, <1>3 DEF Left
<1> HIDE DEF in
<1>7. Live(fsm[p]) => Clear(fsm[p], fsm[q].his, link[q], in)
  <2>1. Live(fsm[p]) => Clear(fsm[p], fsm[q].his, link[q], link[p])
    BY Zenon DEF ClearInv, q
  <2>2. Granted(fsm[p], in) => Granted(fsm[p], link[p])
    BY <1>6, Zenon DEF Granted
  <2> QED
    BY <2>1, <2>2, Zenon DEF Clear
<1>8. Live(fsm[q]) => Clear(fsm[q], fsm[p].his, in, link[q])
  <2>1. Live(fsm[q]) => Clear(fsm[q], fsm[p].his, link[p], link[q])
    BY <1>1, Zenon DEF ClearInv
  <2>2. <<>> \in Seq(Message) /\ \A i \in DOMAIN <<>> : <<>>[i].code # "CONFACK"
    OBVIOUS
  <2>3. Live(fsm[q]) => Clear(fsm[q], fsm[p].his, in, link[q] \o <<>>)
    BY <1>3, <2>1, <2>2, PeerKeepsClear, Zenon DEF in
  <2> QED
    BY <1>4, <2>3, Zenon
<1>9. \A x \in Peers : Rests(fsm'[x])
  BY <1>5, Zenon DEF ClearInv
<1>10. \A x \in Peers :
         Live(fsm'[x]) => Clear(fsm'[x], fsm'[Other(x)].his, link'[Other(x)], link'[x])
  BY <1>1, <1>5, <1>7, <1>8, Zenon DEF q
<1> QED
  BY <1>5, <1>9, <1>10, Zenon DEF ClearInv

LEMMA NextClear ==
    ASSUME IInv, ClearInv, FreshIds, NEW p \in Peers,
           LowerUp(p) \/ Call(p) \/ Receive(p) \/ Timeout(p) \/ Lose(p)
    PROVE  ClearInv'
<1>1. \A nomem \in BOOLEAN :
         /\ Good(Machine(p, nomem)) /\ Rests(Machine(p, nomem))
         /\ Machine(p, nomem).state = fsm[p].state
  BY MemoryUntouched, Zenon
<1>2. ASSUME NEW nomem \in BOOLEAN, NEW r, Step(p, nomem, r, link[p]),
             Does(Machine(p, nomem), r), NoAck(Machine(p, nomem), r)
      PROVE  ClearInv'
  <2>1. Left(p, link[p])
    BY Zenon DEF Left
  <2> QED
    BY <1>2, <2>1, StepClear, Zenon
<1>3. CASE LowerUp(p)
  <2>1. PICK nomem \in BOOLEAN :
           Step(p, nomem, fsm_lowerup(Machine(p, nomem)), link[p])
    BY <1>3, Zenon DEF LowerUp
  <2> QED
    BY <1>1, <1>2, <2>1, lowerupDoes, Zenon
<1>4. CASE Call(p)
  <2>1. PICK nomem \in BOOLEAN :
           LET m == Machine(p, nomem)
           IN  \/ Step(p, nomem, fsm_lowerdown(m), link[p])
               \/ Step(p, nomem, fsm_open(m), link[p])
               \/ Step(p, nomem, fsm_close(m), link[p])
               \/ Step(p, nomem, fsm_protreject(m), link[p])
               \/ Step(p, nomem, fsm_input(m, Unknown, 1), link[p])
    BY <1>4, Zenon DEF Call
  <2> DEFINE m == Machine(p, nomem)
  <2>2. Good(m) /\ Rests(m)
    BY <1>1, Zenon
  <2>3. \A r \in {fsm_lowerdown(m), fsm_open(m), fsm_close(m), fsm_protreject(m)} :
           Does(m, r) /\ NoAck(m, r)
    BY <2>2, lowerdownDoes, openDoes, closeDoes, protrejectDoes, Zenon
  <2>4. Unknown.code # "CONFREQ" /\ Unknown.code # "CONFACK"
    BY DEF Unknown
  <2>5. Does(m, fsm_input(m, Unknown, 1)) /\ NoAck(m, fsm_input(m, Unknown, 1))
    BY <2>2, <2>4, inputDoes, Zenon
  <2> QED
    BY <1>2, <2>1, <2>3, <2>5, Zenon
<1>5. CASE Receive(p)
  <2>1. PICK nomem \in BOOLEAN, ret \in Verdicts(Head(link[p]).code) :
           Step(p, nomem, fsm_input(Machine(p, nomem), Head(link[p]), ret), Tail(link[p]))
    BY <1>5, Zenon DEF Receive
  <2> DEFINE m == Machine(p, nomem)
             r == fsm_input(m, Head(link[p]), ret)
  <2>2. Good(m) /\ Rests(m)
    BY <1>1, Zenon
  <2>3. link[p] # <<>> /\ link[p] \in Seq(Message)
    BY <1>5, Zenon DEF Receive, ClearInv
  <2>4. Head(link[p]) \in Message /\ Left(p, Tail(link[p]))
    BY <2>3 DEF Left
  <2>5. LET msg == Head(link[p])
        IN  \/ Does(m, r) /\ NoAck(m, r)
            \/ msg.code = "CONFREQ" /\ Does(m, r) /\ Acks(m, r, msg.id, msg.opt)
            \/ msg.code = "CONFACK" /\ DoesIfAcked(m, r, msg.id) /\ NoAck(m, r)
    BY <2>2, <2>4, inputDoes, Zenon
  <2> HIDE DEF r
  <2>6. Step(p, nomem, r, Tail(link[p]))
    BY <2>1, Zenon DEF r
  <2> QED
    BY <2>3, <2>4, <2>5, <2>6, StepClear, Zenon
<1>6. CASE Timeout(p)
  <2>1. PICK nomem \in BOOLEAN :
           Step(p, nomem, fsm_timeout(UNTIMEOUT(Machine(p, nomem))), link[p])
    BY <1>6, Zenon DEF Timeout
  <2>2. fsm[p].state \in Timed
    BY <1>6, Zenon DEF Timeout, IInv, Good
  <2>3. LET r == fsm_timeout(UNTIMEOUT(Machine(p, nomem)))
        IN  Does(Machine(p, nomem), r) /\ NoAck(Machine(p, nomem), r)
    BY <1>1, <2>2, timeoutDoes, Zenon
  <2> QED
    BY <1>2, <2>1, <2>3, Zenon
<1>7. CASE Lose(p)
  BY <1>7, LoseClear, Zenon
<1> QED
  BY <1>3, <1>4, <1>5, <1>6, <1>7, Zenon

LEMMA InitClear == Init => ClearInv
<1> SUFFICES ASSUME Init PROVE ClearInv
  OBVIOUS
<1>1. link \in [Peers -> Seq(Message)]
  BY DEF Init
<1>2. \A p \in Peers : Rests(fsm[p]) /\ fsm[p].state = "STARTING"
  <2> TAKE p \in Peers
  <2> DEFINE m == fsm_init(p)
  <2>1. fsm[p] = fsm_open(m)
    BY Zenon DEF Init
  <2>2. /\ m.state = "INITIAL" /\ m.id = 0 /\ m.reqid = 0 /\ m.want = "ask"
        /\ m.out = <<>> /\ IsMachine(m)
    BY DEF fsm_init
  <2> HIDE DEF m
  <2>3. fsm_open(m) = Goto(m, "STARTING")
    BY <2>2 DEF fsm_open
  <2>4. 0 \in 0 .. Ids - 1
    BY IdsAssumption
  <2> QED
    BY <2>1, <2>2, <2>3, <2>4 DEF Goto, Rests, Options
<1> QED
  BY <1>1, <1>2 DEF ClearInv, Live

(* While identifiers are fresh, the request of each machine stays Clear.   *)
THEOREM RequestsClear == Spec /\ [][FreshIds]_vars => []ClearInv
<1>1. IInv /\ ClearInv /\ [Next]_vars /\ [FreshIds]_vars => ClearInv'
  <2>1. ClearInv /\ UNCHANGED vars => ClearInv'
    BY DEF ClearInv, vars
  <2>2. IInv /\ ClearInv /\ Next /\ FreshIds => ClearInv'
    BY NextClear, Zenon DEF Next
  <2> QED
    BY <2>1, <2>2, Zenon
<1> QED
  BY <1>1, InitClear, Inductive, PTL DEF Spec

(* When both machines are open, each has acknowledged what the other wants *)
(* now: no order of requests, retransmissions, answers, losses, timeouts   *)
(* and calls opens both on an acknowledgement of an earlier request, as    *)
(* long as the octet of identifiers (fsm.c:723) does not come round to one *)
(* that is still on the link.                                              *)
THEOREM AgreementHolds == Spec /\ [][FreshIds]_vars => []Agreement
<1>1. ClearInv => Agreement
  <2> SUFFICES ASSUME ClearInv, \A p \in Peers : fsm[p].state = "OPENED", NEW p \in Peers
               PROVE  fsm[p].his = fsm[Other(p)].want
    BY Zenon DEF Agreement
  <2> DEFINE q == Other(p)
  <2>1. q \in Peers /\ Other(q) = p
    BY TwoPeers
  <2>2. Live(fsm[q]) /\ Agreed(fsm[q])
    BY <2>1, Zenon DEF Live, Agreed
  <2>3. Clear(fsm[q], fsm[p].his, link[p], link[q])
    BY <2>1, <2>2, Zenon DEF ClearInv
  <2> QED
    BY <2>2, <2>3, Zenon DEF Clear, Granted
<1> QED
  BY <1>1, RequestsClear, PTL
=============================================================================

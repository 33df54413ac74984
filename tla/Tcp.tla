-------------------------------- MODULE Tcp ---------------------------------
(***************************************************************************)
(* The TCP of oz_dev_ip.c: two hosts with a connection block each, joined   *)
(* by a network that loses, duplicates and reorders segments.               *)
(*                                                                         *)
(* All of the driver runs in one kernel thread per host, so a step is a     *)
(* whole handler: a segment processed (proc_tcp), a tick of the timer       *)
(* (timerproc), or a user's request (be_tcp...).  Every routine is an       *)
(* operator from connection block to connection block, and what it sends    *)
(* collects in "out".                                                      *)
(*                                                                         *)
(* Sequence numbers count from the SYN of the side that sends them, and a   *)
(* byte is its sequence number.  When a timer is due is left open, and so is*)
(* the congestion window, which is one segment at least.  Sending succeeds. *)
(***************************************************************************)
EXTENDS Integers, SequencesExt

CONSTANTS
  Ends,      \* the two hosts
  Client,    \* the one that connects; the other listens
  Sends,     \* host: sizes of the user's transmit requests
  ReadSize,  \* host: size of the user's receive requests
  NoCopy,    \* hosts whose user reads the data in the window buffer
  Closers,   \* hosts whose user closes, once it has seen the end of the data
             \* (the client: when it has sent everything)
  Aborters,  \* hosts whose user may close with abort
  Cancellers,\* hosts whose user may cancel its requests
  Early,     \* hosts whose user transmits before the connection is made
  WindowSize,\* size of the receive windows
  MinWin,    \* MINWINSIZE
  Mss,       \* the maximum size to send in a datagram
  Cap,       \* 65535, the largest window that can be sent
  Zero,      \* where 0 lies among the sequence numbers of the other side
  MaxNet,    \* bound on the segments under way to a host
  Dups,      \* whether the network duplicates
  Patience,  \* whether a connect request has no time limit
  MaxTicks   \* bound on the ticks that send something

VARIABLES
  con,       \* host: its connection block
  net,       \* host: segments under way to it
  ticks      \* how many ticks have sent something

tcpVars == <<con, net, ticks>>

Peer(e) == CHOOSE d \in Ends : d # e

-----------------------------------------------------------------------------
(* st: "none", "listen", "open" or "dead".  una, wnd, nxt, end: seq_last-    *)
(* rcvdack, seq_lastrcvdwsize, nextxmtseq and seq_nextusersendata; reqs: the *)
(* list nextackreq.  rok, ack, ack2, adv: seq_receivedok, seq_lastacksent,   *)
(* seq_lastacksent2, lastwsizesent; ooo: rcvdoutofordr.  rem, cur, ins, buf: *)
(* rcvwindowrem, rcvwindownxt, rcvwindowins, windowbuff.  The rest is of the *)
(* user: read is the pending receive request; log, got and todo the bytes it *)
(* has sent and received and the requests it has yet to make; oks counts its *)
(* transmits (and connect, listen, close) that succeeded, fault is the       *)
(* status of those that did not; lent is how much of the window it looks at. *)
NewCon(e) ==
  [st |-> IF e = Client THEN "none" ELSE "listen",
   una |-> 0, wnd |-> IF e = Client THEN MinWin ELSE 0, nxt |-> 0, end |-> 0, reqs |-> <<>>,
   rok |-> Zero, ack |-> Zero, ack2 |-> Zero, adv |-> 0, ooo |-> <<>>,
   rem |-> 0, cur |-> 0, ins |-> 0, buf |-> [i \in 0..WindowSize - 1 |-> 0],
   rsyn |-> FALSE, sfin |-> FALSE, rfin |-> FALSE, srst |-> FALSE, closed |-> FALSE,
   reset |-> "no", dup |-> 0, out |-> {}, crash |-> FALSE,
   read |-> 0, log |-> <<>>, got |-> <<>>, eof |-> FALSE, lent |-> 0,
   todo |-> Sends[e], oks |-> 0, fault |-> "no"]

TcpInit ==
  /\ con = [e \in Ends |-> NewCon(e)]
  /\ net = [e \in Ends |-> {}]
  /\ ticks = 0

Segment(f, seq, len, ackno, win) ==
  [fl |-> f, seq |-> seq, len |-> len, ackno |-> ackno, win |-> win]

SegEnd(p) == p.seq + p.len + (IF p.fl \cap {"syn", "fin"} # {} THEN 1 ELSE 0)

Reset(c, status) == [c EXCEPT !.reset = IF @ = "no" THEN status ELSE @]

-----------------------------------------------------------------------------
(* tcpwindowsize. *)
AvailAlways(c, ackno) == WindowSize + (ackno - c.rok)

Avail(c, ackno) == WindowSize - (c.ins - c.rem) + (ackno - c.rok)

(* sendtcp: an increase of the window is only told when it is respectable. *)
SendTcp(c, len, fl, ackno, back) ==
  LET told == c.ack + c.adv
      now == Avail(c, ackno) + ackno
      more == now - told
      edge == IF more < 0 \/ more >= Mss \/ more >= WindowSize \div 2
                 \/ now - ackno = WindowSize
              THEN now ELSE told
      win == IF edge - ackno \in 0..Cap THEN edge - ackno ELSE Cap
  IN  IF "rst" \in fl /\ c.srst THEN c
      ELSE [c EXCEPT !.srst = @ \/ "rst" \in fl, !.sfin = @ \/ "fin" \in fl,
                     !.adv = win, !.ack2 = c.ack, !.ack = ackno,
                     !.out = @ \cup {Segment(fl, c.nxt - back, len, ackno, win)}]

SendAck(c, ackno) == SendTcp(c, 0, {"ack"}, ackno, 0)

(* starttcpsend.  A segment of data is filled from several requests; those   *)
(* for a SYN or a FIN go by themselves; a request that has been aborted      *)
(* leaves a hole, and the connection is reset when it gets there.           *)
RECURSIVE Transmit(_, _)
Transmit(c, edge) ==
  LET ready == {i \in DOMAIN c.reqs : c.reqs[i].start + c.reqs[i].size > c.nxt}
      i == Min(ready)
      r == c.reqs[i]
      can == Min({edge - c.nxt, Mss})
      follows(j) == \A k \in i + 1..j : /\ c.reqs[k].kind = {}
                                        /\ c.reqs[k].start = c.reqs[k - 1].start + c.reqs[k - 1].size
      last == Max({j \in i..Len(c.reqs) : follows(j)})
      stop == c.reqs[last].start + c.reqs[last].size
      hole == /\ stop - c.nxt < can /\ last < Len(c.reqs)
              /\ c.reqs[last + 1].start # stop
      len == Min({stop - c.nxt, can})
  IN
  IF ready = {} THEN c
  ELSE IF c.nxt < r.start THEN Reset(c, "aborted")
  ELSE IF can <= 0 THEN c
  ELSE IF r.kind = {} /\ hole THEN Reset(c, "aborted")
  ELSE IF r.kind = {}
       THEN Transmit([SendTcp(c, len, {"ack"}, c.rok, 0) EXCEPT !.nxt = @ + len], edge)
  ELSE Transmit([SendTcp(c, 0, r.kind, c.rok, 0) EXCEPT !.nxt = @ + 1], edge)

StartTcpSend(c, cw) ==
  Transmit(c, c.una + (IF c.wnd - c.una \in 0..cw THEN c.wnd - c.una ELSE cw))

(* queuetcptransmit. *)
Queue(c, kind, size, cw) ==
  StartTcpSend([c EXCEPT !.reqs = Append(@, [start |-> c.end, size |-> size, kind |-> kind]),
                         !.end = @ + size], cw)

-----------------------------------------------------------------------------
(* tcpreceive_test: the user's receive request takes what there is from the  *)
(* window, the end of the data when there is nothing before it, or the       *)
(* status of a reset.  A user that reads in place gets no more than there is *)
(* before the wrap, and looks at it until the next request.                 *)
Byte(c, i) == c.buf[IF i >= WindowSize THEN i - WindowSize ELSE i]
Bytes(c, from, n) == [i \in 1..n |-> Byte(c, from + i - 1)]

Unwrap(c) ==
  IF c.rem < WindowSize THEN c
  ELSE [c EXCEPT !.rem = @ - WindowSize, !.cur = @ - WindowSize, !.ins = @ - WindowSize]

ReceiveTestFinFirst(e, c) ==
  LET n == Min({c.ins - c.cur, c.read}) IN
  IF c.read # 0 /\ c.rfin /\ c.reset = "no" THEN [c EXCEPT !.read = 0, !.eof = TRUE]
  ELSE IF n = 0 THEN c
  ELSE Unwrap([c EXCEPT !.read = 0, !.got = @ \o Bytes(c, c.cur, n), !.cur = @ + n, !.rem = c.cur + n])

ReceiveTest(e, c) ==
  LET there == c.ins - c.cur
      at == IF c.cur >= WindowSize THEN c.cur - WindowSize ELSE c.cur
      n == Min({there, IF e \in NoCopy THEN WindowSize - at ELSE c.read})
  IN
  IF c.read = 0 \/ (there = 0 /\ ~c.rfin /\ c.reset = "no") THEN c
  ELSE IF c.reset # "no" THEN [c EXCEPT !.read = 0]
  ELSE IF there = 0 THEN [c EXCEPT !.read = 0, !.eof = TRUE]
  ELSE IF e \in NoCopy THEN [c EXCEPT !.read = 0, !.cur = @ + n, !.lent = n]
  ELSE Unwrap([c EXCEPT !.read = 0, !.got = @ \o Bytes(c, at, n), !.cur = @ + n, !.rem = c.cur + n])

(* tcpreplyack.  "late": some time has passed since the last segment came.   *)
(* The differences are compared as unsigned numbers.                        *)
ReplyAck(c, late, outofordr) ==
  LET theirs == c.adv + c.ack - c.rok
      more == Avail(c, c.rok) - theirs
  IN
  IF /\ c.reset = "no"
     /\ \/ c.ack # c.rok /\ (late \/ c.nxt < c.end)
        \/ c.ooo # <<>> /\ outofordr
        \/ c.rok - c.ack \notin 0..3 * Mss
        \/ /\ c.ack2 # c.ack \/ theirs \in 0..Mss - 1
           /\ more \notin 0..WindowSize \div 3
  THEN SendAck(c, c.rok)
  ELSE c

(* tcpterminate, and checktcpdead. *)
Terminate(e, c) ==
  LET r == Reset(ReceiveTest(e, c), "aborted")
      s == IF c.st = "listen" THEN r ELSE SendTcp(r, 0, {"rst"}, r.rok, 0)
  IN  [s EXCEPT !.st = "dead", !.fault = IF r.reqs # <<>> /\ @ = "no" THEN r.reset ELSE @,
                !.reqs = <<>>, !.una = s.end, !.nxt = s.end, !.ooo = <<>>, !.read = 0]

CheckDead(e, c) ==
  IF c.reset # "no" \/ (c.sfin /\ c.rfin /\ c.reqs = <<>>) THEN Terminate(e, c) ELSE c

-----------------------------------------------------------------------------
(* proc_tcp, one paragraph an operator.  The window: only an increase.       *)
NoteWindow(c, p) ==
  IF "ack" \in p.fl /\ p.win + p.ackno > c.wnd THEN [c EXCEPT !.wnd = p.win + p.ackno] ELSE c

(* The ack.  Three duplicates in a row cause everything not acked to be sent *)
(* again, and an ack of what the last duplicate itself ends with.           *)
NoteAck(c, p) ==
  LET duplicate == p.ackno < c.una \/ (p.ackno = c.una /\ SegEnd(p) = p.seq)
      ack == Min({p.ackno, c.end})
      done == Cardinality({i \in DOMAIN c.reqs : c.reqs[i].start + c.reqs[i].size <= ack})
  IN
  IF "ack" \notin p.fl THEN c
  ELSE IF duplicate /\ p.ackno >= c.end THEN c
  ELSE IF duplicate
  THEN IF c.dup = 2 THEN SendAck([c EXCEPT !.dup = 0, !.nxt = c.una], SegEnd(p))
       ELSE [c EXCEPT !.dup = @ + 1]
  ELSE [c EXCEPT !.dup = 0, !.una = ack, !.nxt = IF @ < ack THEN ack ELSE @,
                 !.reqs = SubSeq(@, done + 1, Len(@)), !.oks = @ + done]

NoteSyn(c, p) ==
  IF "syn" \in p.fl /\ ~c.rsyn
  THEN [c EXCEPT !.rok = p.seq + 1, !.ack = p.seq, !.ack2 = p.seq, !.rsyn = TRUE,
                 !.adv = IF "ack" \in p.fl THEN 1 ELSE @]
  ELSE c

(* An old segment may be a keepalive and is answered. *)
AnswerOld(c, p) ==
  IF "syn" \notin p.fl /\ (SegEnd(p) < c.rok \/ (SegEnd(p) = c.rok /\ p.seq < c.rok))
  THEN SendAck(c, c.rok) ELSE c

(* What is new in it, [seq, len, fin], and what of that fits the window. *)
Fresh(c, p) ==
  LET seq == p.seq + (IF "syn" \in p.fl THEN 1 ELSE 0)
      old == IF c.rok > seq THEN c.rok - seq ELSE 0
  IN  [seq |-> seq + old, len |-> p.len - old, fin |-> "fin" \in p.fl]

Wanted(c, p) ==
  LET b == Fresh(c, p)
      room == Avail(c, c.rok) - (b.seq - c.rok)
  IN  /\ b.len > 0 \/ (b.len = 0 /\ b.fin /\ b.seq = p.seq)
      /\ b.len > 0 => room > 0

Trimmed(c, b) ==
  IF b.len = 0 THEN b ELSE [b EXCEPT !.len = Min({@, Avail(c, c.rok) - (b.seq - c.rok)})]

StoreAtEnd(c, b) ==
  LET off(i) == (i - c.ins) % WindowSize
  IN  [c EXCEPT !.buf = [i \in DOMAIN @ |-> IF off(i) < b.len THEN b.seq + off(i) ELSE @[i]]]

Store(c, b) ==
  LET at == (c.ins + (b.seq - c.rok)) - (IF c.ins + (b.seq - c.rok) >= WindowSize
                                         THEN WindowSize ELSE 0)
      off(i) == (i - at) % WindowSize
  IN  [c EXCEPT !.buf = [i \in DOMAIN @ |-> IF off(i) < b.len THEN b.seq + off(i) ELSE @[i]],
                !.crash = @ \/ (b.len > 0 /\ at >= WindowSize)]

(* Its place in rcvdoutofordr, merged with what it overlaps. *)
One(x) == IF x THEN 1 ELSE 0

Insert(c, b) ==
  LET stop == b.seq + b.len + One(b.fin)
      before == SelectSeq(c.ooo, LAMBDA x : x.seq <= b.seq)
      after == SelectSeq(c.ooo, LAMBDA x : x.seq > b.seq)
      touches == before # <<>> /\ Last(before).seq + Last(before).len >= b.seq
      m == IF touches
           THEN [b EXCEPT !.seq = Last(before).seq,
                          !.len = @ + b.seq - Last(before).seq]
           ELSE b
      left == IF touches THEN Front(before) ELSE before
      n == Head(after)
      gap == n.seq - m.seq
      joined == [n EXCEPT !.seq = m.seq, !.len = @ + gap]
      longer == [joined EXCEPT !.fin = @ \/ m.fin,
                               !.len = stop - joined.seq - joined.len - One(joined.fin \/ m.fin)]
  IN
  IF touches /\ Last(before).seq + Last(before).len >= stop THEN c.ooo
  ELSE IF after # <<>> /\ gap <= m.len
  THEN left \o <<IF joined.seq + joined.len + One(joined.fin) < stop THEN longer ELSE joined>>
            \o Tail(after)
  ELSE left \o <<m>> \o after

(* What is now contiguous has been received. *)
RECURSIVE Advance(_)
Advance(c) ==
  LET x == Head(c.ooo) IN
  IF c.ooo = <<>> THEN c
  ELSE IF x.seq # c.rok THEN c
  ELSE Advance([c EXCEPT !.ins = @ + x.len, !.rok = @ + x.len + One(x.fin),
                         !.rfin = @ \/ x.fin, !.ooo = Tail(@),
                         !.crash = @ \/ c.ins + x.len > c.rem + WindowSize])

Accept(c, p) ==
  IF "rst" \in p.fl THEN Reset(c, "linkaborted")
  ELSE LET s == NoteSyn(c, p)
           a == AnswerOld(s, p)
           b == Trimmed(a, Fresh(a, p))
       IN  IF ~s.rsyn THEN s
           ELSE IF ~Wanted(a, p) THEN a
           ELSE LET d == Store(a, b) IN Advance([d EXCEPT !.ooo = Insert(d, b)])

ProcTcp(e, c, p, cw) ==
  LET r == Accept(NoteAck(NoteWindow(c, p), p), p)
      s == StartTcpSend(ReceiveTest(e, r), cw)
  IN  CheckDead(e, ReplyAck(s, FALSE, TRUE))

(* A SYN for the listener: the listen request becomes the one for the SYN.   *)
Accepted(c, p, cw) ==
  Queue([c EXCEPT !.st = "open", !.ack = p.seq, !.ack2 = p.seq, !.rok = p.seq + 1,
                  !.wnd = @ + MinWin],
        {"syn", "ack"}, 1, cw)

(* A segment for no connection is answered with a reset, a SYN is bounced.   *)
Refusal(p) ==
  IF "syn" \in p.fl /\ "ack" \notin p.fl THEN {Segment({"unr"}, 0, 0, 0, 0)}
  ELSE IF "rst" \in p.fl \/ "unr" \in p.fl THEN {}
  ELSE {Segment({"rst", "ack"}, p.ackno, 0, SegEnd(p), 0)}

-----------------------------------------------------------------------------
(* What a step of e leaves: its new connection block, and the segments under *)
(* way, some of which are lost when there are too many.                     *)
Under(s) == IF Cardinality(s) <= MaxNet THEN {s} ELSE kSubset(MaxNet, s)

Posts(e, c, arrived) ==
  /\ con' = [con EXCEPT ![e] = [c EXCEPT !.out = {}]]
  /\ \E s \in Under(net[Peer(e)] \cup c.out) :
       net' = [net EXCEPT ![e] = @ \ arrived, ![Peer(e)] = s]

Leaves(e, c, arrived) == Posts(e, c, arrived) /\ UNCHANGED ticks

Windows == {Mss, Mss + Cap}

Deliver(e, p, gone) ==
  LET c == con[e] IN
  \/ /\ c.st = "open" /\ "unr" \notin p.fl
     /\ \E cw \in Windows : Leaves(e, ProcTcp(e, c, p, cw), gone)
  \/ /\ c.st = "listen" /\ "syn" \in p.fl /\ "ack" \notin p.fl
     /\ \E cw \in Windows : Leaves(e, ProcTcp(e, Accepted(c, p, cw), p, cw), gone)
  \/ /\ c.st # "open" /\ ~(c.st = "listen" /\ "syn" \in p.fl /\ "ack" \notin p.fl)
     /\ Leaves(e, [c EXCEPT !.out = Refusal(p)], gone)
  \/ /\ c.st = "open" /\ "unr" \in p.fl
     /\ Leaves(e, Terminate(e, Reset(c, "connectrefused")), gone)

Lose(e, p) == net' = [net EXCEPT ![e] = @ \ {p}] /\ UNCHANGED <<con, ticks>>

(* timerproc.  Retransmission, the persist and keepalive probes (an old      *)
(* sequence number), and acks that have been put off.                       *)
Tick(e, resend, probe) ==
  LET c == con[e]
      r == IF resend THEN [c EXCEPT !.nxt = c.una] ELSE c
      s == IF resend THEN StartTcpSend(r, Mss) ELSE r
      k == IF probe /\ s.out = {} THEN SendTcp(s, 0, {"ack"}, s.rok, 1) ELSE s
  IN
  /\ c.st = "open"
  /\ resend \/ probe => c.reset = "no"
  /\ resend => c.reqs # <<>>
  /\ ticks < MaxTicks /\ ticks' = ticks + 1
  /\ CheckDead(e, ReplyAck(k, TRUE, FALSE)) # c
  /\ Posts(e, CheckDead(e, ReplyAck(k, TRUE, FALSE)), {})

(* A connect request that has not been answered in time. *)
Expire(e) ==
  /\ con[e].st = "open" /\ e = Client /\ ~con[e].rsyn /\ ~Patience
  /\ Leaves(e, CheckDead(e, Reset(con[e], "connectfail")), {})

-----------------------------------------------------------------------------
(* The user's requests: be_tcpconnect, be_tcptransmit, be_tcpreceive and     *)
(* be_tcpclose.                                                             *)
Connect(e) ==
  /\ e = Client /\ con[e].st = "none"
  /\ Leaves(e, Queue([con[e] EXCEPT !.st = "open"], {"syn"}, 1, Mss), {})

Send(e) ==
  LET c == con[e] IN
  /\ c.st \in {"open", "listen"} /\ ~c.closed /\ c.reset = "no" /\ c.todo # <<>>
  /\ e \notin Early => c.oks > 0
  /\ \E cw \in Windows :
       Leaves(e, Queue([c EXCEPT !.todo = Tail(@),
                                 !.log = @ \o [i \in 1..Head(c.todo) |-> c.end + i - 1]],
                       {}, Head(c.todo), cw), {})

(* A request of a user that reads in place gives back what it was lent. *)
Returned(c) ==
  Unwrap([c EXCEPT !.got = @ \o Bytes(c, (c.rem) % WindowSize, c.lent), !.lent = 0,
                   !.rem = Min({@ + c.lent, c.cur})])

Read(e) ==
  LET c == con[e]
      r == IF e \in NoCopy THEN Returned(c) ELSE c IN
  /\ c.st = "open" /\ c.reset = "no" /\ c.read = 0 /\ ~c.eof
  /\ \E late \in BOOLEAN :
       Leaves(e, ReplyAck(ReceiveTest(e, [r EXCEPT !.read = ReadSize[e]]), late, FALSE), {})

Close(e) ==
  LET c == con[e] IN
  /\ e \in Closers /\ c.st = "open" /\ ~c.closed /\ c.todo = <<>>
  /\ e # Client => c.eof
  /\ \E cw \in Windows : Leaves(e, Queue([c EXCEPT !.closed = TRUE], {"fin", "ack"}, 1, cw), {})

AbortClose(e) ==
  /\ e \in Aborters /\ con[e].st \in {"open", "listen"}
  /\ Leaves(e, Terminate(e, Reset(con[e], "aborted")), {})

(* abortproc, for one of the requests that wait to be acked. *)
Cancel(e) ==
  LET c == con[e] IN
  /\ e \in Cancellers /\ c.st = "open"
  /\ \E i \in DOMAIN c.reqs :
       Leaves(e, [c EXCEPT !.reqs = SubSeq(@, 1, i - 1) \o SubSeq(@, i + 1, Len(@)),
                           !.fault = IF @ = "no" THEN "aborted" ELSE @], {})

-----------------------------------------------------------------------------
TcpNext ==
  \/ \E e \in Ends : \E p \in net[e] :
       \/ Deliver(e, p, {p})
       \/ Dups /\ Deliver(e, p, {})
       \/ Lose(e, p)
  \/ \E e \in Ends : \E resend, probe \in BOOLEAN : Tick(e, resend, probe)
  \/ \E e \in Ends : Expire(e) \/ Connect(e) \/ Send(e) \/ Read(e) \/ Close(e) \/ AbortClose(e)
                    \/ Cancel(e)

TcpSpec == TcpInit /\ [][TcpNext]_tcpVars

-----------------------------------------------------------------------------
(* What a user has read is what the other has sent: no byte missing, none    *)
(* twice, none that is not its own, whatever becomes of the segments.       *)
StreamIntact == \A e \in Ends : IsPrefix(con[e].got, con[Peer(e)].log)

(* A user that is told the end of the data has all the other has sent. *)
EndMeansAll ==
  \A e \in Ends : con[e].eof =>
     /\ con[Peer(e)].closed
     /\ con[e].got \o Bytes(con[e], con[e].rem % WindowSize, con[e].lent) = con[Peer(e)].log

(* What has been acked has been received. *)
AckedReceived ==
  \A e \in Ends : con[e].st = "open" /\ con[Peer(e)].rsyn => con[e].una <= con[Peer(e)].rok

NeverCrashes == \A e \in Ends : ~con[e].crash
=============================================================================

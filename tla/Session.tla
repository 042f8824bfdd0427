------------------------------- MODULE Session -------------------------------
(* A shell and its server: client/shell.go and round_tripper.go on one side   *)
(* of a connection, server.go, executor.go and openDB of cmd/launcher.go on   *)
(* the other.  Connections break, requests and replies on them are lost, the  *)
(* server is stopped or dies and is started again; the shell dials again and  *)
(* sends the statement it has no answer for once more.  A statement is        *)
(* "begin", "commit", "abort" or a "write" that changes rows; which of the    *)
(* lines the user typed it was is its number.                                 *)
EXTENDS Naturals, Sequences, FiniteSets

CONSTANTS Scripts,    \* what the user may type: sequences of Kinds
          MaxLines,   \* the length of the longest
          MaxConns,   \* bound on the connections dialled
          MaxXID,     \* bound on the transactions: the lines that begin one, and those resent
          MaxFaults   \* bound on broken connections and server stops

Line == 1..MaxLines
Conn == 1..MaxConns
XID == 1..MaxXID
Kinds == {"begin", "commit", "abort", "write"}

VARIABLES script,   \* kinds of the lines typed
          sh,       \* the shell: [at, conn, retry, err], err the error Execute returned
          rt,       \* conn -> its roundTripper: [loop, ch, gone]
          net,      \* conn -> "none", "open" or "broken"
          req, rep, \* conn -> requests and replies on the way
          srv,      \* conn -> its goroutine in serve: [at, cur, res, xid, own], own: xid is
                    \* the statement's own transaction
          server,   \* "up", "closing" (not listening), "marked" (as closed cleanly),
                    \* "cut" (the log is closed), "closed" (the pages are), "down"
          tx,       \* xid -> [st, writes, late, left, end]: status, lines executed in it, those
                    \* that the shutdown may lose, left active by it, line that ended it
          shown,    \* line -> the answer printed
          faults

vars == <<script, sh, rt, net, req, rep, srv, server, tx, shown, faults>>

Ok == 1
Err == 2
Error == [line |-> 0, res |-> Err]   \* a network error in recvCh
NoAnswer == [line |-> 0, res |-> 0]
Answer == [line : 0..MaxLines, res : {0, Ok, Err}]
NewRT == [loop |-> "receive", ch |-> <<>>, gone |-> FALSE]
OldRT == [loop |-> "ended", ch |-> <<>>, gone |-> TRUE]
NewSrv == [at |-> "receive", cur |-> 0, res |-> 0, xid |-> 0, own |-> FALSE]
NoTx == [st |-> "none", writes |-> {}, late |-> {}, left |-> FALSE, end |-> 0]

TypeOK ==
  /\ \A i \in DOMAIN script : i \in Line /\ script[i] \in Kinds
  /\ sh \in [at : {"prompt", "send", "wait", "failed", "dial"}, conn : Conn, retry : BOOLEAN,
             err : Answer]
  /\ \A c \in Conn : /\ rt[c].loop \in {"receive", "mark", "ended"} /\ rt[c].gone \in BOOLEAN
                     /\ Len(rt[c].ch) <= 1 /\ \A i \in DOMAIN rt[c].ch : rt[c].ch[i] \in Answer
  /\ net \in [Conn -> {"none", "open", "broken"}]
  /\ srv \in [Conn -> [at : {"receive", "execute", "run", "hung", "end", "reply", "close", "done"},
                       cur : 0..MaxLines, res : {0, Ok, Err}, xid : 0..MaxXID,
                       own : BOOLEAN]]
  /\ server \in {"up", "closing", "marked", "cut", "closed", "down"}
  /\ tx \in [XID -> [st : {"none", "active", "committed", "aborted"}, writes : SUBSET Line,
                     late : SUBSET Line, left : BOOLEAN, end : 0..MaxLines]]
  /\ shown \in [Line -> Answer]
  /\ faults \in 0..MaxFaults

Init ==
  /\ script = <<>>
  /\ sh = [at |-> "prompt", conn |-> 1, retry |-> FALSE, err |-> NoAnswer]
  /\ rt = [c \in Conn |-> NewRT]
  /\ net = [c \in Conn |-> IF c = 1 THEN "open" ELSE "none"]
  /\ req = [c \in Conn |-> <<>>] /\ rep = [c \in Conn |-> <<>>]
  /\ srv = [c \in Conn |-> NewSrv]
  /\ server = "up"
  /\ tx = [x \in XID |-> NoTx]
  /\ shown = [i \in Line |-> NoAnswer]
  /\ faults = 0
-----------------------------------------------------------------------------
(* The shell.  Run and runSimple send a line with client.Execute: *)
Here == sh.conn
Current == Len(script)
Goto(at) == sh' = [sh EXCEPT !.at = at]
Returns(err) == sh' = [sh EXCEPT !.at = "failed", !.err = err]
Prompt == sh' = [sh EXCEPT !.at = "prompt", !.retry = FALSE, !.err = NoAnswer]

Enter(kind) ==
  /\ sh.at = "prompt"
  /\ script' = Append(script, kind)
  /\ \E full \in Scripts : Len(script') <= Len(full) /\ SubSeq(full, 1, Len(script')) = script'
  /\ Goto("send")
  /\ UNCHANGED <<rt, net, req, rep, srv, server, tx, shown, faults>>

(* RoundTrip sends.  A Send on a connection the peer has closed may fail or  *)
(* be swallowed.                                                             *)
RoundTripSend ==
  /\ sh.at = "send"
  /\ \/ /\ net[Here] = "open"
        /\ req' = [req EXCEPT ![Here] = Append(@, Current)]
        /\ Goto("wait") /\ UNCHANGED rt
     \/ net[Here] = "broken" /\ Goto("wait") /\ UNCHANGED <<req, rt>>
     \/ /\ net[Here] = "broken" /\ Returns(Error)
        /\ rt' = [rt EXCEPT ![Here].gone = TRUE]
        /\ UNCHANGED req
  /\ UNCHANGED <<script, net, rep, srv, server, tx, shown, faults>>

(* RoundTrip takes what receiveLoop put in recvCh.  Execute returns an error *)
(* of the network and one the server answered alike.                         *)
RoundTripReceive ==
  /\ sh.at = "wait" /\ rt[Here].ch # <<>>
  /\ rt' = [rt EXCEPT ![Here].ch = Tail(@)]
  /\ IF Head(rt[Here].ch).res = Err
       THEN Returns(Head(rt[Here].ch)) /\ UNCHANGED shown
       ELSE Prompt /\ shown' = [shown EXCEPT ![Current] = Head(rt[Here].ch)]
  /\ UNCHANGED <<script, net, req, rep, srv, server, tx, faults>>

(* Execute returned an error.  IsConnected tells whether to reconnect and    *)
(* execute the line once more.                                               *)
Failed ==
  /\ sh.at = "failed"
  /\ IF rt[Here].gone /\ ~sh.retry
       THEN sh' = [sh EXCEPT !.at = "dial", !.retry = TRUE, !.err = NoAnswer] /\ UNCHANGED shown
       ELSE Prompt /\ shown' = [shown EXCEPT ![Current] = sh.err]
  /\ UNCHANGED <<script, rt, net, req, rep, srv, server, tx, faults>>

(* The select finds disconnCh closed while the user is typing. *)
handleDisconnect ==
  /\ sh.at = "prompt" /\ rt[Here].gone
  /\ Goto("dial")
  /\ UNCHANGED <<script, rt, net, req, rep, srv, server, tx, shown, faults>>

(* Mutant of Reconnect: the channel of the old roundTripper is kept. *)
ReconnectOldChannel ==
  LET c == Here + 1 IN
  /\ sh.at = "dial" /\ Here < MaxConns /\ server = "up"
  /\ sh' = [sh EXCEPT !.conn = c, !.at = IF sh.retry THEN "send" ELSE "prompt"]
  /\ net' = [net EXCEPT ![c] = "open"]
  /\ rep' = [rep EXCEPT ![Here] = <<>>]
  /\ rt' = [rt EXCEPT ![Here] = OldRT, ![c].ch = rt[Here].ch]
  /\ UNCHANGED <<script, req, srv, server, tx, shown, faults>>

(* reconnect: the old connection is closed, dial tries until the server      *)
(* listens; the new roundTripper starts with nothing received.  The old one, *)
(* which nobody refers to, is dropped with what it still receives.           *)
Reconnect ==
  LET c == Here + 1 IN
  /\ sh.at = "dial" /\ Here < MaxConns /\ server = "up"
  /\ sh' = [sh EXCEPT !.conn = c, !.at = IF sh.retry THEN "send" ELSE "prompt"]
  /\ net' = [net EXCEPT ![c] = "open"]
  /\ rt' = [rt EXCEPT ![Here] = OldRT]
  /\ rep' = [rep EXCEPT ![Here] = <<>>]
  /\ UNCHANGED <<script, req, srv, server, tx, shown, faults>>
-----------------------------------------------------------------------------
(* receiveLoop, which blocks while recvCh is full: a reply, *)
LoopReceive(c) ==
  /\ rt[c].loop = "receive" /\ rep[c] # <<>> /\ rt[c].ch = <<>>
  /\ rt' = [rt EXCEPT ![c].ch = <<Head(rep[c])>>]
  /\ rep' = [rep EXCEPT ![c] = Tail(@)]
  /\ UNCHANGED <<script, sh, net, req, srv, server, tx, shown, faults>>

(* or an error, which is put in recvCh *)
LoopError(c) ==
  /\ rt[c].loop = "receive" /\ net[c] = "broken" /\ rep[c] = <<>> /\ rt[c].ch = <<>>
  /\ rt' = [rt EXCEPT ![c].ch = <<Error>>, ![c].loop = "mark"]
  /\ UNCHANGED <<script, sh, net, req, rep, srv, server, tx, shown, faults>>

(* before the connection is marked as gone. *)
LoopMark(c) ==
  /\ rt[c].loop = "mark"
  /\ rt' = [rt EXCEPT ![c].loop = "ended", ![c].gone = TRUE]
  /\ UNCHANGED <<script, sh, net, req, rep, srv, server, tx, shown, faults>>
-----------------------------------------------------------------------------
Alive(c, at) == server # "down" /\ net[c] # "none" /\ srv[c].at = at

(* serve: a request, or the end of the connection. *)
ServeReceive(c) ==
  /\ Alive(c, "receive")
  /\ \/ /\ req[c] # <<>>
        /\ srv' = [srv EXCEPT ![c].at = "execute", ![c].cur = Head(req[c])]
        /\ req' = [req EXCEPT ![c] = Tail(@)]
     \/ /\ req[c] = <<>> /\ net[c] = "broken"
        /\ srv' = [srv EXCEPT ![c].at = "close"]
        /\ UNCHANGED req
  /\ UNCHANGED <<script, sh, rt, net, rep, server, tx, shown, faults>>

Fresh == CHOOSE x \in XID : tx[x].st = "none" /\ \A y \in XID : y < x => tx[y].st # "none"
Replies(c, res, x) == srv' = [srv EXCEPT ![c].at = "reply", ![c].res = res, ![c].xid = x]

Doing(c, kind) == Alive(c, "execute") /\ script[srv[c].cur] = kind

(* Execute: begin, commit and abort, refused in the wrong state, *)
ExecuteBegin(c) ==
  /\ Doing(c, "begin")
  /\ IF srv[c].xid # 0
       THEN Replies(c, Err, srv[c].xid) /\ UNCHANGED tx
       ELSE Replies(c, Ok, Fresh) /\ tx' = [tx EXCEPT ![Fresh].st = "active"]
  /\ UNCHANGED <<script, sh, rt, net, req, rep, server, shown, faults>>

(* (mutant of ExecuteEnd: no transaction is needed) *)
ExecuteEndAlways(c, kind, st) ==
  /\ Doing(c, kind)
  /\ Replies(c, Ok, 0)
  /\ tx' = IF srv[c].xid = 0 THEN tx
           ELSE [tx EXCEPT ![srv[c].xid].st = st, ![srv[c].xid].end = srv[c].cur]
  /\ UNCHANGED <<script, sh, rt, net, req, rep, server, shown, faults>>

(* A commit of a transaction SM aborted by itself is refused as well, and   *)
(* leaves the connection in it.                                              *)
ExecuteEnd(c, kind, st) ==
  /\ Doing(c, kind)
  /\ IF srv[c].xid = 0 \/ (kind = "commit" /\ tx[srv[c].xid].st # "active")
       THEN Replies(c, Err, srv[c].xid) /\ UNCHANGED tx
       ELSE Replies(c, Ok, 0) /\ tx' = [tx EXCEPT ![srv[c].xid].st = st, ![srv[c].xid].end = srv[c].cur]
  /\ UNCHANGED <<script, sh, rt, net, req, rep, server, shown, faults>>

(* and execute2: in the open transaction, or in one of its own.  The         *)
(* statement may wait for a lock of another connection, which may never be   *)
(* given back, or run into one of the loops that do not end (DeleteReturns,  *)
(* AddReturns, ParseReturns): then it is "hung".                             *)
execute2(c) ==
  /\ Doing(c, "write")
  /\ \E at \in {"run", "hung"} :
       IF srv[c].xid # 0
         THEN srv' = [srv EXCEPT ![c].at = at] /\ UNCHANGED tx
         ELSE /\ srv' = [srv EXCEPT ![c].at = at, ![c].xid = Fresh, ![c].own = TRUE]
              /\ tx' = [tx EXCEPT ![Fresh].st = "active"]
  /\ UNCHANGED <<script, sh, rt, net, req, rep, server, shown, faults>>

(* The statement.  It may fail; by a conflict it makes SM abort the          *)
(* transaction, in which all fails from then on.  Once dm.Close has closed   *)
(* the log an insertion fails and a deletion does not (data_item.go:101);    *)
(* its page may have been flushed before.                                    *)
Statement(c) ==
  LET x == srv[c].xid
      Done(res) == srv' = [srv EXCEPT ![c].at = IF srv[c].own THEN "end" ELSE "reply", ![c].res = res] IN
  /\ Alive(c, "run")
  /\ \/ /\ tx[x].st = "active" /\ Done(Ok)
        /\ tx' = IF server \in {"cut", "closed"} THEN [tx EXCEPT ![x].late = @ \cup {srv[c].cur}]
                 ELSE [tx EXCEPT ![x].writes = @ \cup {srv[c].cur}]
     \/ Done(Err) /\ UNCHANGED tx
     \/ tx[x].st = "active" /\ Done(Err) /\ tx' = [tx EXCEPT ![x].st = "aborted"]
  /\ UNCHANGED <<script, sh, rt, net, req, rep, server, shown, faults>>

(* The lock is given. *)
GoOn(c) ==
  /\ Alive(c, "hung")
  /\ srv' = [srv EXCEPT ![c].at = "run"]
  /\ UNCHANGED <<script, sh, rt, net, req, rep, server, tx, shown, faults>>

(* The deferred end of its own transaction. *)
execute2End(c) ==
  LET x == srv[c].xid IN
  /\ Alive(c, "end")
  /\ srv' = [srv EXCEPT ![c].at = "reply", ![c].xid = 0, ![c].own = FALSE]
  /\ tx' = [tx EXCEPT ![x].end = srv[c].cur,
                      ![x].st = IF srv[c].res = Ok THEN "committed" ELSE "aborted"]
  /\ UNCHANGED <<script, sh, rt, net, req, rep, server, shown, faults>>

(* Mutant of ServeReply: a statement that failed is not answered. *)
ServeReplyOnlyOk(c) ==
  /\ Alive(c, "reply")
  /\ rep' = IF net[c] = "open" /\ srv[c].res = Ok
              THEN [rep EXCEPT ![c] = Append(@, [line |-> srv[c].cur, res |-> srv[c].res])] ELSE rep
  /\ srv' = [srv EXCEPT ![c] = [NewSrv EXCEPT !.xid = srv[c].xid]]
  /\ UNCHANGED <<script, sh, rt, net, req, server, tx, shown, faults>>

(* The reply; on a connection that is gone it may fail or be swallowed. *)
ServeReply(c) ==
  /\ Alive(c, "reply")
  /\ \/ /\ net[c] = "open"
        /\ rep' = [rep EXCEPT ![c] = Append(@, [line |-> srv[c].cur, res |-> srv[c].res])]
        /\ srv' = [srv EXCEPT ![c] = [NewSrv EXCEPT !.xid = srv[c].xid]]
     \/ /\ net[c] = "broken"
        /\ \E at \in {"receive", "close"} :
             srv' = [srv EXCEPT ![c] = [NewSrv EXCEPT !.at = at, !.xid = srv[c].xid]]
        /\ UNCHANGED rep
  /\ UNCHANGED <<script, sh, rt, net, req, server, tx, shown, faults>>

(* Mutant of ServeClose: the open transaction is forgotten. *)
ServeCloseForgets(c) ==
  /\ Alive(c, "close")
  /\ srv' = [srv EXCEPT ![c] = [NewSrv EXCEPT !.at = "done"]]
  /\ UNCHANGED <<script, sh, rt, net, req, rep, server, tx, shown, faults>>

(* The deferred executor.Close. *)
ServeClose(c) ==
  /\ Alive(c, "close")
  /\ tx' = IF srv[c].xid = 0 THEN tx ELSE [tx EXCEPT ![srv[c].xid].st = "aborted"]
  /\ srv' = [srv EXCEPT ![c] = [NewSrv EXCEPT !.at = "done"]]
  /\ UNCHANGED <<script, sh, rt, net, req, rep, server, shown, faults>>
-----------------------------------------------------------------------------
Lose(q) == {q, [c \in Conn |-> <<>>]}

(* A connection breaks; what is on the way arrives or is lost. *)
Break(c) ==
  /\ net[c] = "open" /\ faults < MaxFaults
  /\ faults' = faults + 1
  /\ net' = [net EXCEPT ![c] = "broken"]
  /\ req' \in Lose(req) /\ rep' \in Lose(rep)
  /\ UNCHANGED <<script, sh, rt, srv, server, tx, shown>>

(* openDB: on a signal the listener is closed and Start returns, *)
Signal ==
  /\ server = "up" /\ faults < MaxFaults
  /\ faults' = faults + 1 /\ server' = "closing"
  /\ UNCHANGED <<script, sh, rt, net, req, rep, srv, tx, shown>>

(* dm.Close runs while connections are still served: page 1 is marked, the   *)
(* log is closed, then the pages are flushed and their file is closed.       *)
CloseDM(from, to) ==
  /\ server = from /\ server' = to
  /\ UNCHANGED <<script, sh, rt, net, req, rep, srv, tx, shown, faults>>

CloseMark == CloseDM("closing", "marked")
CloseLog == CloseDM("marked", "cut")
ClosePages == CloseDM("cut", "closed")

(* What is left of the process for others. *)
Down ==
  /\ server' = "down"
  /\ net' = [c \in Conn |-> IF net[c] = "open" THEN "broken" ELSE net[c]]
  /\ srv' = [c \in Conn |-> IF net[c] = "none" THEN srv[c] ELSE [NewSrv EXCEPT !.at = "done"]]
  /\ req' = [c \in Conn |-> <<>>] /\ rep' \in Lose(rep)
  /\ UNCHANGED <<script, sh, rt, shown>>

Left == [x \in XID |-> [tx[x] EXCEPT !.left = @ \/ tx[x].st = "active"]]

(* openDB returns.  The next dm.Open finds the mark and does not recover:    *)
(* what was active stays so, with no goroutine that will end it.             *)
Exit ==
  /\ server = "closed"
  /\ Down /\ tx' = Left
  /\ UNCHANGED faults

(* The process dies.  dm.Open recovers: what was active is aborted, also     *)
(* what an earlier Exit left; unless page 1 is marked already, when all that *)
(* was not yet flushed is lost, too.                                         *)
Die ==
  /\ server \in {"up", "closing", "marked", "cut"} /\ faults < MaxFaults
  /\ faults' = faults + 1
  /\ Down
  /\ tx' = IF server \in {"marked", "cut"}
             THEN [x \in XID |-> [Left[x] EXCEPT !.late = @ \cup tx[x].writes]]
             ELSE [x \in XID |-> IF tx[x].st = "active" THEN [tx[x] EXCEPT !.st = "aborted"] ELSE tx[x]]

Start ==
  /\ server = "down" /\ server' = "up"
  /\ UNCHANGED <<script, sh, rt, net, req, rep, srv, tx, shown, faults>>

ShellStep == RoundTripSend \/ RoundTripReceive \/ Failed \/ Reconnect
LoopStep(c) == LoopReceive(c) \/ LoopError(c) \/ LoopMark(c)
ServeStep(c) ==
  \/ ServeReceive(c) \/ ExecuteBegin(c)
  \/ ExecuteEnd(c, "commit", "committed") \/ ExecuteEnd(c, "abort", "aborted")
  \/ execute2(c) \/ Statement(c) \/ execute2End(c)
  \/ ServeReply(c) \/ ServeClose(c)

Next ==
  \/ ShellStep \/ handleDisconnect \/ \E kind \in Kinds : Enter(kind)
  \/ \E c \in Conn : LoopStep(c) \/ ServeStep(c) \/ GoOn(c) \/ Break(c)
  \/ Signal \/ CloseMark \/ CloseLog \/ ClosePages \/ Exit \/ Die \/ Start

Spec == Init /\ [][Next]_vars

(* Goroutines are scheduled; of the receive loops only that of the current   *)
(* connection has anything to do.  A statement that hangs need not go on;    *)
(* nobody has to type, to break or to restart anything.                      *)
FairSpec ==
  /\ Spec /\ WF_vars(ShellStep) /\ WF_vars(LoopStep(Here))
  /\ \A c \in Conn : WF_vars(ServeStep(c))
-----------------------------------------------------------------------------
Effects(k) == {x \in XID : k \in tx[x].writes \cup tx[x].late /\ tx[x].st = "committed"}

(* The shell sends a statement again once (shell.go:131): whatever breaks,   *)
(* one line takes effect at most twice, and the answer printed for it is the *)
(* server's answer to it, never that of an earlier statement or of an        *)
(* abandoned connection.                                                     *)
LinesAccounted ==
  \A k \in Line : Cardinality(Effects(k)) <= 2 /\ shown[k].line \in {0, k}

Answered(k, kind) == k \in DOMAIN script /\ script[k] = kind /\ shown[k].res = Ok

(* Commit k was answered ok, and so was begin b, the last statement before   *)
(* it, other than writes, that was.                                          *)
Block(b, k) ==
  /\ b < k /\ Answered(b, "begin") /\ Answered(k, "commit")
  /\ \A j \in (b + 1)..(k - 1) : ~\E kind \in Kinds \ {"write"} : Answered(j, kind)

(* A commit that is answered ok has committed every write answered ok since  *)
(* the last begin answered ok, in one transaction; although connections and  *)
(* the server were lost and found again in between.  The writes are on disk, *)
(* except those the shutdown may lose: made after dm.Close closed the log,   *)
(* or not yet flushed when the process died inside dm.Close (then they are   *)
(* late, see WritesAreKept).                                                 *)
CommitIsWhole ==
  \A b, k \in Line : Block(b, k) =>
    \E x \in XID : /\ tx[x].end = k /\ tx[x].st = "committed"
                   /\ \A j \in b..k : Answered(j, "write") => j \in tx[x].writes \cup tx[x].late

(* data_manager.go:155, "the caller must ensure all transactions are         *)
(* resolved before calling Close": no write that was answered ok and         *)
(* committed is lost.  The code does not keep this.                          *)
WritesAreKept ==
  \A b, k \in Line : Block(b, k) => \A x \in XID : tx[x].end = k => tx[x].late = {}

(* A transaction whose connection is gone is ended (executor.go:34): no      *)
(* order of statements, breaks and restarts leaves one, with its locks, that *)
(* nobody will end, so that again and again there is none.  Two are          *)
(* excepted: one whose goroutine hangs in a statement, which keeps it from   *)
(* seeing that the connection is gone, and one left by a shutdown, which     *)
(* nobody ends before the next recovery (see NoTransactionsRemain).          *)
OrphansEnd ==
  []<>(\A x \in XID :
         tx[x].st = "active" /\ ~tx[x].left =>
           \E c \in Conn : srv[c].xid = x /\ (net[c] = "open" \/ srv[c].at = "hung"))

(* server.go:54, "ensuring no transactions remain": a shutdown leaves none.  *)
(* The code does not keep this.                                              *)
NoTransactionsRemain == \A x \in XID : ~tx[x].left

(* RoundTrip waits on a channel nobody will write to (round_tripper.go:57).  *)
Stuck == sh.at = "wait" /\ net[Here] = "broken" /\ rt[Here].loop = "ended" /\ rt[Here].ch = <<>>

(* The shell comes back to its prompt after every line, by an answer, an     *)
(* error or a new connection, as long as there is a server; except that it   *)
(* waits while the server's statement hangs (neither side has a timeout),    *)
(* and may be stuck in the window between an error and its mark.             *)
PromptReturns ==
  sh.at # "prompt" ~>
    \/ sh.at = "prompt" \/ server # "up" \/ Stuck
    \/ net[Here] = "open" /\ srv[Here].at = "hung"
    \/ sh.at = "dial" /\ Here = MaxConns

(* readme.md:105, the client reconnects by itself: it is never stuck.  The   *)
(* code does not keep this.                                                  *)
NeverStuck == ~Stuck

(* A line typed after begin takes effect with the commit or not at all.  The *)
(* code does not keep this: the line may be executed again on a connection   *)
(* that knows nothing of the begin.                                          *)
BlockIsAtomic ==
  \A b, k \in Line :
    (/\ b < k /\ Answered(b, "begin")
     /\ \A j \in (b + 1)..k : j \in DOMAIN script /\ script[j] = "write") =>
      Effects(k) = {}
=============================================================================

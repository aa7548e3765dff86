------------------------------- MODULE Server -------------------------------
(***************************************************************************)
(* CServerFrame (server/ServerFrame.cpp): the main thread accepts, reads a *)
(* request and hands it to the worker thread its url hashes to; a signal   *)
(* handler, which interrupts any thread of the process, shuts all down.    *)
(*                                                                         *)
(* A queue is a bounded sequence, as RingQueueProofs shows of ring_queue.  *)
(* A worker's cache is the set of urls it once stored: whether one is      *)
(* still there is left open, that a hit is its page is shown of DdCache.   *)
(***************************************************************************)
EXTENDS Integers, Sequences

CONSTANTS
  ThreadCount,  \* m_nThreadCount
  QueueMax,     \* QUEUE_MAX_LEN
  Conns,        \* the clients' connections, each made once
  Urls, NoUrl,  \* NoUrl: the empty one, of "url=" and of a request without a url
  Home,         \* the queue of a url, hash_wrap(url) & (m_nThreadCount - 1)
  Test,         \* closeServer's connection to its own server
  NoSock        \* SOCKET_ERROR, -1

Threads == 0..(ThreadCount - 1)

ASSUME CountAssumption == ThreadCount \in Nat \ {0} /\ QueueMax \in Nat \ {0}
ASSUME HomeAssumption  == NoUrl \in Urls /\ Home \in [Urls -> Threads]
ASSUME SockAssumption  == Test \notin Conns /\ NoSock \notin Conns /\ NoSock # Test

VARIABLES
  shutdown,  \* m_bShutdown
  lsn,       \* m_lsnSock: "listening", "held" (closed, but accept is in it), "closed"
  sock,      \* each connection: "new", "backlog" (of listen), "open", "closed"
  asked,     \* history: the request read from each connection
  apc, cur,  \* the main thread and the request in its hand, an SSockItem
  created,   \* how many worker threads there are
  queue,     \* vrq
  wpc, item, \* the worker threads and the sSock of each
  str,       \* strSend of each, which lives as long as the thread
  pages,     \* the urls each has stored
  hpc, on    \* closeServer and the thread whose stack it runs on

main    == <<asked, apc, cur, created>>
workers == <<wpc, item, str, pages>>
handler == <<shutdown, hpc, on>>
vars == <<handler, lsn, sock, main, queue, workers>>

Main  == -1
NoOne == -2

Socks  == Conns \cup {Test}
Item   == [sock : Socks \cup {NoSock}, url : Urls, home : Threads, debug : BOOLEAN]
Asked  == [url : Urls, debug : BOOLEAN]
Nothing == [url |-> NoUrl, debug |-> FALSE]
Invalid == [sock |-> NoSock, url |-> NoUrl, home |-> 0, debug |-> FALSE]

\* What a worker sends: a page, the view of its header, or the error text.
Page(u) == <<"page", u>>
Header  == <<"header", NoUrl>>
Error   == <<"error", NoUrl>>
NoText  == <<"", NoUrl>>
Texts   == {Page(u) : u \in Urls} \cup {Header, Error, NoText}

Init ==
  /\ shutdown = FALSE /\ hpc = "idle" /\ on = NoOne
  /\ lsn = "listening" /\ sock = [s \in Socks |-> "new"]
  /\ asked = [s \in Socks |-> Nothing]
  /\ apc = "create" /\ cur = Invalid /\ created = 0
  /\ queue = [w \in Threads |-> <<>>]
  /\ wpc = [w \in Threads |-> "none"] /\ item = [w \in Threads |-> Invalid]
  /\ str = [w \in Threads |-> NoText] /\ pages = [w \in Threads |-> {}]

\* When the listening socket is gone its backlog is reset.
Reset == [s \in Socks |-> IF sock[s] = "backlog" THEN "closed" ELSE sock[s]]
\* close(fd), which does nothing to SOCKET_ERROR.
Closed(x) == [s \in Socks |-> IF s = x THEN "closed" ELSE sock[s]]

Connect(c) ==
  /\ sock[c] = "new" /\ lsn # "closed"
  /\ sock' = [sock EXCEPT ![c] = "backlog"]
  /\ UNCHANGED <<handler, lsn, main, queue, workers>>

-----------------------------------------------------------------------------
(* runServer, in the main thread.                                          *)

CreateThread ==
  /\ apc = "create" /\ on # Main
  /\ created' = created + 1 /\ wpc' = [wpc EXCEPT ![created] = "poll"]
  /\ apc' = IF created' = ThreadCount THEN "check" ELSE "create"
  /\ UNCHANGED <<handler, lsn, sock, asked, cur, queue, item, str, pages>>

\* pthread_create fails: the server runs with the threads it has, if any.
CreateFails ==
  /\ apc = "create" /\ on # Main
  /\ apc' = IF created = 0 THEN "failed" ELSE "check"
  /\ UNCHANGED <<handler, lsn, sock, asked, cur, created, queue, workers>>

CheckLoop ==
  /\ apc = "check" /\ on # Main
  /\ apc' = IF shutdown THEN "join" ELSE "accept"
  /\ UNCHANGED <<handler, lsn, sock, asked, cur, created, queue, workers>>

\* accept on a closed descriptor, or one that is now some other socket, fails.
EnterAccept ==
  /\ apc = "accept" /\ on # Main
  /\ apc' = IF lsn = "listening" THEN "waiting" ELSE "accepted"
  /\ UNCHANGED <<handler, lsn, sock, asked, cur, created, queue, workers>>

AcceptConn(s) ==
  /\ apc = "waiting" /\ on # Main /\ sock[s] = "backlog"
  /\ apc' = "accepted" /\ cur' = [Invalid EXCEPT !.sock = s]
  /\ IF lsn = "held" THEN lsn' = "closed" /\ sock' = [Reset EXCEPT ![s] = "open"]
                     ELSE sock' = [sock EXCEPT ![s] = "open"] /\ UNCHANGED lsn
  /\ UNCHANGED <<handler, asked, created, queue, workers>>

\* The system call fails for a reason of its own.
AcceptError ==
  /\ apc = "waiting" /\ on # Main
  /\ apc' = "accepted"
  /\ IF lsn = "held" THEN lsn' = "closed" /\ sock' = Reset ELSE UNCHANGED <<lsn, sock>>
  /\ UNCHANGED <<handler, asked, cur, created, queue, workers>>

AcceptChecked ==
  /\ apc = "accepted" /\ on # Main
  /\ apc' = IF cur.sock = NoSock /\ ~shutdown THEN "check" ELSE "recv"
  /\ UNCHANGED <<handler, lsn, sock, asked, cur, created, queue, workers>>

\* The loop of recv ends, with " HTTP", an error, a timeout or the end, and what
\* it gave is parsed.  SOCKET_ERROR and the test connection give nothing.
\* A url is hashed also when it is empty; without one sSock.hasher is 0.
Receive(r, home) ==
  /\ apc = "recv" /\ on # Main
  /\ cur.sock \in Conns \/ (r = Nothing /\ home = 0)
  /\ home = Home[r.url] \/ (r.url = NoUrl /\ home = 0)
  /\ apc' = "push"
  /\ cur' = [sock |-> cur.sock, url |-> r.url, home |-> home, debug |-> r.debug]
  /\ asked' = [s \in Socks |-> IF s = cur.sock THEN r ELSE asked[s]]
  /\ UNCHANGED <<handler, lsn, sock, created, queue, workers>>

\* view=1: the main thread answers with the indices of the queues.
ReceiveView ==
  /\ apc = "recv" /\ on # Main
  /\ cur.sock \in Conns
  /\ apc' = "check" /\ cur' = Invalid /\ sock' = Closed(cur.sock)
  /\ UNCHANGED <<handler, lsn, asked, created, queue, workers>>

FullTooLate(q) == Len(q) > QueueMax
Full(q) == Len(q) = QueueMax

Push ==
  /\ apc = "push" /\ on # Main /\ ~Full(queue[cur.home])
  /\ apc' = "check" /\ cur' = Invalid /\ queue' = [queue EXCEPT ![cur.home] = Append(@, cur)]
  /\ UNCHANGED <<handler, lsn, sock, asked, created, workers>>

RefuseKept ==
  /\ apc = "push" /\ on # Main /\ Full(queue[cur.home])
  /\ apc' = "check" /\ cur' = Invalid
  /\ UNCHANGED <<handler, lsn, sock, asked, created, queue, workers>>

RefuseToNext ==
  LET next == (cur.home + 1) % ThreadCount IN
  /\ apc = "push" /\ on # Main /\ Full(queue[cur.home]) /\ ~Full(queue[next])
  /\ apc' = "check" /\ cur' = Invalid /\ queue' = [queue EXCEPT ![next] = Append(@, cur)]
  /\ UNCHANGED <<handler, lsn, sock, asked, created, workers>>

Refuse ==
  /\ apc = "push" /\ on # Main /\ Full(queue[cur.home])
  /\ apc' = "check" /\ cur' = Invalid /\ sock' = Closed(cur.sock)
  /\ UNCHANGED <<handler, lsn, asked, created, queue, workers>>

Join ==
  /\ apc = "join" /\ on # Main
  /\ \A w \in Threads : w < created => wpc[w] = "exited"
  /\ apc' = "ended"
  /\ UNCHANGED <<handler, lsn, sock, asked, cur, created, queue, workers>>

-----------------------------------------------------------------------------
(* serverThread w.                                                         *)

\* One round of polling ends; the test of the outer loop before it asks the
\* same of m_bShutdown.
Poll(w) ==
  /\ wpc[w] = "poll" /\ on # w
  /\ queue[w] # <<>> \/ shutdown
  /\ wpc' = [wpc EXCEPT ![w] = "check"]
  /\ UNCHANGED <<handler, lsn, sock, main, queue, item, str, pages>>

CheckSkipped(w) ==
  /\ wpc[w] = "check" /\ on # w
  /\ wpc' = [wpc EXCEPT ![w] = "take"]
  /\ UNCHANGED <<handler, lsn, sock, main, queue, item, str, pages>>

CheckShutdown(w) ==
  /\ wpc[w] = "check" /\ on # w
  /\ wpc' = [wpc EXCEPT ![w] = IF shutdown THEN "exited" ELSE "take"]
  /\ UNCHANGED <<handler, lsn, sock, main, queue, item, str, pages>>

Take(w) ==
  /\ wpc[w] = "take" /\ on # w
  /\ wpc' = [wpc EXCEPT ![w] = "serve"]
  /\ IF queue[w] = <<>>
       THEN item' = [item EXCEPT ![w] = Invalid] /\ UNCHANGED queue
       ELSE item' = [item EXCEPT ![w] = Head(queue[w])] /\ queue' = [queue EXCEPT ![w] = Tail(@)]
  /\ UNCHANGED <<handler, lsn, sock, main, str, pages>>

Answer(w, text) ==
  /\ on # w
  /\ wpc' = [wpc EXCEPT ![w] = "send"] /\ str' = [str EXCEPT ![w] = text]
  /\ UNCHANGED <<handler, lsn, sock, main, queue, item>>

ServeDebug(w) ==
  /\ wpc[w] = "serve" /\ item[w].debug
  /\ Answer(w, Header) /\ UNCHANGED pages

Hit(w) ==
  /\ wpc[w] = "serve" /\ ~item[w].debug /\ item[w].url \in pages[w]
  /\ Answer(w, Page(item[w].url)) /\ UNCHANGED pages

Miss(w) ==
  /\ wpc[w] = "serve" /\ ~item[w].debug /\ on # w
  /\ wpc' = [wpc EXCEPT ![w] = "fetch"]
  /\ UNCHANGED <<handler, lsn, sock, main, queue, item, str, pages>>

\* getUrl found the host, connected and sent its GET; res, which is strSend, is
\* emptied.  There is no host of an empty name.
Requested(w) ==
  /\ wpc[w] = "fetch" /\ on # w /\ item[w].url # NoUrl
  /\ wpc' = [wpc EXCEPT ![w] = "recv"] /\ str' = [str EXCEPT ![w] = NoText]
  /\ UNCHANGED <<handler, lsn, sock, main, queue, item, pages>>

FetchFailsStale(w) ==
  /\ wpc[w] = "fetch" /\ Answer(w, str[w]) /\ UNCHANGED pages

FetchFailsForgets(w) ==
  /\ wpc[w] = "fetch" /\ on # w
  /\ wpc' = [wpc EXCEPT ![w] = "poll"]
  /\ UNCHANGED <<handler, lsn, sock, main, queue, item, str, pages>>

FetchFails(w) ==
  /\ wpc[w] = "fetch" /\ Answer(w, Error) /\ UNCHANGED pages

\* The loop of recv ends with the page in strSend; put may store it or not.
Fetched(w) ==
  /\ wpc[w] = "recv"
  /\ Answer(w, Page(item[w].url))
  /\ pages' = [pages EXCEPT ![w] = @ \cup {item[w].url}]

\* It ends with an error or a timeout.
RecvFails(w) ==
  /\ wpc[w] = "recv" /\ Answer(w, Error) /\ UNCHANGED pages

\* The next round overwrites sSock before it looks at it.
Send(w) ==
  /\ wpc[w] = "send" /\ on # w
  /\ wpc' = [wpc EXCEPT ![w] = "poll"] /\ sock' = Closed(item[w].sock)
  /\ item' = [item EXCEPT ![w] = Invalid]
  /\ UNCHANGED <<handler, lsn, main, queue, str, pages>>

-----------------------------------------------------------------------------
(* closeServer, called by the handler of SIGUSR1 on any thread's stack.    *)

\* A thread in accept leaves it for the handler and enters it again after.
Signal(t) ==
  /\ hpc = "idle" /\ apc \notin {"ended", "failed"}
  /\ t \in {Main} \cup {w \in Threads : wpc[w] \notin {"none", "exited"}}
  /\ shutdown' = TRUE /\ hpc' = "close" /\ on' = t
  /\ apc' = IF t = Main /\ apc = "waiting" THEN "accept" ELSE apc
  /\ UNCHANGED <<lsn, sock, asked, cur, created, queue, workers>>

\* Closing a socket does not wake the thread that is in accept on it.
CloseListen ==
  /\ hpc = "close" /\ hpc' = "connect"
  /\ IF apc = "waiting" THEN lsn' = "held" /\ UNCHANGED sock
                        ELSE lsn' = "closed" /\ sock' = Reset
  /\ UNCHANGED <<shutdown, on, main, queue, workers>>

TestForgotten ==
  /\ hpc = "connect" /\ hpc' = "done" /\ on' = NoOne
  /\ UNCHANGED <<shutdown, lsn, sock, main, queue, workers>>

\* It is accepted by a thread still in accept, and refused otherwise.
TestConnect ==
  /\ hpc = "connect" /\ hpc' = "done" /\ on' = NoOne
  /\ sock' = [sock EXCEPT ![Test] = IF lsn = "held" THEN "backlog" ELSE "closed"]
  /\ UNCHANGED <<shutdown, lsn, main, queue, workers>>

\* runServer has returned and the process exits.
Exited == apc \in {"ended", "failed"} /\ UNCHANGED vars

-----------------------------------------------------------------------------
AcceptorMoves ==
  \/ CreateThread \/ CreateFails \/ CheckLoop \/ EnterAccept
  \/ \E s \in Socks : AcceptConn(s)
  \/ AcceptChecked \/ Push \/ Refuse \/ Join

AcceptorStep ==
  \/ AcceptorMoves
  \/ (\E r \in Asked, home \in Threads : Receive(r, home)) \/ ReceiveView

WorkerMoves(w) ==
  \/ Poll(w) \/ CheckShutdown(w) \/ Take(w)
  \/ ServeDebug(w) \/ Hit(w) \/ Miss(w) \/ Requested(w) \/ FetchFails(w) \/ Send(w)

WorkerStep(w) == WorkerMoves(w) \/ Fetched(w) \/ RecvFails(w)

HandlerStep == CloseListen \/ TestConnect

Next ==
  \/ AcceptorStep \/ AcceptError
  \/ \E w \in Threads : WorkerStep(w)
  \/ HandlerStep
  \/ \E t \in Threads \cup {Main} : Signal(t)
  \/ \E c \in Conns : Connect(c)
  \/ Exited

Spec == Init /\ [][Next]_vars

\* Threads and the handler are scheduled, and connect and send have timeouts.
\* The two loops of recv need not end: each recv has a timeout, the loop has
\* none, so a client that sends on without " HTTP" keeps the main thread in it
\* and a target that sends on keeps a worker.  Nobody need connect, and no
\* signal need come.
FairSpec ==
  /\ Spec
  /\ WF_vars(AcceptorMoves) /\ WF_vars(HandlerStep)
  /\ \A w \in Threads : WF_vars(WorkerMoves(w))

-----------------------------------------------------------------------------
\* Type invariant of the process: no queue is ever longer than QUEUE_MAX_LEN.
TypeOK ==
  /\ shutdown \in BOOLEAN /\ hpc \in {"idle", "close", "connect", "done"}
  /\ on \in Threads \cup {Main, NoOne}
  /\ lsn \in {"listening", "held", "closed"}
  /\ sock \in [Socks -> {"new", "backlog", "open", "closed"}]
  /\ asked \in [Socks -> Asked]
  /\ apc \in {"create", "check", "accept", "waiting", "accepted", "recv",
              "push", "join", "ended", "failed"}
  /\ cur \in Item /\ created \in 0..ThreadCount
  /\ queue \in [Threads -> Seq(Item)] /\ \A w \in Threads : Len(queue[w]) <= QueueMax
  /\ wpc \in [Threads -> {"none", "poll", "check", "take", "serve", "fetch",
                          "recv", "send", "exited"}]
  /\ item \in [Threads -> Item] /\ str \in [Threads -> Texts]
  /\ pages \in [Threads -> SUBSET Urls]

\* A worker never serves the invalid item, neither the one out() makes up for
\* an empty queue nor the one the main thread queues when accept fails in a
\* shutdown, though flag, queue and listening socket change between its tests.
NeverServesInvalid ==
  \A w \in Threads : wpc[w] \in {"serve", "fetch", "recv", "send"} => item[w].sock # NoSock

\* What a worker is about to send answers what was read from that very
\* connection, or says that the fetch failed, although strSend keeps the answer
\* to the request before.
AnswerMatches ==
  \A w \in Threads : wpc[w] = "send" /\ item[w].sock # NoSock =>
    LET r == asked[item[w].sock] IN
    str[w] \in IF r.debug THEN {Header} ELSE {Page(r.url), Error}

\* The places that hold a request: the main thread's hand, a worker's hand (0)
\* and the positions of its queue.
Places == {<<Main, 0>>} \cup (Threads \X (0..QueueMax))
InMain(s) == apc \in {"accepted", "recv", "push"} /\ cur.sock = s
InThread(w, i, s) ==
  \/ i = 0 /\ wpc[w] \in {"serve", "fetch", "recv", "send"} /\ item[w].sock = s
  \/ i \in DOMAIN queue[w] /\ queue[w][i].sock = s
Holds(p, s) == IF p[1] = Main THEN InMain(s) ELSE InThread(p[1], p[2], s)

\* A connection is open exactly while one place holds it: none is lost without
\* being closed, closed while somebody will still write to it, or held twice,
\* to be closed twice.
Accounted ==
  \A s \in Socks :
    /\ sock[s] = "open" <=> \E p \in Places : Holds(p, s)
    /\ \A p, q \in Places : Holds(p, s) /\ Holds(q, s) => p = q

\* A url is stored by one thread only, also when its queue is full.
OneThreadPerUrl ==
  \A v, w \in Threads : v # w => pages[v] \cap pages[w] = {}

\* The main thread or worker w never stays in its loop of recv for ever.
ClientsEnd == []<>(apc # "recv")
TargetsEnd(w) == []<>(wpc[w] # "recv")

\* A request handed to a thread is answered and its connection closed, unless a
\* shutdown begins: a target that never ends holds up the requests of its own
\* thread only, and a client that never ends none of those handed over before.
Served ==
  \A w \in Threads : TargetsEnd(w) =>
    \A c \in Conns :
      w < created /\ (\E i \in 0..QueueMax : InThread(w, i, c))
        ~> sock[c] = "closed" \/ shutdown

\* The signal ends the server from any state: with the main thread in accept, a
\* handler on any thread's stack, requests waiting and workers polling, unless a
\* client or a target keeps a thread in its loop of recv, which asks nothing of
\* m_bShutdown.
ShutdownEnds ==
  ClientsEnd /\ (\A w \in Threads : TargetsEnd(w)) =>
    (shutdown ~> apc \in {"ended", "failed"})

\* What the readme says of every request: it is served from the cache or by
\* the page's server, if client and target end what they send.
EveryRequestServed ==
  ClientsEnd /\ (\A w \in Threads : TargetsEnd(w)) =>
    \A c \in Conns : sock[c] = "open" ~> sock[c] = "closed" \/ shutdown
=============================================================================

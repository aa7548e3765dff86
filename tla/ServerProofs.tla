---------------------------- MODULE ServerProofs ----------------------------
(***************************************************************************)
(* Proofs about Server for any number of threads, connections, urls, any   *)
(* hash and any length of the queues.                                      *)
(***************************************************************************)
EXTENDS Server, SequenceTheorems, TLAPS

\* A thread that was not created does nothing; the main thread holds nothing
\* while it waits; the test connection is not made before its time.
Frame ==
  /\ apc = "create" => created < ThreadCount
  /\ \A w \in Threads : w >= created => wpc[w] = "none"
  /\ apc \in {"create", "check", "accept", "waiting"} => cur.sock = NoSock
  /\ hpc # "done" => sock[Test] = "new"

\* Socket -1 gets past the main thread only in a shutdown, so what a worker has
\* seen in its queue before it read the flag is a connection.
InvalidOnlyInShutdown ==
  /\ apc \in {"recv", "push"} /\ cur.sock = NoSock => shutdown
  /\ ~shutdown => \A w \in Threads : \A i \in DOMAIN queue[w] : queue[w][i].sock # NoSock
  /\ \A w \in Threads : wpc[w] = "check" /\ ~shutdown => queue[w] # <<>>
  /\ \A w \in Threads : wpc[w] = "take" => queue[w] # <<>> /\ queue[w][1].sock # NoSock

\* A request says what was read from its connection, wherever it is.
AsRead(x) ==
  x.sock # NoSock => x.url = asked[x.sock].url /\ x.debug = asked[x.sock].debug

Remembered ==
  /\ apc = "push" => AsRead(cur)
  /\ \A w \in Threads : \A i \in DOMAIN queue[w] : AsRead(queue[w][i])
  /\ \A w \in Threads : wpc[w] \in {"serve", "fetch", "recv", "send"} => AsRead(item[w])
  /\ \A w \in Threads : wpc[w] \in {"fetch", "recv"} => ~item[w].debug

IInv ==
  /\ TypeOK /\ Frame /\ InvalidOnlyInShutdown /\ NeverServesInvalid
  /\ Accounted /\ Remembered /\ AnswerMatches

-----------------------------------------------------------------------------
\* What the actions assign is of the type of the field.
LEMMA Values ==
  /\ Invalid \in Item /\ Nothing \in Asked
  /\ Header \in Texts /\ Error \in Texts /\ NoText \in Texts
  /\ \A u \in Urls : Page(u) \in Texts /\ Home[u] \in Threads
  /\ \A s \in Socks : [Invalid EXCEPT !.sock = s] \in Item
  /\ \A x \in Item, r \in Asked, h \in Threads :
       [sock |-> x.sock, url |-> r.url, home |-> h, debug |-> r.debug] \in Item
  /\ \A x \in Item : x.url \in Urls /\ x.home \in Threads
<1>1. 0 \in Threads
  BY CountAssumption DEF Threads
<1>2. Invalid \in Item /\ \A s \in Socks : [Invalid EXCEPT !.sock = s] \in Item
  BY <1>1, HomeAssumption DEF Invalid, Item
<1> QED
  BY <1>1, <1>2, HomeAssumption
  DEF Item, Nothing, Asked, Header, Error, NoText, Texts, Page

SockType == [Socks -> {"new", "backlog", "open", "closed"}]

LEMMA SockTypes ==
  ASSUME sock \in SockType
  PROVE  Reset \in SockType /\ \A x : Closed(x) \in SockType
BY DEF SockType, Reset, Closed

\* The server before its first thread satisfies the invariant.
LEMMA InitInv == Init => IInv
<1> SUFFICES ASSUME Init PROVE IInv
  OBVIOUS
<1> USE CountAssumption, HomeAssumption, SockAssumption
<1>1. TypeOK
  <2>1. [w \in Threads |-> <<>>] \in [Threads -> Seq(Item)]
    OBVIOUS
  <2> QED
    <3>1. Invalid \in Item /\ Nothing \in Asked /\ NoText \in Texts
      BY Values
    <3>2. \A w \in Threads : Len(queue[w]) <= QueueMax
      BY DEF Init
    <3> HIDE DEF Invalid, Nothing, NoText
    <3>3. /\ cur \in Item /\ item \in [Threads -> Item] /\ str \in [Threads -> Texts]
          /\ asked \in [Socks -> Asked] /\ queue \in [Threads -> Seq(Item)]
      BY <2>1, <3>1 DEF Init
    <3>4. /\ sock \in [Socks -> {"new", "backlog", "open", "closed"}]
          /\ created \in 0..ThreadCount /\ pages \in [Threads -> SUBSET Urls]
          /\ wpc \in [Threads -> {"none", "poll", "check", "take", "serve", "fetch",
                                  "recv", "send", "exited"}]
      BY DEF Init
    <3> QED
      BY <3>2, <3>3, <3>4 DEF Init, TypeOK
<1>2. Frame /\ InvalidOnlyInShutdown /\ NeverServesInvalid /\ Remembered /\ AnswerMatches
  BY DEF Init, Frame, InvalidOnlyInShutdown, NeverServesInvalid, Remembered, AnswerMatches,
         Threads, Socks, Invalid
<1>3. Accounted
  BY DEF Init, Accounted, Places, Holds, InMain, InThread, Threads, Main, Socks
<1> QED
  BY <1>1, <1>2, <1>3 DEF IInv

\* Each field keeps its type; that a queue stays within QUEUE_MAX_LEN is the
\* guard of Push.
LEMMA TypeInv == IInv /\ [Next]_vars => TypeOK'
<1> SUFFICES ASSUME IInv, [Next]_vars PROVE TypeOK'
  OBVIOUS
<1> USE Values, SockTypes DEF IInv, TypeOK, SockType
<1>1. CASE CreateThread
  <2>1. created' \in 0..ThreadCount
    BY <1>1, CountAssumption DEF CreateThread, Frame
  <2> QED
    BY <1>1, <2>1 DEF CreateThread, handler, main, workers
<1>2. CASE CreateFails
  BY <1>2 DEF CreateFails, handler, main, workers
<1>3. CASE CheckLoop
  BY <1>3 DEF CheckLoop, handler, main, workers
<1>4. CASE EnterAccept
  BY <1>4 DEF EnterAccept, handler, main, workers
<1>5. ASSUME NEW s \in Socks, AcceptConn(s) PROVE TypeOK'
  BY <1>5 DEF AcceptConn, handler, main, workers
<1>6. CASE AcceptError
  BY <1>6 DEF AcceptError, handler, main, workers
<1>7. CASE AcceptChecked
  BY <1>7 DEF AcceptChecked, handler, main, workers
<1>8. ASSUME NEW r \in Asked, NEW home \in Threads, Receive(r, home) PROVE TypeOK'
  BY <1>8 DEF Receive, handler, main, workers
<1>9. CASE ReceiveView
  BY <1>9 DEF ReceiveView, handler, main, workers
<1>10. CASE Push
  <2> DEFINE h == cur.home
  <2>1. h \in Threads /\ Len(queue[h]) < QueueMax
    BY <1>10, CountAssumption DEF Push, Full
  <2>2. Append(queue[h], cur) \in Seq(Item) /\ Len(Append(queue[h], cur)) = Len(queue[h]) + 1
    BY <2>1
  <2>3. queue' \in [Threads -> Seq(Item)] /\ \A w \in Threads : Len(queue'[w]) <= QueueMax
    BY <1>10, <2>1, <2>2, CountAssumption DEF Push
  <2> QED
    BY <1>10, <2>3 DEF Push, handler, main, workers
<1>11. CASE Refuse
  BY <1>11 DEF Refuse, handler, main, workers
<1>12. CASE Join
  BY <1>12 DEF Join, handler, main, workers
<1>13. ASSUME NEW w \in Threads, Poll(w) PROVE TypeOK'
  BY <1>13 DEF Poll, handler, main, workers
<1>14. ASSUME NEW w \in Threads, CheckShutdown(w) PROVE TypeOK'
  BY <1>14 DEF CheckShutdown, handler, main, workers
<1>15. ASSUME NEW w \in Threads, Take(w) PROVE TypeOK'
  <2>1. CASE queue[w] = <<>>
    BY <1>15, <2>1 DEF Take, handler, main, workers
  <2>2. CASE queue[w] # <<>>
    <3>1. /\ Head(queue[w]) \in Item /\ Tail(queue[w]) \in Seq(Item)
          /\ Len(Tail(queue[w])) = Len(queue[w]) - 1
      BY <2>2
    <3>2. queue' = [queue EXCEPT ![w] = Tail(queue[w])]
      BY <1>15, <2>2 DEF Take
    <3>3. queue' \in [Threads -> Seq(Item)]
      BY <3>1, <3>2
    <3>4. \A v \in Threads : Len(queue'[v]) <= QueueMax
      <4> SUFFICES ASSUME NEW v \in Threads PROVE Len(queue'[v]) <= QueueMax
        OBVIOUS
      <4>1. Len(queue[v]) \in Nat /\ Len(queue[w]) \in Nat
        OBVIOUS
      <4> QED
        BY <3>1, <3>2, <4>1, CountAssumption
    <3> QED
      BY <1>15, <2>2, <3>1, <3>3, <3>4 DEF Take, handler, main, workers
  <2> QED
    BY <2>1, <2>2
<1>16. ASSUME NEW w \in Threads, ServeDebug(w) PROVE TypeOK'
  BY <1>16 DEF ServeDebug, Answer, handler, main, workers
<1>17. ASSUME NEW w \in Threads, Hit(w) PROVE TypeOK'
  BY <1>17 DEF Hit, Answer, handler, main, workers
<1>18. ASSUME NEW w \in Threads, Miss(w) PROVE TypeOK'
  BY <1>18 DEF Miss, handler, main, workers
<1>19. ASSUME NEW w \in Threads, Fetched(w) PROVE TypeOK'
  BY <1>19 DEF Fetched, Answer, handler, main, workers
<1>20. ASSUME NEW w \in Threads, FetchFails(w) PROVE TypeOK'
  BY <1>20 DEF FetchFails, Answer, handler, main, workers
<1>21. ASSUME NEW w \in Threads, Send(w) PROVE TypeOK'
  BY <1>21 DEF Send, handler, main, workers
<1>22. ASSUME NEW t \in Threads \cup {Main}, Signal(t) PROVE TypeOK'
  BY <1>22 DEF Signal, handler, main, workers
<1>23. CASE CloseListen
  BY <1>23 DEF CloseListen, handler, main, workers
<1>24. CASE TestConnect
  BY <1>24 DEF TestConnect, handler, main, workers
<1>25. ASSUME NEW c \in Conns, Connect(c) PROVE TypeOK'
  BY <1>25 DEF Connect, handler, main, workers
<1>26. CASE UNCHANGED vars
  BY <1>26 DEF vars, handler, main, workers
<1>27. ASSUME NEW w \in Threads, Requested(w) PROVE TypeOK'
  BY <1>27 DEF Requested, handler, main, workers
<1>28. ASSUME NEW w \in Threads, RecvFails(w) PROVE TypeOK'
  BY <1>28 DEF RecvFails, Answer, handler, main, workers
<1> QED
  BY <1>1, <1>2, <1>3, <1>4, <1>5, <1>6, <1>7, <1>8, <1>9, <1>10, <1>11, <1>12, <1>13, <1>14, <1>15, <1>16, <1>17, <1>18, <1>19, <1>20, <1>21, <1>22, <1>23, <1>24, <1>25, <1>26, <1>27, <1>28
  DEF Next, AcceptorStep, AcceptorMoves, WorkerStep, WorkerMoves, HandlerStep, Exited

\* The positions of a queue before and after in() and out().
LEMMA AppendFacts ==
  ASSUME NEW S, NEW q \in Seq(S), NEW x \in S
  PROVE  /\ Append(q, x) \in Seq(S) /\ Append(q, x) # <<>>
         /\ DOMAIN q = 1..Len(q) /\ DOMAIN Append(q, x) = 1..(Len(q) + 1)
         /\ \A i \in DOMAIN q : Append(q, x)[i] = q[i]
         /\ Append(q, x)[Len(q) + 1] = x
         /\ q # <<>> => Append(q, x)[1] = q[1]
         /\ \A i \in DOMAIN Append(q, x) :
              Append(q, x)[i] = x \/ (i \in DOMAIN q /\ Append(q, x)[i] = q[i])
<1> DEFINE a == Append(q, x)
<1>1. a \in Seq(S) /\ a # <<>> /\ Len(a) = Len(q) + 1 /\ a[Len(q) + 1] = x
  BY AppendProperties
<1>2. \A i \in 1..Len(q) : a[i] = q[i]
  BY AppendProperties
<1> HIDE DEF a
<1>3. Len(q) \in Nat /\ DOMAIN q = 1..Len(q) /\ DOMAIN a = 1..(Len(q) + 1)
  BY <1>1
<1>4. q # <<>> => a[1] = q[1]
  BY <1>2, <1>3
<1>5. \A i \in DOMAIN a : a[i] = x \/ (i \in DOMAIN q /\ a[i] = q[i])
  BY <1>1, <1>2, <1>3
<1> QED
  BY <1>1, <1>2, <1>3, <1>4, <1>5 DEF a

LEMMA TailFacts ==
  ASSUME NEW S, NEW q \in Seq(S), q # <<>>
  PROVE  /\ Head(q) = q[1] /\ q[1] \in S /\ Tail(q) \in Seq(S)
         /\ DOMAIN q = 1..Len(q) /\ DOMAIN Tail(q) = 1..(Len(q) - 1) /\ Len(q) \in Nat \ {0}
         /\ \A i \in DOMAIN Tail(q) : Tail(q)[i] = q[i + 1]
<1>1. Tail(q) \in Seq(S) /\ Len(Tail(q)) = Len(q) - 1 /\ Len(q) \in Nat \ {0}
  OBVIOUS
<1> QED
  BY <1>1

\* The places of a request, and that what lies in one is an open connection.
LEMMA PlaceFacts ==
  /\ <<Main, 0>> \in Places
  /\ \A w \in Threads : w # Main /\ \A i \in 0..QueueMax : <<w, i>> \in Places
  /\ \A w \in Threads : <<w, 0>> \in Places
  /\ \A p \in Places : p[1] = Main \/ p[1] \in Threads
BY CountAssumption DEF Places, Threads, Main

LEMMA HeldOpen ==
  ASSUME TypeOK, Accounted
  PROVE  /\ apc \in {"accepted", "recv", "push"} /\ cur.sock # NoSock => sock[cur.sock] = "open"
         /\ \A w \in Threads : wpc[w] \in {"serve", "fetch", "recv", "send"} /\ item[w].sock # NoSock
                                => sock[item[w].sock] = "open"
<1>1. cur.sock # NoSock => cur.sock \in Socks
  BY DEF TypeOK, Item
<1>2. ASSUME apc \in {"accepted", "recv", "push"} PROVE Holds(<<Main, 0>>, cur.sock)
  BY <1>2 DEF Holds, InMain, InThread
<1>3. ASSUME NEW w \in Threads PROVE item[w].sock # NoSock => item[w].sock \in Socks
  BY DEF TypeOK, Item
<1>4. ASSUME NEW w \in Threads, wpc[w] \in {"serve", "fetch", "recv", "send"}
      PROVE  Holds(<<w, 0>>, item[w].sock)
  BY <1>4, PlaceFacts DEF Holds, InMain, InThread
<1>5. \A w \in Threads : <<w, 0>> \in Places
  BY PlaceFacts, CountAssumption
<1> QED
  BY <1>1, <1>2, <1>3, <1>4, <1>5, PlaceFacts DEF Accounted

\* Threads are created in order, and the handler makes its connection last.
LEMMA FrameInv == IInv /\ [Next]_vars => Frame'
<1> SUFFICES ASSUME IInv, [Next]_vars PROVE Frame'
  OBVIOUS
<1> USE CountAssumption, SockAssumption DEF IInv, TypeOK, Frame, Threads, Socks
<1>1. CASE CreateThread
  BY <1>1 DEF CreateThread, handler, main, workers
<1>2. CASE CreateFails
  BY <1>2 DEF CreateFails, handler, main, workers
<1>3. CASE CheckLoop
  BY <1>3 DEF CheckLoop, handler, main, workers
<1>4. CASE EnterAccept
  BY <1>4 DEF EnterAccept, handler, main, workers, Invalid
<1>5. ASSUME NEW s \in Socks, AcceptConn(s) PROVE Frame'
  <2>1. sock[Test] = "new" => s # Test /\ sock'[Test] = "new"
    BY <1>5 DEF AcceptConn, Reset
  <2> QED
    BY <1>5, <2>1 DEF AcceptConn, handler, main, workers
<1>6. CASE AcceptError
  BY <1>6 DEF AcceptError, handler, main, workers, Reset
<1>7. CASE AcceptChecked
  BY <1>7 DEF AcceptChecked, handler, main, workers
<1>8. ASSUME NEW r \in Asked, NEW home \in Threads, Receive(r, home) PROVE Frame'
  BY <1>8 DEF Receive, handler, main, workers
<1>9. CASE ReceiveView
  BY <1>9 DEF ReceiveView, Invalid, handler, main, workers, Closed
<1>10. CASE Push
  BY <1>10 DEF Push, Invalid, handler, main, workers
<1>11. CASE Refuse
  <2>1. sock[Test] = "new" => sock'[Test] = "new"
    BY <1>11, HeldOpen DEF Refuse, Closed
  <2> QED
    BY <1>11, <2>1 DEF Refuse, Invalid, handler, main, workers
<1>12. CASE Join
  BY <1>12 DEF Join, handler, main, workers
<1>13. ASSUME NEW w \in Threads, Poll(w) PROVE Frame'
  BY <1>13 DEF Poll, handler, main, workers
<1>14. ASSUME NEW w \in Threads, CheckShutdown(w) PROVE Frame'
  BY <1>14 DEF CheckShutdown, handler, main, workers
<1>15. ASSUME NEW w \in Threads, Take(w) PROVE Frame'
  BY <1>15 DEF Take, handler, main, workers
<1>16. ASSUME NEW w \in Threads, ServeDebug(w) PROVE Frame'
  BY <1>16 DEF ServeDebug, Answer, handler, main, workers
<1>17. ASSUME NEW w \in Threads, Hit(w) PROVE Frame'
  BY <1>17 DEF Hit, Answer, handler, main, workers
<1>18. ASSUME NEW w \in Threads, Miss(w) PROVE Frame'
  BY <1>18 DEF Miss, handler, main, workers
<1>19. ASSUME NEW w \in Threads, Fetched(w) PROVE Frame'
  BY <1>19 DEF Fetched, Answer, handler, main, workers
<1>20. ASSUME NEW w \in Threads, FetchFails(w) PROVE Frame'
  BY <1>20 DEF FetchFails, Answer, handler, main, workers
<1>21. ASSUME NEW w \in Threads, Send(w) PROVE Frame'
  <2>1. sock[Test] = "new" => sock'[Test] = "new"
    BY <1>21, HeldOpen DEF Send, Closed
  <2> QED
    BY <1>21, <2>1 DEF Send, handler, main, workers
<1>22. ASSUME NEW t \in Threads \cup {Main}, Signal(t) PROVE Frame'
  BY <1>22 DEF Signal, handler, main, workers
<1>23. CASE CloseListen
  BY <1>23 DEF CloseListen, handler, main, workers, Reset
<1>24. CASE TestConnect
  BY <1>24 DEF TestConnect, handler, main, workers
<1>25. ASSUME NEW c \in Conns, Connect(c) PROVE Frame'
  BY <1>25 DEF Connect, handler, main, workers
<1>26. CASE UNCHANGED vars
  BY <1>26 DEF vars, handler, main, workers
<1>27. ASSUME NEW w \in Threads, Requested(w) PROVE Frame'
  BY <1>27 DEF Requested, handler, main, workers
<1>28. ASSUME NEW w \in Threads, RecvFails(w) PROVE Frame'
  BY <1>28 DEF RecvFails, Answer, handler, main, workers
<1> QED
  BY <1>1, <1>2, <1>3, <1>4, <1>5, <1>6, <1>7, <1>8, <1>9, <1>10, <1>11, <1>12, <1>13,
     <1>14, <1>15, <1>16, <1>17, <1>18, <1>19, <1>20, <1>21, <1>22, <1>23, <1>24, <1>25, <1>26, <1>27, <1>28
  DEF Next, AcceptorStep, AcceptorMoves, WorkerStep, WorkerMoves, HandlerStep, Exited

\* A worker that goes on to take saw the flag down with its queue not empty.
LEMMA InvalidInv == IInv /\ [Next]_vars => (InvalidOnlyInShutdown /\ NeverServesInvalid)'
<1> SUFFICES ASSUME IInv, [Next]_vars PROVE (InvalidOnlyInShutdown /\ NeverServesInvalid)'
  OBVIOUS
<1> USE DEF IInv, TypeOK, InvalidOnlyInShutdown, NeverServesInvalid, Threads
<1>1. CASE CreateThread
  BY <1>1 DEF CreateThread, handler, main, workers
<1>2. CASE CreateFails
  BY <1>2 DEF CreateFails, handler, main, workers
<1>3. CASE CheckLoop
  BY <1>3 DEF CheckLoop, handler, main, workers
<1>4. CASE EnterAccept
  BY <1>4 DEF EnterAccept, handler, main, workers
<1>5. ASSUME NEW s \in Socks, AcceptConn(s) PROVE (InvalidOnlyInShutdown /\ NeverServesInvalid)'
  BY <1>5 DEF AcceptConn, handler, main, workers
<1>6. CASE AcceptError
  BY <1>6 DEF AcceptError, handler, main, workers
<1>7. CASE AcceptChecked
  BY <1>7 DEF AcceptChecked, handler, main, workers
<1>8. ASSUME NEW r \in Asked, NEW home \in Threads, Receive(r, home) PROVE (InvalidOnlyInShutdown /\ NeverServesInvalid)'
  BY <1>8 DEF Receive, handler, main, workers
<1>9. CASE ReceiveView
  BY <1>9 DEF ReceiveView, handler, main, workers
<1>10. CASE Push
  <2> DEFINE h == cur.home
  <2>1. h \in Threads /\ (cur.sock # NoSock \/ shutdown)
    BY <1>10, Values DEF Push
  <2>2. queue' = [queue EXCEPT ![h] = Append(queue[h], cur)]
    BY <1>10 DEF Push
  <2> HIDE DEF h
  <2>3. \A w \in Threads : w # h => queue'[w] = queue[w]
    BY <2>2
  <2>4. queue'[h] = Append(queue[h], cur) /\ queue[h] \in Seq(Item)
    BY <2>1, <2>2
  <2>5. /\ queue'[h] # <<>>
        /\ queue[h] # <<>> => queue'[h][1] = queue[h][1]
        /\ \A i \in DOMAIN queue'[h] : queue'[h][i] = cur \/ (i \in DOMAIN queue[h] /\ queue'[h][i] = queue[h][i])
    BY <2>4, AppendFacts, Values, SMTT(30)
  <2>6. apc' = "check" /\ UNCHANGED <<shutdown, wpc, item>>
    BY <1>10 DEF Push, main, workers, handler
  <2> QED
    BY <2>1, <2>3, <2>5, <2>6
<1>11. CASE Refuse
  BY <1>11 DEF Refuse, handler, main, workers
<1>12. CASE Join
  BY <1>12 DEF Join, handler, main, workers
<1>13. ASSUME NEW w \in Threads, Poll(w) PROVE (InvalidOnlyInShutdown /\ NeverServesInvalid)'
  BY <1>13 DEF Poll, handler, main, workers
<1>14. ASSUME NEW w \in Threads, CheckShutdown(w) PROVE (InvalidOnlyInShutdown /\ NeverServesInvalid)'
  BY <1>14 DEF CheckShutdown, handler, main, workers
<1>15. ASSUME NEW w \in Threads, Take(w) PROVE (InvalidOnlyInShutdown /\ NeverServesInvalid)'
  <2>1. queue[w] # <<>> /\ queue[w] \in Seq(Item) /\ queue[w][1].sock # NoSock
    BY <1>15 DEF Take
  <2>2. queue' = [queue EXCEPT ![w] = Tail(queue[w])] /\ item'[w] = queue[w][1]
    BY <1>15, <2>1, TailFacts DEF Take
  <2>3. \A i \in DOMAIN queue'[w] : i + 1 \in DOMAIN queue[w] /\ queue'[w][i] = queue[w][i + 1]
    BY <2>1, <2>2, TailFacts
  <2>4. \A v \in Threads : v # w => queue'[v] = queue[v] /\ item'[v] = item[v] /\ wpc'[v] = wpc[v]
    BY <1>15 DEF Take
  <2>5. wpc'[w] = "serve"
    BY <1>15 DEF Take
  <2> QED
    BY <1>15, <2>1, <2>2, <2>3, <2>4, <2>5 DEF Take, handler, main
<1>16. ASSUME NEW w \in Threads, ServeDebug(w) PROVE (InvalidOnlyInShutdown /\ NeverServesInvalid)'
  BY <1>16 DEF ServeDebug, Answer, handler, main, workers
<1>17. ASSUME NEW w \in Threads, Hit(w) PROVE (InvalidOnlyInShutdown /\ NeverServesInvalid)'
  BY <1>17 DEF Hit, Answer, handler, main, workers
<1>18. ASSUME NEW w \in Threads, Miss(w) PROVE (InvalidOnlyInShutdown /\ NeverServesInvalid)'
  BY <1>18 DEF Miss, handler, main, workers
<1>19. ASSUME NEW w \in Threads, Fetched(w) PROVE (InvalidOnlyInShutdown /\ NeverServesInvalid)'
  BY <1>19 DEF Fetched, Answer, handler, main, workers
<1>20. ASSUME NEW w \in Threads, FetchFails(w) PROVE (InvalidOnlyInShutdown /\ NeverServesInvalid)'
  BY <1>20 DEF FetchFails, Answer, handler, main, workers
<1>21. ASSUME NEW w \in Threads, Send(w) PROVE (InvalidOnlyInShutdown /\ NeverServesInvalid)'
  BY <1>21 DEF Send, handler, main, workers
<1>22. ASSUME NEW t \in Threads \cup {Main}, Signal(t) PROVE (InvalidOnlyInShutdown /\ NeverServesInvalid)'
  BY <1>22 DEF Signal, handler, main, workers
<1>23. CASE CloseListen
  BY <1>23 DEF CloseListen, handler, main, workers
<1>24. CASE TestConnect
  BY <1>24 DEF TestConnect, handler, main, workers
<1>25. ASSUME NEW c \in Conns, Connect(c) PROVE (InvalidOnlyInShutdown /\ NeverServesInvalid)'
  BY <1>25 DEF Connect, handler, main, workers
<1>26. CASE UNCHANGED vars
  BY <1>26 DEF vars, handler, main, workers
<1>27. ASSUME NEW w \in Threads, Requested(w) PROVE (InvalidOnlyInShutdown /\ NeverServesInvalid)'
  BY <1>27 DEF Requested, handler, main, workers
<1>28. ASSUME NEW w \in Threads, RecvFails(w) PROVE (InvalidOnlyInShutdown /\ NeverServesInvalid)'
  BY <1>28 DEF RecvFails, Answer, handler, main, workers
<1> QED
  BY <1>1, <1>2, <1>3, <1>4, <1>5, <1>6, <1>7, <1>8, <1>9, <1>10, <1>11, <1>12, <1>13,
     <1>14, <1>15, <1>16, <1>17, <1>18, <1>19, <1>20, <1>21, <1>22, <1>23, <1>24, <1>25, <1>26, <1>27, <1>28
  DEF Next, AcceptorStep, AcceptorMoves, WorkerStep, WorkerMoves, HandlerStep, Exited

\* What is held and what is open may change together only.
LEMMA SameHolders ==
  ASSUME Accounted,
         \A s \in Socks : sock'[s] = "open" <=> sock[s] = "open",
         \A s \in Socks, p \in Places : Holds(p, s)' <=> Holds(p, s)
  PROVE  Accounted'
BY DEF Accounted

LEMMA Acquired ==
  ASSUME Accounted, NEW x \in Socks, NEW new \in Places,
         sock[x] # "open", sock'[x] = "open",
         \A s \in Socks \ {x} : sock'[s] = "open" <=> sock[s] = "open",
         \A s \in Socks, p \in Places : Holds(p, s)' <=> Holds(p, s) \/ (p = new /\ s = x)
  PROVE  Accounted'
BY DEF Accounted

LEMMA Released ==
  ASSUME Accounted, TypeOK, NEW x, NEW old \in Places,
         \A s \in Socks : Holds(old, s) <=> s = x,
         sock' = Closed(x),
         \A s \in Socks, p \in Places : Holds(p, s)' <=> Holds(p, s) /\ p # old
  PROVE  Accounted'
BY DEF Accounted, TypeOK, Closed

LEMMA HandedOver ==
  ASSUME Accounted, NEW x, NEW old \in Places, NEW new \in Places, UNCHANGED sock,
         \A s \in Socks : (Holds(old, s) <=> s = x) /\ ~Holds(new, s),
         \A s \in Socks, p \in Places :
           Holds(p, s)' <=> (Holds(p, s) /\ p # old) \/ (p = new /\ s = x)
  PROVE  Accounted'
BY DEF Accounted

\* out() brings each request of a queue one place nearer the worker's hand.
LEMMA MovedUp ==
  ASSUME Accounted, NEW w \in Threads, UNCHANGED sock,
         \A s \in Socks : ~Holds(<<w, 0>>, s),
         \A s \in Socks, p \in Places : p[1] # w => (Holds(p, s)' <=> Holds(p, s)),
         \A s \in Socks, i \in 0..QueueMax :
           Holds(<<w, i>>, s)' <=> i < QueueMax /\ Holds(<<w, i + 1>>, s)
  PROVE  Accounted'
<1> SUFFICES ASSUME NEW s \in Socks
             PROVE  /\ sock'[s] = "open" <=> \E p \in Places : Holds(p, s)'
                    /\ \A p, q \in Places : Holds(p, s)' /\ Holds(q, s)' => p = q
  BY DEF Accounted
<1>1. \A p \in Places : p[1] = w => \E i \in 0..QueueMax : p = <<w, i>>
  BY PlaceFacts DEF Places
<1>2. \A i \in 0..QueueMax : <<w, i>> \in Places /\ (<<w, i>>)[1] = w
  BY PlaceFacts
<1>3. ASSUME NEW p \in Places, Holds(p, s) PROVE \E q \in Places : Holds(q, s)'
  <2>1. CASE p[1] # w
    BY <2>1, <1>3
  <2>2. CASE p[1] = w
    <3>1. PICK i \in 0..QueueMax : p = <<w, i>>
      BY <2>2, <1>1
    <3>2. i # 0 /\ i - 1 \in 0..QueueMax /\ i - 1 < QueueMax /\ (i - 1) + 1 = i
      BY <3>1, <1>3, CountAssumption
    <3> QED
      BY <3>1, <3>2, <1>2, <1>3
  <2> QED
    BY <2>1, <2>2
<1>4. ASSUME NEW p \in Places, Holds(p, s)'
      PROVE  \E i \in 0..QueueMax : \/ p[1] # w /\ Holds(p, s)
                                    \/ p = <<w, i>> /\ i < QueueMax /\ Holds(<<w, i + 1>>, s)
  <2>1. CASE p[1] # w
    BY <2>1, <1>4, CountAssumption
  <2>2. CASE p[1] = w
    BY <2>2, <1>1, <1>4
  <2> QED
    BY <2>1, <2>2
<1>5. \A i \in 0..QueueMax : i < QueueMax => <<w, i + 1>> \in Places
  BY PlaceFacts, CountAssumption
<1>6. ASSUME NEW p \in Places, NEW q \in Places, Holds(p, s)', Holds(q, s)' PROVE p = q
  <2>1. PICK i \in 0..QueueMax : \/ p[1] # w /\ Holds(p, s)
                                 \/ p = <<w, i>> /\ i < QueueMax /\ Holds(<<w, i + 1>>, s)
    BY <1>4, <1>6
  <2>2. PICK j \in 0..QueueMax : \/ q[1] # w /\ Holds(q, s)
                                 \/ q = <<w, j>> /\ j < QueueMax /\ Holds(<<w, j + 1>>, s)
    BY <1>4, <1>6
  <2>3. \A a, b \in Places : Holds(a, s) /\ Holds(b, s) => a = b
    BY DEF Accounted
  <2>4. (<<w, i + 1>>)[1] = w /\ (<<w, j + 1>>)[1] = w
    OBVIOUS
  <2>5. <<w, i + 1>> = <<w, j + 1>> => i = j
    OBVIOUS
  <2> QED
    BY <2>1, <2>2, <2>3, <2>4, <2>5, <1>5
<1>7. ASSUME NEW p \in Places, Holds(p, s)' PROVE \E q \in Places : Holds(q, s)
  BY <1>4, <1>5, <1>7
<1>8. sock'[s] = "open" <=> \E p \in Places : Holds(p, s)
  BY DEF Accounted
<1> QED
  BY <1>3, <1>6, <1>7, <1>8

\* A connection changes hands in one step, and is closed by the hand it is in.
LEMMA AccountedInv == IInv /\ [Next]_vars => Accounted'
<1> SUFFICES ASSUME IInv, [Next]_vars PROVE Accounted'
  OBVIOUS
<1> USE PlaceFacts, SameHolders, Values, SockAssumption 
       DEF IInv, TypeOK, SockType, Holds, InMain, InThread
<1>1. CASE CreateThread
  <2>1. created \in Threads /\ wpc[created] = "none"
    BY <1>1, CountAssumption DEF CreateThread, Frame, Threads
  <2> QED
    BY <1>1, <2>1 DEF CreateThread, handler, main, workers
<1>2. CASE CreateFails
  BY <1>2 DEF CreateFails, handler, main, workers
<1>3. CASE CheckLoop
  BY <1>3 DEF CheckLoop, handler, main, workers
<1>4. CASE EnterAccept
  BY <1>4 DEF EnterAccept, Frame, Socks, handler, main, workers
<1>5. ASSUME NEW s \in Socks, AcceptConn(s) PROVE Accounted'
  <2>1. sock[s] # "open" /\ sock'[s] = "open"
    BY <1>5 DEF AcceptConn, Reset
  <2>2. \A r \in Socks \ {s} : sock'[r] = "open" <=> sock[r] = "open"
    BY <1>5 DEF AcceptConn, Reset
  <2>3. \A r \in Socks, p \in Places : Holds(p, r)' <=> Holds(p, r) \/ (p = <<Main, 0>> /\ r = s)
    <3> SUFFICES ASSUME NEW r \in Socks, NEW p \in Places
                 PROVE  Holds(p, r)' <=> Holds(p, r) \/ (p = <<Main, 0>> /\ r = s)
      OBVIOUS
    <3>1. CASE p = <<Main, 0>>
      BY <1>5, <3>1 DEF AcceptConn, main, workers
    <3>2. CASE p # <<Main, 0>>
      <4>1. p[1] # Main
        BY <3>2 DEF Places
      <4> QED
        BY <1>5, <4>1, <3>2 DEF AcceptConn, main, workers
    <3> QED
      BY <3>1, <3>2
  <2> HIDE DEF Holds
  <2> QED
    BY <2>1, <2>2, <2>3, Acquired
<1>6. CASE AcceptError
  BY <1>6 DEF AcceptError, Reset, Frame, Socks, handler, main, workers
<1>7. CASE AcceptChecked
  BY <1>7 DEF AcceptChecked, Socks, handler, main, workers
<1>8. ASSUME NEW r \in Asked, NEW home \in Threads, Receive(r, home) PROVE Accounted'
  BY <1>8 DEF Receive, handler, main, workers
<1>9. CASE ReceiveView
  <2>1. \A s \in Socks : Holds(<<Main, 0>>, s) <=> s = cur.sock
    BY <1>9 DEF ReceiveView
  <2>2. \A s \in Socks, p \in Places : Holds(p, s)' <=> Holds(p, s) /\ p # <<Main, 0>>
    <3> SUFFICES ASSUME NEW s \in Socks, NEW p \in Places
                 PROVE  Holds(p, s)' <=> Holds(p, s) /\ p # <<Main, 0>>
      OBVIOUS
    <3>1. p = <<Main, 0>> <=> p[1] = Main
      BY DEF Places
    <3> QED
      BY <1>9, <3>1 DEF ReceiveView, main, workers
  <2>3. sock' = Closed(cur.sock)
    BY <1>9 DEF ReceiveView
  <2> HIDE DEF Holds
  <2> QED
    BY <2>1, <2>2, <2>3, Released
<1>10. CASE Push
  <2>0. PICK h \in Threads, n \in 1..QueueMax : h = cur.home /\ n = Len(queue[h]) + 1
    <3>1. cur.home \in Threads
      OBVIOUS
    <3>2. Len(queue[cur.home]) \in Nat /\ Len(queue[cur.home]) < QueueMax
      BY <1>10, <3>1, CountAssumption DEF Push, Full
    <3> QED
      BY <3>1, <3>2, CountAssumption
  <2> DEFINE new == <<h, n>>
  <2>1. h # Main /\ n \in 0..QueueMax /\ new \in Places
    OBVIOUS
  <2>2. \A s \in Socks : Holds(<<Main, 0>>, s) <=> s = cur.sock
    BY <1>10 DEF Push
  <2>3. queue' = [queue EXCEPT ![h] = Append(queue[h], cur)]
    BY <1>10, <2>0 DEF Push
  <2>4. /\ DOMAIN queue'[h] = 1..n /\ DOMAIN queue[h] = 1..(n - 1) /\ queue'[h][n] = cur
        /\ \A i \in 1..(n - 1) : queue'[h][i] = queue[h][i]
    BY <2>0, <2>3, AppendFacts
  <2>5. apc' = "check" /\ apc = "push" /\ UNCHANGED <<sock, wpc, item>>
    BY <1>10 DEF Push, main, workers
  <2>6. ASSUME NEW s \in Socks, NEW p \in Places
        PROVE  Holds(p, s)' <=> (Holds(p, s) /\ p # <<Main, 0>>) \/ (p = new /\ s = cur.sock)
    <3>1. p = <<Main, 0>> <=> p[1] = Main
      BY DEF Places
    <3>2. p = new <=> p[1] = h /\ p[2] = n
      BY <2>1 DEF Places
    <3>3. CASE p[1] # h
      BY <3>3, <3>1, <3>2, <2>1, <2>3, <2>5
    <3>4. CASE p[1] = h
      <4> DEFINE i == p[2]
      <4>1. i \in DOMAIN queue'[h] <=> i \in DOMAIN queue[h] \/ i = n
        BY <2>1, <2>4
      <4>2. i \in DOMAIN queue[h] => i # n /\ queue'[h][i] = queue[h][i]
        BY <2>1, <2>4
      <4>3. p # <<Main, 0>> /\ (p = new <=> i = n) /\ h # Main /\ n # 0
        BY <2>1, <3>1, <3>2, <3>4
      <4>4. Holds(p, s) <=> InThread(h, i, s)
        BY <3>4, <4>3
      <4>5. Holds(p, s)' <=> InThread(h, i, s)'
        BY <3>4, <4>3
      <4> HIDE DEF Holds, i, new
      <4> QED
        BY <2>4, <2>5, <4>1, <4>2, <4>3, <4>4, <4>5 DEF InThread
    <3> QED
      BY <3>3, <3>4
  <2>7. \A s \in Socks : ~Holds(new, s)
    BY <2>1, <2>4
  <2> HIDE DEF Holds, new
  <2> QED
    BY <2>1, <2>2, <2>5, <2>6, <2>7, HandedOver
<1>11. CASE Refuse
  <2>1. \A s \in Socks : Holds(<<Main, 0>>, s) <=> s = cur.sock
    BY <1>11 DEF Refuse
  <2>2. \A s \in Socks, p \in Places : Holds(p, s)' <=> Holds(p, s) /\ p # <<Main, 0>>
    <3> SUFFICES ASSUME NEW s \in Socks, NEW p \in Places
                 PROVE  Holds(p, s)' <=> Holds(p, s) /\ p # <<Main, 0>>
      OBVIOUS
    <3>1. p = <<Main, 0>> <=> p[1] = Main
      BY DEF Places
    <3> QED
      BY <1>11, <3>1 DEF Refuse, main, workers
  <2>3. sock' = Closed(cur.sock)
    BY <1>11 DEF Refuse
  <2> HIDE DEF Holds
  <2> QED
    BY <2>1, <2>2, <2>3, Released
<1>12. CASE Join
  BY <1>12 DEF Join, handler, main, workers
<1>13. ASSUME NEW w \in Threads, Poll(w) PROVE Accounted'
  BY <1>13 DEF Poll, handler, main, workers
<1>14. ASSUME NEW w \in Threads, CheckShutdown(w) PROVE Accounted'
  BY <1>14 DEF CheckShutdown, handler, main, workers
<1>15. ASSUME NEW w \in Threads, Take(w) PROVE Accounted'
  <2>1. queue[w] # <<>> /\ queue[w] \in Seq(Item) /\ Len(queue[w]) <= QueueMax
    BY <1>15 DEF InvalidOnlyInShutdown, Take
  <2>2. queue' = [queue EXCEPT ![w] = Tail(queue[w])] /\ item' = [item EXCEPT ![w] = queue[w][1]]
    BY <1>15, <2>1, TailFacts DEF Take
  <2>3. /\ wpc[w] = "take" /\ wpc' = [wpc EXCEPT ![w] = "serve"]
        /\ UNCHANGED <<apc, cur, sock>>
    BY <1>15 DEF Take, main
  <2>4. /\ DOMAIN queue[w] = 1..Len(queue[w]) /\ Len(queue[w]) \in Nat \ {0}
        /\ DOMAIN queue'[w] = 1..(Len(queue[w]) - 1)
        /\ \A i \in DOMAIN queue'[w] : queue'[w][i] = queue[w][i + 1]
    BY <2>1, <2>2, TailFacts
  <2>5. \A s \in Socks : ~Holds(<<w, 0>>, s)
    BY <2>3, <2>4
  <2>6. \A s \in Socks, p \in Places : p[1] # w => (Holds(p, s)' <=> Holds(p, s))
    BY <2>2, <2>3
  <2>7. ASSUME NEW s \in Socks, NEW i \in 0..QueueMax
        PROVE  Holds(<<w, i>>, s)' <=> i < QueueMax /\ Holds(<<w, i + 1>>, s)
    <3>1. Holds(<<w, i>>, s)' <=> InThread(w, i, s)'
      OBVIOUS
    <3>2. Holds(<<w, i + 1>>, s) <=> InThread(w, i + 1, s)
      OBVIOUS
    <3>3. InThread(w, i + 1, s) <=> i + 1 \in DOMAIN queue[w] /\ queue[w][i + 1].sock = s
      BY <2>3
    <3>4. CASE i = 0
      BY <3>1, <3>2, <3>3, <3>4, <2>2, <2>3, <2>4, CountAssumption
    <3>5. CASE i # 0
      <4>1. i \in DOMAIN queue'[w] <=> i < QueueMax /\ i + 1 \in DOMAIN queue[w]
        BY <3>5, <2>1, <2>4, CountAssumption
      <4>2. InThread(w, i, s)' <=> i \in DOMAIN queue'[w] /\ queue'[w][i].sock = s
        BY <3>5
      <4> QED
        BY <3>1, <3>2, <3>3, <4>1, <4>2, <2>4
    <3> QED
      BY <3>4, <3>5
  <2> HIDE DEF Holds
  <2> QED
    BY <2>3, <2>5, <2>6, <2>7, MovedUp
<1>16. ASSUME NEW w \in Threads, ServeDebug(w) PROVE Accounted'
  BY <1>16 DEF ServeDebug, Answer, handler, main, workers
<1>17. ASSUME NEW w \in Threads, Hit(w) PROVE Accounted'
  BY <1>17 DEF Hit, Answer, handler, main, workers
<1>18. ASSUME NEW w \in Threads, Miss(w) PROVE Accounted'
  BY <1>18 DEF Miss, handler, main, workers
<1>19. ASSUME NEW w \in Threads, Fetched(w) PROVE Accounted'
  BY <1>19 DEF Fetched, Answer, handler, main, workers
<1>20. ASSUME NEW w \in Threads, FetchFails(w) PROVE Accounted'
  BY <1>20 DEF FetchFails, Answer, handler, main, workers
<1>21. ASSUME NEW w \in Threads, Send(w) PROVE Accounted'
  <2> DEFINE old == <<w, 0>>
  <2>1. old \in Places /\ w # Main
    OBVIOUS
  <2>2. \A s \in Socks : Holds(old, s) <=> s = item[w].sock
    BY <1>21 DEF Send
  <2>3. \A s \in Socks, p \in Places : Holds(p, s)' <=> Holds(p, s) /\ p # old
    <3> SUFFICES ASSUME NEW s \in Socks, NEW p \in Places
                 PROVE  Holds(p, s)' <=> Holds(p, s) /\ p # old
      OBVIOUS
    <3>1. p = old <=> p[1] = w /\ p[2] = 0
      BY DEF Places
    <3>2. 0 \notin DOMAIN queue[w]
      OBVIOUS
    <3> QED
      BY <1>21, <3>1, <3>2 DEF Send, main
  <2>4. sock' = Closed(item[w].sock)
    BY <1>21 DEF Send
  <2> HIDE DEF Holds, old
  <2> QED
    BY <2>1, <2>2, <2>3, <2>4, Released
<1>22. ASSUME NEW t \in Threads \cup {Main}, Signal(t) PROVE Accounted'
  BY <1>22 DEF Signal, handler, main, workers
<1>23. CASE CloseListen
  BY <1>23 DEF CloseListen, Reset, handler, main, workers
<1>24. CASE TestConnect
  BY <1>24 DEF TestConnect, Frame, handler, main, workers
<1>25. ASSUME NEW c \in Conns, Connect(c) PROVE Accounted'
  BY <1>25 DEF Connect, handler, main, workers
<1>26. CASE UNCHANGED vars
  BY <1>26 DEF vars, handler, main, workers
<1>27. ASSUME NEW w \in Threads, Requested(w) PROVE Accounted'
  BY <1>27 DEF Requested, handler, main, workers
<1>28. ASSUME NEW w \in Threads, RecvFails(w) PROVE Accounted'
  BY <1>28 DEF RecvFails, Answer, handler, main, workers
<1> QED
  BY <1>1, <1>2, <1>3, <1>4, <1>5, <1>6, <1>7, <1>8, <1>9, <1>10, <1>11, <1>12, <1>13,
     <1>14, <1>15, <1>16, <1>17, <1>18, <1>19, <1>20, <1>21, <1>22, <1>23, <1>24, <1>25, <1>26, <1>27, <1>28
  DEF Next, AcceptorStep, AcceptorMoves, WorkerStep, WorkerMoves, HandlerStep, Exited

\* A connection in the main thread's hand is nowhere else.
LEMMA MainAlone ==
  ASSUME TypeOK, Accounted, apc \in {"accepted", "recv", "push"}, cur.sock # NoSock
  PROVE  \A w \in Threads :
           /\ wpc[w] \in {"serve", "fetch", "recv", "send"} => item[w].sock # cur.sock
           /\ \A i \in DOMAIN queue[w] : queue[w][i].sock # cur.sock
<1>1. cur.sock \in Socks /\ Holds(<<Main, 0>>, cur.sock)
  BY DEF TypeOK, Item, Holds, InMain
<1>2. ASSUME NEW w \in Threads, NEW i \in 0..QueueMax, InThread(w, i, cur.sock) PROVE FALSE
  <2>1. <<w, i>> \in Places /\ w # Main /\ <<w, i>> # <<Main, 0>>
    BY PlaceFacts
  <2>2. Holds(<<w, i>>, cur.sock)
    BY <1>2, <2>1 DEF Holds
  <2> QED
    BY <1>1, <2>1, <2>2, PlaceFacts DEF Accounted
<1>3. ASSUME NEW w \in Threads PROVE \A i \in DOMAIN queue[w] : i \in 0..QueueMax
  <2>1. queue[w] \in Seq(Item) /\ Len(queue[w]) <= QueueMax
    BY DEF TypeOK
  <2>2. Len(queue[w]) \in Nat /\ DOMAIN queue[w] = 1..Len(queue[w])
    BY <2>1
  <2> QED
    BY <2>1, <2>2, CountAssumption
<1> QED
  BY <1>2, <1>3, CountAssumption DEF InThread

\* An answer is made of the request in hand, a request of what was read.
LEMMA RememberedInv == IInv /\ [Next]_vars => (Remembered /\ AnswerMatches)'
<1> SUFFICES ASSUME IInv, [Next]_vars PROVE (Remembered /\ AnswerMatches)'
  OBVIOUS
<1> USE DEF IInv, TypeOK, Remembered, AsRead, AnswerMatches
<1>1. CASE CreateThread
  BY <1>1 DEF CreateThread, handler, main, workers
<1>2. CASE CreateFails
  BY <1>2 DEF CreateFails, handler, main, workers
<1>3. CASE CheckLoop
  BY <1>3 DEF CheckLoop, handler, main, workers
<1>4. CASE EnterAccept
  BY <1>4 DEF EnterAccept, handler, main, workers
<1>5. ASSUME NEW s \in Socks, AcceptConn(s) PROVE (Remembered /\ AnswerMatches)'
  BY <1>5 DEF AcceptConn, handler, main, workers
<1>6. CASE AcceptError
  BY <1>6 DEF AcceptError, handler, main, workers
<1>7. CASE AcceptChecked
  BY <1>7 DEF AcceptChecked, handler, main, workers
<1>8. ASSUME NEW r \in Asked, NEW home \in Threads, Receive(r, home) PROVE (Remembered /\ AnswerMatches)'
  <2>1. UNCHANGED <<queue, wpc, item, str>> /\ apc = "recv" /\ apc' = "push"
    BY <1>8 DEF Receive, workers
  <2>2. cur.sock # NoSock => asked'[cur.sock] = r
    BY <1>8 DEF Receive, Item
  <2>3. \A s \in Socks : s # cur.sock => asked'[s] = asked[s]
    BY <1>8 DEF Receive
  <2>4. cur' = [sock |-> cur.sock, url |-> r.url, home |-> home, debug |-> r.debug]
    BY <1>8 DEF Receive
  <2>5. ASSUME NEW x \in Item, x.sock # cur.sock \/ x.sock = NoSock, AsRead(x)
        PROVE  x.sock # NoSock => /\ x.url = asked'[x.sock].url
                                  /\ x.debug = asked'[x.sock].debug
    BY <2>3, <2>5 DEF Item
  <2>6. AsRead(cur)'
    BY <2>2, <2>4
  <2>7. \A w \in Threads : queue[w] \in Seq(Item)
    OBVIOUS
  <2>8. \A w \in Threads : \A i \in DOMAIN queue[w] : queue[w][i] \in Item /\ AsRead(queue[w][i])
    BY <2>7
  <2>9. \A w \in Threads : wpc[w] \in {"serve", "fetch", "recv", "send"} => item[w] \in Item /\ AsRead(item[w])
    OBVIOUS
  <2>10. cur.sock # NoSock =>
           \A w \in Threads :
             /\ wpc[w] \in {"serve", "fetch", "recv", "send"} => item[w].sock # cur.sock
             /\ \A i \in DOMAIN queue[w] : queue[w][i].sock # cur.sock
    BY <2>1, MainAlone
  <2>11. \A w \in Threads : \A i \in DOMAIN queue'[w] : AsRead(queue[w][i])'
    <3> SUFFICES ASSUME NEW w \in Threads, NEW i \in DOMAIN queue[w]
                 PROVE  AsRead(queue[w][i])'
      BY <2>1
    <3> DEFINE x == queue[w][i]
    <3>1. x \in Item /\ AsRead(x) /\ (x.sock # cur.sock \/ x.sock = NoSock)
      BY <2>8, <2>10
    <3> QED
      BY <2>1, <2>5, <3>1
  <2>12. \A w \in Threads : wpc'[w] \in {"serve", "fetch", "recv", "send"} => AsRead(item[w])'
    <3> SUFFICES ASSUME NEW w \in Threads, wpc[w] \in {"serve", "fetch", "recv", "send"}
                 PROVE  AsRead(item[w])'
      BY <2>1
    <3> DEFINE x == item[w]
    <3>1. x \in Item /\ AsRead(x) /\ (x.sock # cur.sock \/ x.sock = NoSock)
      BY <2>9, <2>10
    <3> QED
      BY <2>1, <2>5, <3>1
  <2>13. AnswerMatches'
    <3> SUFFICES ASSUME NEW w \in Threads, wpc[w] = "send", item[w].sock # NoSock
                 PROVE  str[w] \in IF asked'[item[w].sock].debug
                                     THEN {Header} ELSE {Page(asked'[item[w].sock].url), Error}
      BY <2>1
    <3>1. item[w].sock \in Socks /\ item[w].sock # cur.sock
      BY <2>10 DEF Item
    <3> QED
      BY <2>3, <3>1
  <2>14. Remembered'
    BY <2>1, <2>6, <2>11, <2>12
  <2> QED
    BY <2>13, <2>14
<1>9. CASE ReceiveView
  BY <1>9 DEF ReceiveView, handler, main, workers
<1>10. CASE Push
  BY <1>10, SMTT(30) DEF Push, handler, main, workers
<1>11. CASE Refuse
  BY <1>11 DEF Refuse, handler, main, workers
<1>12. CASE Join
  BY <1>12 DEF Join, handler, main, workers
<1>13. ASSUME NEW w \in Threads, Poll(w) PROVE (Remembered /\ AnswerMatches)'
  BY <1>13 DEF Poll, handler, main, workers
<1>14. ASSUME NEW w \in Threads, CheckShutdown(w) PROVE (Remembered /\ AnswerMatches)'
  BY <1>14 DEF CheckShutdown, handler, main, workers
<1>15. ASSUME NEW w \in Threads, Take(w) PROVE (Remembered /\ AnswerMatches)'
  <2>1. queue[w] # <<>> /\ queue[w] \in Seq(Item)
    BY <1>15 DEF InvalidOnlyInShutdown, Take
  <2>2. queue' = [queue EXCEPT ![w] = Tail(queue[w])] /\ item' = [item EXCEPT ![w] = queue[w][1]]
    BY <1>15, <2>1, TailFacts DEF Take
  <2>3. wpc' = [wpc EXCEPT ![w] = "serve"] /\ UNCHANGED <<apc, cur, asked, str>>
    BY <1>15 DEF Take, main
  <2>4. 1 \in DOMAIN queue[w] /\ \A i \in DOMAIN queue'[w] : i + 1 \in DOMAIN queue[w]
    BY <2>1, <2>2, TailFacts
  <2>5. \A i \in DOMAIN queue'[w] : queue'[w][i] = queue[w][i + 1]
    BY <2>1, <2>2, TailFacts
  <2> QED
    BY <2>2, <2>3, <2>4, <2>5
<1>16. ASSUME NEW w \in Threads, ServeDebug(w) PROVE (Remembered /\ AnswerMatches)'
  BY <1>16 DEF ServeDebug, Answer, handler, main, workers
<1>17. ASSUME NEW w \in Threads, Hit(w) PROVE (Remembered /\ AnswerMatches)'
  BY <1>17 DEF Hit, Answer, handler, main, workers
<1>18. ASSUME NEW w \in Threads, Miss(w) PROVE (Remembered /\ AnswerMatches)'
  BY <1>18 DEF Miss, handler, main, workers
<1>19. ASSUME NEW w \in Threads, Fetched(w) PROVE (Remembered /\ AnswerMatches)'
  BY <1>19, SMTT(30) DEF Fetched, Answer, handler, main, workers
<1>20. ASSUME NEW w \in Threads, FetchFails(w) PROVE (Remembered /\ AnswerMatches)'
  BY <1>20 DEF FetchFails, Answer, handler, main, workers
<1>21. ASSUME NEW w \in Threads, Send(w) PROVE (Remembered /\ AnswerMatches)'
  BY <1>21 DEF Send, handler, main, workers
<1>22. ASSUME NEW t \in Threads \cup {Main}, Signal(t) PROVE (Remembered /\ AnswerMatches)'
  BY <1>22 DEF Signal, handler, main, workers
<1>23. CASE CloseListen
  BY <1>23 DEF CloseListen, handler, main, workers
<1>24. CASE TestConnect
  BY <1>24 DEF TestConnect, handler, main, workers
<1>25. ASSUME NEW c \in Conns, Connect(c) PROVE (Remembered /\ AnswerMatches)'
  BY <1>25 DEF Connect, handler, main, workers
<1>26. CASE UNCHANGED vars
  BY <1>26 DEF vars, handler, main, workers
<1>27. ASSUME NEW w \in Threads, Requested(w) PROVE (Remembered /\ AnswerMatches)'
  BY <1>27 DEF Requested, handler, main, workers
<1>28. ASSUME NEW w \in Threads, RecvFails(w) PROVE (Remembered /\ AnswerMatches)'
  BY <1>28 DEF RecvFails, Answer, handler, main, workers
<1> QED
  BY <1>1, <1>2, <1>3, <1>4, <1>5, <1>6, <1>7, <1>8, <1>9, <1>10, <1>11, <1>12, <1>13,
     <1>14, <1>15, <1>16, <1>17, <1>18, <1>19, <1>20, <1>21, <1>22, <1>23, <1>24, <1>25, <1>26, <1>27, <1>28
  DEF Next, AcceptorStep, AcceptorMoves, WorkerStep, WorkerMoves, HandlerStep, Exited

-----------------------------------------------------------------------------
\* Every step keeps the invariant.
LEMMA NextInv == IInv /\ [Next]_vars => IInv'
BY TypeInv, FrameInv, InvalidInv, AccountedInv, RememberedInv DEF IInv

\* The invariant holds in every reachable state.
THEOREM Invariance == Spec => []IInv
BY InitInv, NextInv, PTL DEF Spec

\* The fields keep their types, and no queue exceeds QUEUE_MAX_LEN, however
\* many threads there are and wherever the handler interrupts them.
THEOREM TypeCorrect == Spec => []TypeOK
<1>1. IInv => TypeOK
  BY DEF IInv
<1> QED
  BY <1>1, Invariance, PTL

\* No worker serves the item that out() makes up for an empty queue, or socket
\* -1 of an accept that failed in a shutdown.
THEOREM InvalidNeverServed == Spec => []NeverServesInvalid
<1>1. IInv => NeverServesInvalid
  BY DEF IInv
<1> QED
  BY <1>1, Invariance, PTL

\* A connection is open exactly while one place holds it: none leaks, is closed
\* while it is needed or closed twice, with a shutdown at any point.
THEOREM ConnectionsAccounted == Spec => []Accounted
<1>1. IInv => Accounted
  BY DEF IInv
<1> QED
  BY <1>1, Invariance, PTL

\* Every answer is of the request that was read from that connection.
THEOREM AnswersMatch == Spec => []AnswerMatches
<1>1. IInv => AnswerMatches
  BY DEF IInv
<1> QED
  BY <1>1, Invariance, PTL

-----------------------------------------------------------------------------
(* A url is stored by the thread it hashes to.                             *)

\* What a thread has in its queue, in its hand and in its cache is at home, the
\* empty url excepted, which may be of any queue and is never stored.
AtHome ==
  /\ apc = "push" => cur.url = NoUrl \/ Home[cur.url] = cur.home
  /\ \A w \in Threads : \A i \in DOMAIN queue[w] :
       queue[w][i].url = NoUrl \/ Home[queue[w][i].url] = w
  /\ \A w \in Threads : wpc[w] \in {"serve", "fetch", "recv"} =>
       item[w].url = NoUrl \/ Home[item[w].url] = w
  /\ \A w \in Threads : wpc[w] = "recv" => item[w].url # NoUrl
  /\ \A w \in Threads : \A u \in pages[w] : Home[u] = w

\* Only Push puts a request in a queue, that of its url; the rest follow it.
LEMMA AtHomeInv == IInv /\ AtHome /\ [Next]_vars => AtHome'
<1> SUFFICES ASSUME IInv, AtHome, [Next]_vars PROVE AtHome'
  OBVIOUS
<1> USE DEF IInv, TypeOK, AtHome
<1>1. CASE CreateThread
  BY <1>1 DEF CreateThread, main, workers
<1>2. CASE CreateFails
  BY <1>2 DEF CreateFails, main, workers
<1>3. CASE CheckLoop
  BY <1>3 DEF CheckLoop, main, workers
<1>4. CASE EnterAccept
  BY <1>4 DEF EnterAccept, main, workers
<1>5. ASSUME NEW s \in Socks, AcceptConn(s) PROVE AtHome'
  BY <1>5 DEF AcceptConn, main, workers
<1>6. CASE AcceptError
  BY <1>6 DEF AcceptError, main, workers
<1>7. CASE AcceptChecked
  BY <1>7 DEF AcceptChecked, main, workers
<1>8. ASSUME NEW r \in Asked, NEW home \in Threads, Receive(r, home) PROVE AtHome'
  BY <1>8 DEF Receive, main, workers
<1>9. CASE ReceiveView
  BY <1>9 DEF ReceiveView, main, workers
<1>10. CASE Push
  <2> DEFINE h == cur.home
  <2>1. h \in Threads /\ queue[h] \in Seq(Item) /\ cur \in Item
    BY Values
  <2>2. queue' = [queue EXCEPT ![h] = Append(queue[h], cur)] /\ UNCHANGED <<wpc, item, pages>>
       /\ apc = "push" /\ apc' = "check"
    BY <1>10 DEF Push, workers
  <2>3. \A i \in DOMAIN queue'[h] :
          \/ i \in DOMAIN queue[h] /\ queue'[h][i] = queue[h][i]
          \/ queue'[h][i] = cur
    <3> HIDE DEF h
    <3>1. queue'[h] = Append(queue[h], cur)
      BY <2>1, <2>2
    <3> QED
      BY <2>1, <3>1, AppendFacts
  <2>4. \A w \in Threads : w # h => queue'[w] = queue[w]
    BY <2>2
  <2> QED
    BY <2>1, <2>2, <2>3, <2>4
<1>11. CASE Refuse
  BY <1>11 DEF Refuse, main, workers
<1>12. CASE Join
  BY <1>12 DEF Join, main, workers
<1>13. ASSUME NEW w \in Threads, Poll(w) PROVE AtHome'
  BY <1>13 DEF Poll, main, workers
<1>14. ASSUME NEW w \in Threads, CheckShutdown(w) PROVE AtHome'
  BY <1>14 DEF CheckShutdown, main, workers
<1>15. ASSUME NEW w \in Threads, Take(w) PROVE AtHome'
  <2>1. queue[w] # <<>> /\ queue[w] \in Seq(Item)
    BY <1>15 DEF InvalidOnlyInShutdown, Take
  <2>2. queue' = [queue EXCEPT ![w] = Tail(queue[w])] /\ item' = [item EXCEPT ![w] = queue[w][1]]
    BY <1>15, <2>1, TailFacts DEF Take
  <2>3. wpc' = [wpc EXCEPT ![w] = "serve"] /\ UNCHANGED <<apc, cur, pages>>
    BY <1>15 DEF Take, main
  <2>4. /\ 1 \in DOMAIN queue[w]
        /\ \A i \in DOMAIN queue'[w] : i + 1 \in DOMAIN queue[w] /\ queue'[w][i] = queue[w][i + 1]
    BY <2>1, <2>2, TailFacts
  <2> QED
    BY <2>2, <2>3, <2>4
<1>16. ASSUME NEW w \in Threads, ServeDebug(w) PROVE AtHome'
  BY <1>16 DEF ServeDebug, Answer, main, workers
<1>17. ASSUME NEW w \in Threads, Hit(w) PROVE AtHome'
  BY <1>17 DEF Hit, Answer, main, workers
<1>18. ASSUME NEW w \in Threads, Miss(w) PROVE AtHome'
  BY <1>18 DEF Miss, main, workers
<1>19. ASSUME NEW w \in Threads, Fetched(w) PROVE AtHome'
  BY <1>19 DEF Fetched, Answer, main, workers
<1>20. ASSUME NEW w \in Threads, FetchFails(w) PROVE AtHome'
  BY <1>20 DEF FetchFails, Answer, main, workers
<1>21. ASSUME NEW w \in Threads, Send(w) PROVE AtHome'
  BY <1>21 DEF Send, main, workers
<1>22. ASSUME NEW t \in Threads \cup {Main}, Signal(t) PROVE AtHome'
  BY <1>22 DEF Signal, main, workers
<1>23. CASE CloseListen
  BY <1>23 DEF CloseListen, main, workers
<1>24. CASE TestConnect
  BY <1>24 DEF TestConnect, main, workers
<1>25. ASSUME NEW c \in Conns, Connect(c) PROVE AtHome'
  BY <1>25 DEF Connect, main, workers
<1>26. CASE UNCHANGED vars
  BY <1>26 DEF vars, main, workers
<1>27. ASSUME NEW w \in Threads, Requested(w) PROVE AtHome'
  BY <1>27 DEF Requested, main, workers
<1>28. ASSUME NEW w \in Threads, RecvFails(w) PROVE AtHome'
  BY <1>28 DEF RecvFails, Answer, main, workers
<1> QED
  BY <1>1, <1>2, <1>3, <1>4, <1>5, <1>6, <1>7, <1>8, <1>9, <1>10, <1>11, <1>12, <1>13,
     <1>14, <1>15, <1>16, <1>17, <1>18, <1>19, <1>20, <1>21, <1>22, <1>23, <1>24, <1>25, <1>26, <1>27, <1>28
  DEF Next, AcceptorStep, AcceptorMoves, WorkerStep, WorkerMoves, HandlerStep, Exited

\* No two threads store the same url, whatever the hash, and also when queues
\* are full or threads are missing.
THEOREM UrlsApart == Spec => []OneThreadPerUrl
<1>1. Init => AtHome
  BY DEF Init, AtHome
<1>2. AtHome => OneThreadPerUrl
  BY DEF AtHome, OneThreadPerUrl
<1> QED
  BY <1>1, <1>2, Invariance, AtHomeInv, PTL DEF Spec

=============================================================================

---------------------------- MODULE CacheWorker ----------------------------
(***************************************************************************)
(* The cache as its owner, a worker thread of the server, uses it          *)
(* (CServerFrame::serverThread): a value is put only when the get of the   *)
(* same url just failed and the page was fetched; nothing is ever deleted  *)
(* by name; debug=1 calls view_header between two requests.                *)
(***************************************************************************)
EXTENDS DdCacheProps

\* The get of k failed, getUrl returned v; the fetch may take any time, and
\* when it fails nothing is put and the next request is served.
Fetched(k, v) ==
  /\ reply.op = "get" /\ reply.key = k /\ reply.st # "ok"
  /\ PutCall(k, v) \/ PutEmpty(k, v)

WorkerNext ==
  \/ \E k \in Keys : GetCall(k)
  \/ \E k \in Keys, v \in Vals : Fetched(k, v)
  \/ ViewCall
  \/ Step \/ Tick \/ Restart

WorkerSpec == Init /\ [][WorkerNext]_vars /\ WF_vars(Step)

-----------------------------------------------------------------------------
U == INSTANCE UrlCache WITH
       call <- IF pc = "idle" THEN [op |-> "none", key |-> None, val |-> None] ELSE [op |-> op, key |-> key, val |-> val]

\* The chunks and lists of ddcache, driven by the worker thread, are a url
\* cache: a hit is the page stored last and still valid, "expired" is said of
\* a page whose time is over, and every call is answered.
ImplementsUrlCache == U!Spec
=============================================================================

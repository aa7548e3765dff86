------------------------------ MODULE UrlCache ------------------------------
(***************************************************************************)
(* What a worker thread may expect of its cache, without a word on chunks  *)
(* and lists: a map that keeps the last page stored for a url until its    *)
(* time is over, may forget it at any moment, and answers every call.  A    *)
(* page of Big it keeps, but cannot give back.                             *)
(***************************************************************************)
EXTENDS Integers

CONSTANTS Keys, Vals, Big, None, ExpireTime, MaxTime

VARIABLES
  latest,  \* for each key, the value stored last and the last time it is valid
  now,     \* the clock
  call,    \* the call in progress, or NoCall
  reply    \* what the last call returned

vars == <<latest, now, call, reply>>

NoCall  == [op |-> "none", key |-> None, val |-> None]
NoReply == [op |-> "none", key |-> None, st |-> "none", val |-> None]
Empty   == [k \in Keys |-> <<None, 0>>]

Calls == {[op |-> "get", key |-> k, val |-> None] : k \in Keys}
           \cup {[op |-> "put", key |-> k, val |-> v] : k \in Keys, v \in Vals}
           \cup {[op |-> "view", key |-> None, val |-> None]}

Answer(st, v) == [op |-> call.op, key |-> call.key, st |-> st, val |-> v]

Valid(k) == latest[k][1] # None /\ now <= latest[k][2]
Over(k)  == latest[k][1] # None /\ now > latest[k][2]

Answers ==
  CASE call.op = "get" ->
         {Answer("not_found", None)}
           \cup {Answer("ok", latest[k][1]) :
                   k \in {call.key} \cap {k \in Keys : Valid(k) /\ latest[k][1] \notin Big}}
           \cup {Answer("uncomp_error", None) :
                   k \in {call.key} \cap {k \in Keys : Valid(k) /\ latest[k][1] \in Big}}
           \cup {Answer("expired", None) : k \in {call.key} \cap {k \in Keys : Over(k)}}
    [] call.op = "put"  -> {Answer("stored", None), Answer("rejected", None)}
    [] call.op = "view" -> {Answer("done", None)}

Init == latest = Empty /\ now = 0 /\ call = NoCall /\ reply = NoReply

Begin ==
  /\ call = NoCall
  /\ call' \in Calls /\ reply' = NoReply
  /\ UNCHANGED <<latest, now>>

Store ==
  /\ call.op = "put"
  /\ latest' = [latest EXCEPT ![call.key] = <<call.val, now + ExpireTime>>]
  /\ UNCHANGED <<now, call, reply>>

Finish ==
  /\ call # NoCall
  /\ call' = NoCall /\ reply' \in Answers
  /\ UNCHANGED <<latest, now>>

\* The last piece of a value that fits one chunk is its first.
StoreAndFinish ==
  /\ call.op = "put"
  /\ latest' = [latest EXCEPT ![call.key] = <<call.val, now + ExpireTime>>]
  /\ call' = NoCall /\ reply' = Answer("stored", None)
  /\ UNCHANGED now

\* An empty page is refused at once.
Refuse ==
  /\ call = NoCall
  /\ \E k \in Keys :
       reply' = [op |-> "put", key |-> k, st |-> "rejected", val |-> None]
  /\ UNCHANGED <<latest, now, call>>

Tick ==
  /\ call = NoCall /\ now < MaxTime
  /\ now' = now + 1
  /\ UNCHANGED <<latest, call, reply>>

Restart ==
  /\ latest' = Empty /\ call' = NoCall /\ reply' = NoReply
  /\ UNCHANGED now

Next == Begin \/ Store \/ Finish \/ StoreAndFinish \/ Refuse \/ Tick \/ Restart

Spec == Init /\ [][Next]_vars /\ WF_vars(Finish \/ StoreAndFinish)
=============================================================================

------------------------------ MODULE MCServer ------------------------------
(***************************************************************************)
(* An instance of Server for TLC: u1 and the empty url belong to queue 1,  *)
(* a request without a url to queue 0.                                     *)
(***************************************************************************)
EXTENDS Server

CONSTANTS u1, c1, c2

HomeDef == [u \in Urls |-> 1]

\* The connections differ in nothing but their names: let c1 be the one that
\* is accepted first.
C1First == sock[c2] = "open" => sock[c1] \notin {"new", "backlog"}

C1FirstSpec ==
  /\ Init /\ [][Next /\ C1First']_vars
  /\ WF_vars(AcceptorMoves) /\ WF_vars(HandlerStep)
  /\ \A w \in Threads : WF_vars(WorkerMoves(w))
=============================================================================

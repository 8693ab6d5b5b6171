---------------------------- MODULE PhaseOrders ----------------------------
(***************************************************************************)
(* What the stream calls of the platform promise to the program that       *)
(* makes them (drake_platform_stream_create_explicit, _init, _run,         *)
(* _run_async followed by _wait, and _destroy in intel-ia.c): an order     *)
(* names a phase; every core takes that order up exactly once, carries it  *)
(* out and leaves a result; the call answers only when every core is       *)
(* through, and what it answers is the conjunction of the results of that  *)
(* very order.  Threads, semaphores and barriers do not appear here.       *)
(***************************************************************************)
CONSTANTS
  Cores,     \* the cores of the platform
  Phases,    \* what a core can be ordered to do
  NoOrder    \* no order is outstanding

VARIABLES
  order,     \* the outstanding order, or NoOrder
  begun,     \* the cores that have taken the latest order up
  ran,       \* the cores that have carried it out
  did,       \* per core, the order it took up last
  result,    \* per core, the result it left last
  answer     \* what the latest call answered

vars == <<order, begun, ran, did, result, answer>>

\* No order was given yet: there is nothing a core has not carried out.
\* The results are memory the program has not written to.
Init ==
  /\ order = NoOrder
  /\ begun = Cores
  /\ ran = Cores
  /\ did = [c \in Cores |-> NoOrder]
  /\ result \in [Cores -> BOOLEAN]
  /\ answer = FALSE

Submit(p) ==
  /\ order = NoOrder
  /\ order' = p
  /\ begun' = {}
  /\ ran' = {}
  /\ UNCHANGED <<did, result, answer>>

Begin(c) ==
  /\ order # NoOrder
  /\ c \notin begun
  /\ begun' = begun \cup {c}
  /\ did' = [did EXCEPT ![c] = order]
  /\ UNCHANGED <<order, ran, result, answer>>

Finish(c, ok) ==
  /\ c \in begun \ ran
  /\ ran' = ran \cup {c}
  /\ result' = [result EXCEPT ![c] = ok]
  /\ UNCHANGED <<order, begun, did, answer>>

Answer ==
  /\ order # NoOrder
  /\ ran = Cores
  /\ order' = NoOrder
  /\ answer' = (\A c \in Cores : result[c])
  /\ UNCHANGED <<begun, ran, did, result>>

Next ==
  \/ \E p \in Phases : Submit(p)
  \/ \E c \in Cores : Begin(c)
  \/ \E c \in Cores, ok \in BOOLEAN : Finish(c, ok)
  \/ Answer

Spec == Init /\ [][Next]_vars
=============================================================================

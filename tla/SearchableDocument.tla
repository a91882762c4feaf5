------------------------- MODULE SearchableDocument -------------------------
(***************************************************************************)
(* What the learner and the retrieval are promised about one document: it  *)
(* is ingested or given up for good; from its ingestion on, one index      *)
(* answers its queries, and the next one takes over in a single step;      *)
(* an index takes over only while the embedding it was asked for is the    *)
(* bound one, a request for a new embedding is made with the change of the *)
(* binding, and is dropped without effect only when the binding has moved  *)
(* on.  Events, leases, messages and workers are not seen here.            *)
(***************************************************************************)
CONSTANTS
  Identities,   \* embedding configurations
  Off,          \* no embedding: the bound profile is disabled
  Requests      \* requests to embed the document anew

VARIABLES
  status,    \* what the learner is told of the document
  binding,   \* the embedding the user has bound
  serving,   \* the embeddings whose index answers queries
  checked,   \* the binding when that index took over
  request,   \* per request: open, carried out or dropped ("done"), or failed
  wanted     \* the embedding it is for

vars == <<status, binding, serving, checked, request, wanted>>

Init ==
  /\ status = "none"
  /\ binding \in Identities
  /\ serving = {}
  /\ checked = Off
  /\ request = [n \in Requests |-> "none"]
  /\ wanted = [n \in Requests |-> Off]

Submit ==
  /\ status = "none"
  /\ status' = "pending"
  /\ UNCHANGED <<binding, serving, checked, request, wanted>>

\* One index takes over, whatever it was built with, while this is bound.
TakeOver == \E i \in Identities : serving' = {i} /\ checked' = binding

Ingest ==
  /\ status = "pending"
  /\ status' = "success"
  /\ TakeOver
  /\ UNCHANGED <<binding, request, wanted>>

GiveUp ==
  /\ status = "pending"
  /\ status' = "failed"
  /\ UNCHANGED <<binding, serving, checked, request, wanted>>

Ask(i) ==
  \E n \in Requests :
    /\ request[n] = "none"
    /\ request' = [request EXCEPT ![n] = "open"]
    /\ wanted' = [wanted EXCEPT ![n] = i]

\* What is searchable is asked for anew with the change, but not for no embedding.
Rebind(i) ==
  /\ i # binding
  /\ binding' = i
  /\ IF i # Off /\ status = "success" THEN Ask(i) ELSE UNCHANGED <<request, wanted>>
  /\ UNCHANGED <<status, serving, checked>>

\* A disabled profile is edited: asked for, although it is not bound.
Prepare(i) ==
  /\ status = "success"
  /\ binding' = Off
  /\ Ask(i)
  /\ UNCHANGED <<status, serving, checked>>

Closes(n, result) ==
  /\ request' = [request EXCEPT ![n] = result]
  /\ UNCHANGED <<status, binding, wanted>>

CarryOut(n) ==
  /\ request[n] = "open"
  /\ wanted[n] = binding
  /\ TakeOver
  /\ Closes(n, "done")

Drop(n) ==
  /\ request[n] = "open"
  /\ wanted[n] # binding
  /\ Closes(n, "done")
  /\ UNCHANGED <<serving, checked>>

\* Even after it was carried out: a failure may be recorded late.
Fail(n) ==
  /\ request[n] # "none"
  /\ Closes(n, "failed")
  /\ UNCHANGED <<serving, checked>>

Next ==
  \/ Submit \/ Ingest \/ GiveUp
  \/ \E i \in Identities \cup {Off} : Rebind(i)
  \/ \E i \in Identities : Prepare(i)
  \/ \E n \in Requests : CarryOut(n) \/ Drop(n) \/ Fail(n)

Spec == Init /\ [][Next]_vars
=============================================================================

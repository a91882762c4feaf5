---------------------------- MODULE ThreadLease ----------------------------
(***************************************************************************)
(* What the conversation service promises about the runs of one thread:    *)
(* the thread is leased to one run at a time; the run that holds it may be *)
(* withdrawn by the user, and ends either answered or given up, for good;  *)
(* a withdrawn run is never answered; the thread closes only while nobody  *)
(* holds it, and never opens again.                                        *)
(***************************************************************************)
EXTENDS FiniteSets, Naturals

CONSTANT Runs

VARIABLES
  open,       \* the thread accepts runs
  holder,     \* the run that holds the thread, if any
  withdrawn,  \* runs the user no longer wants
  answered,   \* runs that ended with an answer
  givenUp     \* runs that ended without one

vars == <<open, holder, withdrawn, answered, givenUp>>

Init ==
  /\ open = TRUE
  /\ holder = {}
  /\ withdrawn = {}
  /\ answered = {}
  /\ givenUp = {}

Acquire(r) ==
  /\ open
  /\ holder = {}
  /\ r \notin answered \cup givenUp
  /\ holder' = {r}
  /\ UNCHANGED <<open, withdrawn, answered, givenUp>>

Withdraw(r) ==
  /\ holder = {r}
  /\ withdrawn' = withdrawn \cup {r}
  /\ UNCHANGED <<open, holder, answered, givenUp>>

Answer(r) ==
  /\ holder = {r}
  /\ r \notin withdrawn
  /\ holder' = {}
  /\ answered' = answered \cup {r}
  /\ UNCHANGED <<open, withdrawn, givenUp>>

\* Giving up may be how the run learns that its user has left.
GiveUp(r) ==
  /\ holder = {r}
  /\ holder' = {}
  /\ givenUp' = givenUp \cup {r}
  /\ withdrawn' \in {withdrawn, withdrawn \cup {r}}
  /\ UNCHANGED <<open, answered>>

Close ==
  /\ open
  /\ holder = {}
  /\ open' = FALSE
  /\ UNCHANGED <<holder, withdrawn, answered, givenUp>>

Next ==
  \/ \E r \in Runs : Acquire(r) \/ Withdraw(r) \/ Answer(r) \/ GiveUp(r)
  \/ Close

Spec == Init /\ [][Next]_vars
=============================================================================

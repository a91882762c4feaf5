------------------------------ MODULE TutorView ------------------------------
(* The tutor page of one learner and one goal: which conversation is open, what it shows, *)
(* the stream of the question or decision under way, and the requests whose answers are   *)
(* still to come. Handlers of the page run one at a time; streams, lists and answers of   *)
(* the API arrive in any order, late or never. The server is what its answers tell: runs  *)
(* of threads, one active run a thread, an approval a run may wait for.                   *)
EXTENDS Naturals, Sequences, FiniteSets

CONSTANTS
    FirstThreads, SpareThreads,   \* conversations listed at the start, and still to be made
    MaxRuns, MaxStreams,          \* bounds: questions the server accepts, streams the page opens
    MaxPending,                     \* bound: other requests under way
    MaxLanguageChanges              \* bound: how often the learner changes the language

ASSUME ViewAssumption ==
    /\ FirstThreads # {} /\ "none" \notin FirstThreads \cup SpareThreads
    /\ {MaxRuns, MaxStreams, MaxPending, MaxLanguageChanges} \subseteq Nat

Threads == FirstThreads \cup SpareThreads
Runs    == 1..MaxRuns
Streams == 1..MaxStreams

VARIABLES
    backend,    \* the runs, the threads ever made, and those that are open
    stream,    \* the event streams the page asked for, in order
    loads,     \* lists asked for by the effects of the page
    calls,     \* other requests of the page, with what their handlers remember
    page       \* the state of the provider

viewVars == <<backend, stream, loads, calls, page>>

NoRun    == [thread |-> "none", status |-> "none", approval |-> "none"]
NoStream == [kind |-> "none", thread |-> "none", run |-> 0, told |-> 0, state |-> "none",
             wire |-> <<>>, awaiting |-> FALSE]

Load(kind, t) == [kind |-> kind, thread |-> t, read |-> FALSE, rows |-> {}]
Opened(t) == {Load("messages", t), Load("approvals", t)}

Awaited(kinds) == {l \in loads : l.kind \in kinds}

\* Everything that is shown of a conversation is cleared; its messages are not awaited any more.
Reset(v) == [v EXCEPT !.transcript = {}, !.answer = {}, !.approvals = {}, !.activeRun = 0,
                      !.asked = FALSE, !.current = 0]

\* The answer is a text that pieces are appended to: the runs they are of.  For the properties
\* the page also keeps the runs that were decided in a conversation they are not of
\* (elsewhere), and the answer that stayed when another conversation was opened (leftover).

ViewInit ==
    /\ backend = [run |-> [r \in Runs |-> NoRun], threads |-> FirstThreads, made |-> FirstThreads]
    /\ stream = [s \in Streams |-> NoStream]
    /\ calls = {}
    /\ LET t == CHOOSE x \in FirstThreads : TRUE
       IN /\ page = Reset([open |-> t, listed |-> FirstThreads, request |-> 0, busy |-> FALSE,
                           activeRun |-> 0, transcript |-> {}, answer |-> {}, approvals |-> {},
                           asked |-> FALSE, current |-> 0, changes |-> 0,
                           elsewhere |-> {}, leftover |-> {}])
          /\ loads = Opened(t)

Quiet == page.activeRun = 0 /\ ~page.busy
Called(kinds) == {c \in calls : c.kind \in kinds}
Sent(kind) == [kind |-> kind, thread |-> "none", listed |-> {}, stream |-> 0, run |-> 0, active |-> 0, rows |-> {}]
Replaces(c, rest) == calls' = (calls \ {c}) \cup rest

Unsettled == {"running", "awaiting", "executing", "cancelling"}
ActiveRuns(t) == {r \in Runs : backend.run[r].thread = t /\ backend.run[r].status \in Unsettled}

(*------------------------------- conversations -------------------------------*)

\* The messages and approvals are asked for by effects of the open conversation and the
\* language: they do not run again when the conversation is opened a second time, whose
\* messages are then not awaited any more.
Switch(v, t) ==
    /\ page' = [Reset(v) EXCEPT !.open = t]
    /\ loads' = IF t # page.open THEN Opened(t) \cup Awaited({"conversations"})
                ELSE Awaited({"conversations", "approvals"})

SelectConversation(t) ==
    /\ Quiet /\ t \in page.listed \ {page.open}
    /\ Switch(page, t)
    /\ UNCHANGED <<backend, stream, calls>>

CallsLeft == Cardinality(calls) < MaxPending

AskCreate ==
    /\ Quiet /\ CallsLeft
    /\ calls' = calls \cup {Sent("create")}
    /\ UNCHANGED <<backend, stream, loads, page>>

Makes(t) ==
    /\ t \in SpareThreads \ backend.made
    /\ backend' = [backend EXCEPT !.threads = @ \cup {t}, !.made = @ \cup {t}]

\* The new conversation is opened, whatever has begun in the old one since it was asked for.
CreateAnswered(t) ==
    /\ Makes(t)
    /\ \E c \in Called({"create"}) :
          /\ Switch([page EXCEPT !.listed = @ \cup {t}], t)
          /\ Replaces(c, {})
    /\ UNCHANGED stream

AskDelete ==
    /\ Quiet /\ CallsLeft
    /\ calls' = calls \cup {[Sent("delete") EXCEPT !.thread = page.open, !.listed = page.listed]}
    /\ UNCHANGED <<backend, stream, loads, page>>

ServerArchives ==
    \E c \in Called({"delete"}) :
       /\ IF ActiveRuns(c.thread) = {} /\ c.thread \in backend.threads
          THEN /\ backend' = [backend EXCEPT !.threads = @ \ {c.thread}]
               /\ Replaces(c, {[c EXCEPT !.kind = "deleted"]})
          ELSE Replaces(c, {}) /\ UNCHANGED backend
       /\ UNCHANGED <<stream, loads, page>>

\* The handler goes on with the list of conversations it started with.
DeleteAnswered ==
    \E c \in Called({"deleted"}) :
       LET remaining == c.listed \ {c.thread}
       IN /\ IF remaining # {}
             THEN /\ \E t \in remaining : Switch([page EXCEPT !.listed = remaining], t)
                  /\ Replaces(c, {})
             ELSE /\ page' = Reset(page)
                  /\ loads' = Awaited({"conversations", "approvals"})
                  /\ Replaces(c, {Sent("replace")})
          /\ UNCHANGED <<backend, stream>>

\* The handler cleared the page before it asked: what has been answered since stays.
ReplaceAnswered(t) ==
    /\ Makes(t)
    /\ \E c \in Called({"replace"}) :
          /\ page' = [page EXCEPT !.listed = {t}, !.open = t, !.transcript = {}, !.leftover = page.answer]
          /\ loads' = Opened(t) \cup Awaited({"conversations"})
          /\ Replaces(c, {})
    /\ UNCHANGED stream

RequestFails ==
    \E c \in Called({"create", "delete", "deleted", "replace"}) :
       Replaces(c, {}) /\ UNCHANGED <<backend, stream, loads, page>>

(*----------------------------------- lists -----------------------------------*)

Messages(t) ==
    {<<r, "user">> : r \in {x \in Runs : backend.run[x].thread = t}}
      \cup {<<r, "assistant">> : r \in {x \in Runs : backend.run[x].thread = t /\ backend.run[x].status = "success"}}
Approvals(t) ==
    {[run |-> r, status |-> backend.run[r].approval] :
        r \in {x \in Runs : backend.run[x].thread = t /\ backend.run[x].approval # "none"}}

Listed(l) ==
    CASE l.kind = "messages"      -> Messages(l.thread)
      [] l.kind = "approvals"     -> Approvals(l.thread)
      [] l.kind = "conversations" -> backend.threads

\* A list that cannot be had is as one that does not arrive.
ServerLists ==
    \E l \in loads :
       /\ ~l.read
       /\ loads' = (loads \ {l}) \cup
            {[l EXCEPT !.read = TRUE, !.rows = Listed(l)]}
       /\ UNCHANGED <<backend, stream, calls, page>>

\* Mutant of Merged: the list replaces what is shown.
Replaced(messages) == messages

\* The messages of the provider are merged with those the stream has added since they were
\* read; what the page shows of them is Shown.
Merged(messages) == page.transcript \cup messages

MessagesArrive ==
    \E l \in loads :
       /\ l.read /\ l.kind = "messages"
       /\ page' = [page EXCEPT !.transcript = Merged(l.rows)]
       /\ loads' = loads \ {l}
       /\ UNCHANGED <<backend, stream, calls>>

\* The approvals replace those the page has, and one that is open makes its run the active one.
ApprovalsArrive ==
    \E l \in loads :
       /\ l.read /\ l.kind = "approvals"
       /\ LET undecided == {a \in l.rows : a.status \in {"pending", "executing"}}
          IN page' = IF undecided = {} THEN [page EXCEPT !.approvals = l.rows]
                     ELSE [page EXCEPT !.approvals = l.rows, !.activeRun = (CHOOSE a \in undecided : TRUE).run]
       /\ loads' = loads \ {l}
       /\ UNCHANGED <<backend, stream, calls>>

(*---------------------------- questions and decisions ------------------------*)

NextStream(s) == stream[s].kind = "none" /\ \A x \in 1..(s - 1) : stream[x].kind # "none"
Sends(s, k, r) ==
    stream' = [stream EXCEPT ![s] = [NoStream EXCEPT !.kind = k, !.thread = page.open, !.run = r, !.told = r, !.state = "sent"]]

\* A question asked while another action of the tutor runs takes the place of the one
\* shown and clears the answer, and that is all.
AskIgnored ==
    /\ page.activeRun = 0 /\ page.busy
    /\ page' = [page EXCEPT !.answer = {}, !.asked = TRUE]
    /\ UNCHANGED <<backend, stream, loads, calls>>

AskTutor(s) ==
    /\ Quiet /\ NextStream(s)
    /\ Sends(s, "ask", 0)
    /\ page' = [page EXCEPT !.request = s, !.busy = TRUE, !.answer = {}, !.asked = TRUE]
    /\ UNCHANGED <<backend, loads, calls>>

\* The approval is shown as executing at once, or as decided when it is rejected.
DecideToolApproval(s, a, decision) ==
    /\ ~page.busy /\ NextStream(s) /\ a \in page.approvals /\ a.status = "pending"
    /\ Sends(s, decision, a.run)
    /\ page' = [page EXCEPT !.request = s, !.busy = TRUE, !.activeRun = a.run,
                            !.approvals = (@ \ {a}) \cup {[a EXCEPT !.status = decision]},
                            !.elsewhere = @ \cup {r \in {a.run} : backend.run[r].thread # page.open}]
    /\ UNCHANGED <<backend, loads, calls>>

Decisions == {"executing", "decided"}

\* The stream of a run that has one, or nobody.
Tells(r, event, ends) ==
    stream' = [s \in Streams |->
        IF stream[s].run = r /\ stream[s].state = "open"
        THEN [stream[s] EXCEPT !.wire = Append(@, event), !.state = IF ends THEN "closing" ELSE "open"]
        ELSE stream[s]]

NextRun(r) == backend.run[r] = NoRun /\ \A x \in 1..(r - 1) : backend.run[x] # NoRun

ServerStarts(s) ==
    /\ stream[s].kind = "ask" /\ stream[s].state = "sent"
    /\ LET t == stream[s].thread
       IN IF t \in backend.threads /\ ActiveRuns(t) = {} /\ \E r \in Runs : NextRun(r)
          THEN \E r \in Runs :
                 /\ NextRun(r)
                 /\ backend' = [backend EXCEPT !.run[r] = [NoRun EXCEPT !.thread = t, !.status = "running"]]
                 /\ stream' = [stream EXCEPT ![s] = [@ EXCEPT !.run = r, !.state = "open", !.wire = <<"started">>]]
          ELSE stream' = [stream EXCEPT ![s].state = "broken"] /\ UNCHANGED backend
    /\ UNCHANGED <<loads, calls, page>>

ServerResumes(s) ==
    /\ stream[s].kind \in Decisions /\ stream[s].state = "sent"
    /\ LET r == stream[s].run IN
       IF backend.run[r].status = "awaiting"
       THEN /\ backend' = [backend EXCEPT !.run[r] = [@ EXCEPT !.approval = stream[s].kind,
                 !.status = IF stream[s].kind = "executing" THEN "executing" ELSE "running"]]
            /\ stream' = [stream EXCEPT ![s].state = "open"]
       ELSE stream' = [stream EXCEPT ![s].state = "broken"] /\ UNCHANGED backend
    /\ UNCHANGED <<loads, calls, page>>

\* Bound: a run that has a stream goes on when its last event has been received.
Working(r) ==
    /\ backend.run[r].status \in Unsettled \ {"awaiting"}
    /\ \A s \in Streams : stream[s].run = r => stream[s].wire = <<>>

ServerWrites(r) ==
    /\ Working(r) /\ \E s \in Streams : stream[s].run = r /\ stream[s].state = "open"
    /\ Tells(r, "delta", FALSE)
    /\ UNCHANGED <<backend, loads, calls, page>>

ServerAsksApproval(r) ==
    /\ Working(r) /\ backend.run[r].status # "cancelling"
    /\ backend' = [backend EXCEPT !.run[r] = [@ EXCEPT !.status = "awaiting", !.approval = "pending"]]
    /\ Tells(r, "approval", TRUE)
    /\ UNCHANGED <<loads, calls, page>>

\* A run that is to be cancelled does not succeed; one that nobody works on is settled by
\* the next start of the server. What it was settled to is told by the event alone.
ServerSettles(r, event) ==
    /\ Working(r) /\ (backend.run[r].status = "cancelling" => event = "cancelled")
    /\ backend' = [backend EXCEPT !.run[r] = [@ EXCEPT
           !.status = IF event = "success" THEN "success" ELSE "unanswered",
           !.approval = IF backend.run[r].approval = "executing" THEN "decided" ELSE backend.run[r].approval]]
    /\ Tells(r, event, TRUE)
    /\ UNCHANGED <<loads, calls, page>>

ConnectionBreaks(s) ==
    /\ stream[s].state \in {"sent", "open"} \/ (stream[s].state = "closing" /\ stream[s].wire # <<>>)
    /\ stream' = [stream EXCEPT ![s] = [@ EXCEPT !.state = "broken", !.wire = <<>>]]
    /\ UNCHANGED <<backend, loads, calls, page>>

\* Mutant of IsCurrent: only the request is compared.
OfRequest(s) == page.request = s

\* Events of a stream whose request was replaced, or whose conversation is not open, are
\* passed over; the events of a decision only look at the conversation.
IsCurrent(s) ==
    /\ stream[s].thread = page.open
    /\ stream[s].kind = "ask" => page.request = s

\* A further approval is told to the stream of a decision as a failure.
AfterEvent(v, s, event) ==
    LET r == stream[s].run
        asked == stream[s].kind = "ask"
    IN CASE event = "started"   -> [v EXCEPT !.activeRun = r, !.current = r,
                                            !.transcript = @ \cup {<<r, "user">>}]
         [] event = "delta"     -> [v EXCEPT !.answer = @ \cup {r}]
         [] event = "success"   -> [v EXCEPT !.answer = {r}, !.transcript = @ \cup {<<r, "assistant">>}]
         [] event = "failed" \/ (event = "approval" /\ ~asked) -> [v EXCEPT !.answer = {}]
         [] event = "approval" /\ asked ->
              [v EXCEPT !.activeRun = r, !.current = r,
                        !.approvals = {a \in @ : a.run # r} \cup {[run |-> r, status |-> "pending"]}]
         [] event = "cancelled" -> v

ReceiveEvent(s) ==
    /\ stream[s].state \in {"open", "closing"} /\ stream[s].wire # <<>>
    /\ LET event == Head(stream[s].wire)
           says  == stream[s]
       IN /\ stream' = [stream EXCEPT ![s] = [says EXCEPT !.wire = Tail(says.wire),
                 !.told     = IF IsCurrent(s) /\ event \in {"started", "approval"} THEN says.run ELSE says.told,
                 !.awaiting = says.awaiting \/ (IsCurrent(s) /\ event = "approval" /\ says.kind = "ask")]]
          /\ page' = IF IsCurrent(s) THEN AfterEvent(page, s, event) ELSE page
    /\ UNCHANGED <<backend, loads, calls>>

\* The page takes nothing more from the stream. A request the server has not had is lost.
Aborts(s) ==
    stream' = [x \in Streams |->
       IF x = s /\ stream[x].state \in {"sent", "open", "closing"}
       THEN [stream[x] EXCEPT !.state = "aborted", !.wire = <<>>] ELSE stream[x]]

\* The stream is over: the request is forgotten if it is still the page's, and the active
\* run with it unless it waits for the learner.
Finalized(v, s) ==
    IF v.request # s THEN v
    ELSE [v EXCEPT !.request = 0, !.activeRun = IF stream[s].awaiting THEN @ ELSE 0]

IsOver(s) ==
    \/ stream[s].state = "closing" /\ stream[s].wire = <<>>
    \/ stream[s].state \in {"broken", "aborted"}
StreamOver(s) == stream' = [stream EXCEPT ![s] = [NoStream EXCEPT !.kind = "over"]]

AskEnds(s) ==
    /\ stream[s].kind = "ask" /\ IsOver(s) /\ StreamOver(s)
    /\ page' = [Finalized(page, s) EXCEPT !.busy = FALSE]
    /\ UNCHANGED <<backend, loads, calls>>

\* A decision whose stream broke off is over; otherwise the approvals of the conversation
\* it was made in are asked for again.
DecideEnds(s) ==
    /\ stream[s].kind \in Decisions /\ IsOver(s) /\ StreamOver(s)
    /\ LET done == [Finalized(page, s) EXCEPT !.activeRun = 0]
       IN IF stream[s].state = "broken"
          THEN page' = [done EXCEPT !.busy = FALSE] /\ UNCHANGED calls
          ELSE /\ page' = done
               /\ calls' = calls \cup {[Sent("restore") EXCEPT !.thread = stream[s].thread]}
    /\ UNCHANGED <<backend, loads>>

ServerRestores ==
    \E c \in Called({"restore"}) :
       /\ Replaces(c, {[c EXCEPT !.kind = "restored", !.rows = Approvals(c.thread)]})
       /\ UNCHANGED <<backend, stream, loads, page>>

RestoreAnswered ==
    \E c \in Called({"restored"}) :
       /\ page' = [page EXCEPT !.approvals = c.rows, !.busy = FALSE]
       /\ Replaces(c, {})
       /\ UNCHANGED <<backend, stream, loads>>

RestoreFails ==
    \E c \in Called({"restore"}) :
       /\ page' = [page EXCEPT !.busy = FALSE]
       /\ Replaces(c, {})
       /\ UNCHANGED <<backend, stream, loads>>

(*-------------------------------- cancellation -------------------------------*)

Cancelled(v, active) ==
    [v EXCEPT !.activeRun = 0, !.approvals = {a \in @ : a.run # active}]

\* Nothing is sent for a request whose run is not known yet.
CancelTutor ==
    /\ page.activeRun # 0 /\ CallsLeft
    /\ IF page.request # 0 /\ stream[page.request].told = 0
       THEN page' = Cancelled(page, page.activeRun) /\ UNCHANGED calls
       ELSE /\ calls' = calls \cup {[Sent("cancel") EXCEPT !.stream = page.request, !.active = page.activeRun,
                              !.run = IF page.request = 0 THEN page.activeRun ELSE stream[page.request].told]}
            /\ UNCHANGED page
    /\ UNCHANGED <<backend, stream, loads>>

ServerCancels ==
    \E c \in Called({"cancel"}) :
       /\ IF backend.run[c.run].status \in {"running", "awaiting"}
          THEN backend' = [backend EXCEPT !.run[c.run].status = "cancelling"] ELSE UNCHANGED backend
       /\ Replaces(c, {[c EXCEPT !.kind = "cancelled"]})
       /\ UNCHANGED <<stream, loads, page>>

\* The page forgets whatever run is active by now. The stream of the request is aborted
\* whether the answer is good or bad.
CancelAnswered ==
    \E c \in Called({"cancelled"}) :
       /\ page' = Cancelled(page, c.active)
       /\ Aborts(c.stream) /\ Replaces(c, {})
       /\ UNCHANGED <<backend, loads>>

CancelFails ==
    \E c \in Called({"cancel", "cancelled"}) :
       /\ Aborts(c.stream) /\ Replaces(c, {})
       /\ UNCHANGED <<backend, loads, page>>

(*---------------------------------- language ---------------------------------*)

\* The effects of the provider depend on the translation, which a change of the language
\* makes anew: the stream under way is aborted, the conversations are listed again, and so
\* are the messages, which are cleared first, and the approvals of the open one. What was
\* asked for before is not awaited any more.
ChangeLanguage ==
    /\ page.changes < MaxLanguageChanges
    /\ Aborts(page.request)
    /\ page' = [page EXCEPT !.changes = @ + 1, !.transcript = {}]
    /\ loads' = Opened(page.open) \cup {Load("conversations", "none")}
    /\ UNCHANGED <<backend, calls>>

\* When no conversation is listed, the page has one made and lists it alone.
FirstMade(t) ==
    /\ Makes(t)
    /\ \E l \in Awaited({"conversations"}) :
          /\ l.read /\ l.rows = {}
          /\ loads' = (loads \ {l}) \cup {[l EXCEPT !.rows = {t}]}
    /\ UNCHANGED <<stream, calls, page>>

\* The first one listed is opened, whatever is open by now and without a reset: only the
\* messages are cleared, when it is another one, and asked for as its approvals are.
ConversationsArrive ==
    \E l \in Awaited({"conversations"}) : \E t \in l.rows :
       /\ l.read
       /\ page' = IF t = page.open THEN [page EXCEPT !.listed = l.rows]
                  ELSE [page EXCEPT !.listed = l.rows, !.open = t, !.transcript = {}, !.leftover = page.answer]
       /\ loads' = IF t = page.open THEN loads \ {l} ELSE Opened(t)
       /\ UNCHANGED <<backend, stream, calls>>

ViewNext ==
    \/ \E t \in Threads : SelectConversation(t) \/ CreateAnswered(t) \/ ReplaceAnswered(t)
    \/ AskCreate \/ AskDelete \/ ServerArchives \/ DeleteAnswered \/ RequestFails
    \/ ServerLists \/ MessagesArrive \/ ApprovalsArrive
    \/ \E s \in Streams :
          \/ AskTutor(s) \/ ServerStarts(s) \/ ServerResumes(s) \/ ConnectionBreaks(s)
          \/ ReceiveEvent(s) \/ AskEnds(s) \/ DecideEnds(s)
          \/ \E a \in page.approvals : \E decision \in Decisions : DecideToolApproval(s, a, decision)
    \/ \E r \in Runs :
          \/ ServerWrites(r) \/ ServerAsksApproval(r)
          \/ \E event \in {"success", "failed", "cancelled"} : ServerSettles(r, event)
    \/ ServerRestores \/ RestoreAnswered \/ RestoreFails
    \/ CancelTutor \/ ServerCancels \/ CancelAnswered \/ CancelFails \/ AskIgnored
    \/ ChangeLanguage \/ ConversationsArrive \/ \E t \in Threads : FirstMade(t)

ViewSpec == ViewInit /\ [][ViewNext]_viewVars

\* The messages on the page. Those of the run that is the current one are left out when a
\* question is shown: the page has the question and the answer beside them.
Shown(v) == {m \in v.transcript : ~(v.asked /\ m[1] = v.current)}

\* Whatever arrives late, the messages and the answer on the page are of the conversation
\* that is open, but for three ways that are left: the approvals a decision has asked for
\* again are shown, and may be decided, in whatever conversation is open by then; the
\* handler that replaces the last conversation clears the page before it opens the new one;
\* and after a change of the language the first conversation listed is opened under the
\* answer of the one before (learning-provider.tsx:391-393,434-438,544-551,717-719,740,891,
\* 944-946).
ShownIsOfThread ==
    /\ \A m \in page.transcript : backend.run[m[1]].thread = page.open \/ m[1] \in page.elsewhere
    /\ \A r \in page.answer :
          backend.run[r].thread = page.open \/ r \in page.elsewhere \cup page.leftover

\* A message once shown stays while its conversation is open, as a message or in the current
\* turn: a list that was read before the answer was given, or an event, never takes it away.
\* Only the handler of a deletion and a change of the language do, which clear the messages
\* (learning-provider.tsx:427,439,543,1460-1462, tutor-stream.mjs:44).
ShownStays ==
    [][page'.open = page.open /\ page'.changes = page.changes /\ Called({"deleted"}) = {}
         => \A m \in Shown(page) : m \in Shown(page') \/ m[1] = page'.current]_viewVars
=============================================================================

--------------------------- MODULE ExecutionsPage ---------------------------
(***************************************************************************)
(* The executions page of the frontend: its list, polled while it shows a  *)
(* running execution, and its dialog, which polls the execution it shows   *)
(* while that runs.  Requests are answered in any order and none is ever   *)
(* called off.  The live preview is left out.                              *)
(***************************************************************************)
EXTENDS Naturals, FiniteSets

CONSTANTS
  PageExecs,      \* executions
  MaxLists,       \* bound: list requests in flight when the interval makes one more
  MaxPolls,       \* bound: polls in flight
  MaxUserSteps,   \* bound: clicks that ask the server for something
  MaxPageFaults   \* bound: requests that fail

Nothing == "nothing"

ASSUME PageAssumption ==
  /\ {MaxLists, MaxPolls, MaxUserSteps, MaxPageFaults} \subseteq Nat
  /\ Nothing \notin PageExecs

VARIABLES
  pageServer,    \* the executions in the database
  pageList,      \* executions: the status the list shows
  pageDialog,    \* detailOpen and selectedExecution
  pagePoll,      \* the execution of the interval in pollIntervalRef
  pageRequests,  \* requests in flight
  pageClicked,   \* the row last clicked
  pageCrossed,   \* whether requests have met: of the list ever, of this dialog
  pageSteps,     \* how many clicks have been made
  pageFaults

pageVars == <<pageServer, pageList, pageDialog, pagePoll, pageRequests, pageClicked,
              pageCrossed, pageSteps, pageFaults>>

-----------------------------------------------------------------------------
\* PASSED, FAILED and CANCELLED make no difference here: they are "ENDED".
Shown == {"PENDING", "RUNNING", "ENDED"}

Lists == [PageExecs -> Shown \cup {"none", "deleted"}]
Seen  == [exec : PageExecs \cup {Nothing}, status : Shown \cup {"none"}]
Unseen == [exec |-> Nothing, status |-> "none"]
Unread == [e \in PageExecs |-> Nothing]

\* seen is what the closure of fetchExecutions captured, answer what the server read.
Request ==
  [kind : {"list"}, seen : Seen, answer : Lists \cup {Unread}]
  \cup [kind : {"open", "poll", "create", "start", "delete"}, exec : PageExecs,
        answer : Shown \cup {"done", Nothing}]

List(seen)   == [kind |-> "list", seen |-> seen, answer |-> Unread]
Ask(kind, e) == [kind |-> kind, exec |-> e, answer |-> Nothing]

Waiting(r) == IF r.kind = "list" THEN r.answer = Unread ELSE r.answer = Nothing

Of(kinds) == {r \in pageRequests : r.kind \in kinds}

\* A created execution is PENDING, and is not worked on until it is started.
Label(s) == IF s = "created" THEN "PENDING" ELSE s

\* The list asked for on mounting is on its way, or has not come.
PageInit ==
  /\ pageServer \in [PageExecs -> {"none", "PENDING", "RUNNING"}]
  /\ pageList = [e \in PageExecs |-> "none"]
  /\ pageDialog = [open |-> FALSE, exec |-> Nothing, status |-> "none"]
  /\ pagePoll = Nothing /\ pageClicked = Nothing
  /\ pageRequests \in SUBSET {List(Unseen)}
  /\ pageCrossed = [list |-> FALSE, dialog |-> FALSE] /\ pageSteps = 0 /\ pageFaults = 0

-----------------------------------------------------------------------------
(* The server, as far as the page can tell.                                *)

\* An execution that was started goes on (what Executions is about).
Work(e) ==
  /\ \/ pageServer[e] = "PENDING" /\ pageServer' = [pageServer EXCEPT ![e] = "RUNNING"]
     \/ pageServer[e] = "RUNNING" /\ pageServer' = [pageServer EXCEPT ![e] = "ENDED"]
  /\ UNCHANGED <<pageList, pageDialog, pagePoll, pageRequests, pageClicked, pageCrossed,
                 pageSteps, pageFaults>>

\* Reading and starting what is deleted is an error.
AboutDeleted(r) == r.kind \in {"open", "poll", "start"} /\ pageServer[r.exec] = "deleted"

\* The request is carried out.
Answer(r) ==
  /\ Waiting(r) /\ ~AboutDeleted(r)
  /\ pageRequests' = (pageRequests \ {r}) \cup {[r EXCEPT !.answer =
       CASE r.kind = "list" -> [e \in PageExecs |-> Label(pageServer[e])]
         [] r.kind \in {"open", "poll"} -> Label(pageServer[r.exec])
         [] OTHER -> "done"]}
  /\ pageServer' =
       CASE r.kind = "create" -> [pageServer EXCEPT ![r.exec] = "created"]
         [] r.kind = "start"  -> [pageServer EXCEPT ![r.exec] = "PENDING"]
         [] r.kind = "delete" -> [pageServer EXCEPT ![r.exec] = "deleted"]
         [] OTHER -> pageServer
  /\ UNCHANGED <<pageList, pageDialog, pagePoll, pageClicked, pageCrossed, pageSteps,
                 pageFaults>>

\* The request fails: a message, if anything.
Fails(r) ==
  /\ Waiting(r)
  /\ \/ AboutDeleted(r) /\ UNCHANGED pageFaults
     \/ pageFaults < MaxPageFaults /\ pageFaults' = pageFaults + 1
  /\ pageRequests' = pageRequests \ {r}
  /\ pageCrossed' = [pageCrossed EXCEPT !.dialog = @ \/ r.kind = "open"]
  /\ UNCHANGED <<pageServer, pageList, pageDialog, pagePoll, pageClicked, pageSteps>>

-----------------------------------------------------------------------------
(* The list.                                                               *)

\* Mutant: the list is polled until something in it has ended.
ListTickUntilOne ==
  /\ \E e \in PageExecs : pageList[e] = "RUNNING"
  /\ \A e \in PageExecs : pageList[e] # "ENDED"
  /\ Cardinality(Of({"list"})) < MaxLists
  /\ pageRequests' = pageRequests \cup {List(IF pageDialog.open THEN
       [exec |-> pageDialog.exec, status |-> pageDialog.status] ELSE Unseen)}
  /\ pageCrossed' = [list   |-> pageCrossed.list \/ Of({"list"}) # {},
                     dialog |-> pageCrossed.dialog \/ Of({"open"}) # {}]
  /\ UNCHANGED <<pageServer, pageList, pageDialog, pagePoll, pageClicked, pageSteps,
                 pageFaults>>

\* The interval of 5 s: there is one while the list shows a running execution.
ListTick ==
  /\ \E e \in PageExecs : pageList[e] = "RUNNING"
  /\ Cardinality(Of({"list"})) < MaxLists
  /\ pageRequests' = pageRequests \cup {List(IF pageDialog.open THEN
       [exec |-> pageDialog.exec, status |-> pageDialog.status] ELSE Unseen)}
  /\ pageCrossed' = [list   |-> pageCrossed.list \/ Of({"list"}) # {},
                     dialog |-> pageCrossed.dialog \/ Of({"open"}) # {}]
  /\ UNCHANGED <<pageServer, pageList, pageDialog, pagePoll, pageClicked, pageSteps,
                 pageFaults>>

\* The list is replaced; if the execution the closure saw in the dialog has changed, its
\* status goes to the one that is in the dialog now.
ApplyList(r) ==
  /\ r.kind = "list" /\ ~Waiting(r)
  /\ pageList' = [e \in PageExecs |-> IF r.answer[e] = "deleted" THEN "none" ELSE r.answer[e]]
  /\ pageDialog' =
       IF /\ r.seen.exec # Nothing
          /\ r.answer[r.seen.exec] \notin {"deleted", "none", r.seen.status}
       THEN [pageDialog EXCEPT !.status = r.answer[r.seen.exec]]
       ELSE pageDialog
  /\ pageRequests' = pageRequests \ {r}
  /\ UNCHANGED <<pageServer, pagePoll, pageClicked, pageCrossed, pageSteps, pageFaults>>

\* handleRunTest: create, then start, then the list.
RunTest(e) ==
  /\ pageSteps < MaxUserSteps /\ pageSteps' = pageSteps + 1
  /\ pageServer[e] = "none" /\ Of({"create", "start"}) = {}
  /\ pageRequests' = pageRequests \cup {Ask("create", e)}
  /\ UNCHANGED <<pageServer, pageList, pageDialog, pagePoll, pageClicked, pageCrossed,
                 pageFaults>>

\* handleDelete, of a listed execution, then the list.
DeleteRow(e) ==
  /\ pageSteps < MaxUserSteps /\ pageSteps' = pageSteps + 1
  /\ ~pageDialog.open /\ pageList[e] # "none" /\ Of({"delete"}) = {}
  /\ pageRequests' = pageRequests \cup {Ask("delete", e)}
  /\ UNCHANGED <<pageServer, pageList, pageDialog, pagePoll, pageClicked, pageCrossed,
                 pageFaults>>

\* The next request of handleRunTest or handleDelete.  Their own dialogs were open when
\* they were made, and so not this one.
GoOn(r) ==
  /\ r.kind \in {"create", "start", "delete"} /\ r.answer = "done"
  /\ pageRequests' = (pageRequests \ {r}) \cup
       {IF r.kind = "create" THEN Ask("start", r.exec) ELSE List(Unseen)}
  /\ pageCrossed' =
       IF r.kind = "create" THEN pageCrossed
       ELSE [list   |-> pageCrossed.list \/ Of({"list"}) # {},
             dialog |-> pageCrossed.dialog \/ pageDialog.open]
  /\ UNCHANGED <<pageServer, pageList, pageDialog, pagePoll, pageClicked, pageSteps,
                 pageFaults>>

-----------------------------------------------------------------------------
(* The dialog.                                                             *)

\* handleRowClick: the dialog opens on the execution it had before.
ClickRow(e) ==
  /\ pageSteps < MaxUserSteps /\ pageSteps' = pageSteps + 1
  /\ ~pageDialog.open /\ pageList[e] # "none"
  /\ pageDialog' = [pageDialog EXCEPT !.open = TRUE]
  /\ pageClicked' = e
  /\ pageRequests' = pageRequests \cup {Ask("open", e)}
  /\ pageCrossed' = [pageCrossed EXCEPT !.dialog =
       \/ @ \/ Of({"open", "poll"}) # {}
       \/ \E r \in Of({"list"}) : r.seen # Unseen]
  /\ UNCHANGED <<pageServer, pageList, pagePoll, pageFaults>>

\* Mutant: a running execution's interval is set only where there is none.
ApplyOpenUnpolled(r) ==
  /\ r.kind = "open" /\ ~Waiting(r)
  /\ pageDialog' = [pageDialog EXCEPT !.exec = r.exec, !.status = r.answer]
  /\ pagePoll' = IF r.answer = "RUNNING" /\ pageDialog.exec = Nothing THEN r.exec ELSE pagePoll
  /\ pageRequests' = pageRequests \ {r}
  /\ pageCrossed' = [pageCrossed EXCEPT !.dialog = @ \/ ~pageDialog.open]
  /\ UNCHANGED <<pageServer, pageList, pageClicked, pageSteps, pageFaults>>

\* The execution has come; if it runs, its interval replaces the one there was.
ApplyOpen(r) ==
  /\ r.kind = "open" /\ ~Waiting(r)
  /\ pageDialog' = [pageDialog EXCEPT !.exec = r.exec, !.status = r.answer]
  /\ pagePoll' = IF r.answer = "RUNNING" THEN r.exec ELSE pagePoll
  /\ pageRequests' = pageRequests \ {r}
  /\ pageCrossed' = [pageCrossed EXCEPT !.dialog = @ \/ ~pageDialog.open]
  /\ UNCHANGED <<pageServer, pageList, pageClicked, pageSteps, pageFaults>>

\* The interval of 3 s.
PollTick ==
  /\ pagePoll # Nothing /\ Cardinality(Of({"poll"})) < MaxPolls
  /\ pageRequests' = pageRequests \cup {Ask("poll", pagePoll)}
  /\ pageCrossed' = [pageCrossed EXCEPT !.dialog = @ \/ Of({"poll"}) # {}]
  /\ UNCHANGED <<pageServer, pageList, pageDialog, pagePoll, pageClicked, pageSteps,
                 pageFaults>>

\* The dialog shows the polled execution; if it runs no more, the interval in the ref ends,
\* whoever's it is.
ApplyPoll(r) ==
  /\ r.kind = "poll" /\ ~Waiting(r)
  /\ pageDialog' = [pageDialog EXCEPT !.exec = r.exec, !.status = r.answer]
  /\ pagePoll' = IF r.answer = "RUNNING" THEN pagePoll ELSE Nothing
  /\ pageRequests' = pageRequests \ {r}
  /\ UNCHANGED <<pageServer, pageList, pageClicked, pageCrossed, pageSteps, pageFaults>>

\* The dialog is closed, and the effect ends the interval.
CloseDialog ==
  /\ pageDialog.open
  /\ pageDialog' = [pageDialog EXCEPT !.open = FALSE]
  /\ pagePoll' = Nothing
  /\ pageCrossed' = [pageCrossed EXCEPT !.dialog = FALSE]
  /\ UNCHANGED <<pageServer, pageList, pageRequests, pageClicked, pageSteps, pageFaults>>

-----------------------------------------------------------------------------
PageNext ==
  \/ \E e \in PageExecs : Work(e) \/ RunTest(e) \/ DeleteRow(e) \/ ClickRow(e)
  \/ ListTick \/ PollTick \/ CloseDialog
  \/ \E r \in pageRequests :
       \/ Answer(r) \/ Fails(r) \/ ApplyList(r) \/ GoOn(r) \/ ApplyOpen(r) \/ ApplyPoll(r)

PageSpec == PageInit /\ [][PageNext]_pageVars

\* The server works and answers, and the browser's timers and callbacks run; nobody need do
\* anything more, nor need the dialog get an answer.
PageFair ==
  /\ \A e \in PageExecs : WF_pageVars(Work(e))
  /\ WF_pageVars(ListTick)
  /\ WF_pageVars(\E r \in Of({"list"}) : Answer(r))
  /\ WF_pageVars(\E r \in Of({"list"}) : ApplyList(r))

-----------------------------------------------------------------------------
(* Properties.                                                             *)

\* The page shows executions and statuses of executions; an interval exists for one of them.
PageTypeOK ==
  /\ pageServer \in [PageExecs -> Shown \cup {"none", "created", "deleted"}]
  /\ pageList \in [PageExecs -> Shown \cup {"none"}]
  /\ pageDialog.open \in BOOLEAN
  /\ [exec |-> pageDialog.exec, status |-> pageDialog.status] \in Seen
  /\ pagePoll \in PageExecs \cup {Nothing}
  /\ \A r \in pageRequests : r \in Request
  /\ pageClicked \in PageExecs \cup {Nothing}
  /\ pageCrossed \in [list : BOOLEAN, dialog : BOOLEAN] 
  /\ pageSteps \in 0..MaxUserSteps /\ pageFaults \in 0..MaxPageFaults

\* Nothing is on its way to the dialog.
DialogQuiet ==
  /\ pageDialog.open /\ ~pageCrossed.dialog /\ ~pageCrossed.list
  /\ Of({"open", "poll"}) = {}

\* The dialog shows the execution that was clicked, unless an answer asked for before (by
\* the dialog of another row, by an interval, by the list) was still on its way at the
\* click, the list was asked for between the click and its answer, two polls or two lists
\* were on their way at once, handleRunTest or handleDelete asked for the list while the
\* dialog was open, or the request failed (handleRowClick takes every answer).
DialogShowsClicked == DialogQuiet => pageDialog.exec = pageClicked

\* A dialog that shows a running execution (one that is not deleted) gets to know how it
\* ends: it has an interval of its own, or the list shows the execution running and is
\* polled, or is about to (the interval ends with the first answer that is not RUNNING, and
\* only then).
DialogFollowed ==
  DialogQuiet /\ pageDialog.status = "RUNNING" =>
    \/ pagePoll = pageDialog.exec
    \/ pageList[pageDialog.exec] = "RUNNING"
    \/ Of({"list"}) # {} \/ pageServer[pageDialog.exec] = "deleted"

\* An execution the list shows RUNNING does not stay so there: the interval of the list goes
\* on until it has ended or is gone, unless two lists were asked for at once and the older
\* one came last.
RunningIsFollowed ==
  \A e \in PageExecs :
    pageList[e] = "RUNNING" ~> (pageList[e] # "RUNNING" \/ pageCrossed.list)
=============================================================================

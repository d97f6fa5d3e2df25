------------------------------ MODULE Dashboard ------------------------------
(***************************************************************************)
(* The dashboard of `bbctl ui`: the sessions of the server and the refresh *)
(* loop of the page, which asks for the selected view every 15 seconds and *)
(* at once when the user selects another.  Refreshes overlap: answers come *)
(* in any order, and each of them arms the next timer.                     *)
(*                                                                         *)
(* What a view shows is abstracted to the selection it was asked for.      *)
(***************************************************************************)
EXTENDS Naturals, SequencesExt

CONSTANTS
  Views,     \* the tabs
  Queries,   \* what a view is asked for: pools, range
  Ids,       \* session ids
  NoId,      \* no session cookie
  Nothing,   \* what a view shows before its first answer
  MaxLoops   \* bound: refreshes and timers at a time

Selections == [view : Views, query : Queries]

ASSUME DashboardConstants ==
  /\ NoId \notin Ids /\ Nothing \notin Queries
  /\ MaxLoops \in Nat \ {0}

VARIABLES
  sessions,  \* Server.sessions
  cookie,    \* the browser's cookie
  page,      \* which section is visible
  form,      \* the login: sent, refused, or granted a session
  out,       \* the logout: sent with a cookie, or served
  sel,       \* location.hash and state.range
  shown,     \* what each view's section holds
  loops,     \* refreshes in flight and timers pending, oldest first
  armed      \* state.timer is the last timer in loops

vars == <<sessions, cookie, page, form, out, sel, shown, loops, armed>>
login == <<sessions, cookie, form, out>>

Timer == [kind |-> "timer"]

\* A refresh asks for the data and then for the charts; "pick" is the fetch of
\* the charts alone when rows are picked, which is not part of the loop.
Requests ==
  [kind : {"data", "charts", "pick"}, want : Selections,
   cookie : Ids \cup {NoId}, answer : {"none", "ok", "denied", "error"}]

IsTimer(l) == l.kind = "timer"
FirstTimer(ls) == SelectInSeq(ls, IsTimer)
LastTimer(ls) == SelectLastInSeq(ls, IsTimer)

TypeOK ==
  /\ sessions \subseteq Ids /\ cookie \in Ids \cup {NoId}
  /\ page \in {"start", "login", "main"}
  /\ form \in {"idle", "sent", "refused"} \cup Ids
  /\ out \in {"idle", "served", NoId} \cup Ids
  /\ sel \in Selections
  /\ shown \in [Views -> Queries \cup {Nothing}]
  /\ loops \in Seq(Requests \cup {Timer})
  /\ armed \in BOOLEAN /\ (armed => LastTimer(loops) # 0)

Init ==
  /\ sessions = {} /\ cookie = NoId
  /\ page = "start" /\ form = "idle" /\ out = "idle"
  /\ sel \in Selections
  /\ shown = [v \in Views |-> Nothing]
  /\ loops = <<>> /\ armed = FALSE

-----------------------------------------------------------------------------
(* The refresh loop *)

Request(kind, s, c) == [kind |-> kind, want |-> s, cookie |-> c, answer |-> "none"]

\* stopRefresh clears the timer in state.timer, which is the last one that was
\* armed.  Timers armed before it by overlapping refreshes stay.
StopNothing(ls) == ls  \* mutant: without clearTimeout
Stop(ls) == IF armed /\ LastTimer(ls) # 0 THEN RemoveAt(ls, LastTimer(ls)) ELSE ls

\* refresh: clear the timer and send the request.
RefreshKeepsHandle(ls, s, c) ==  \* mutant: state.timer is not reset
  /\ loops' = Append(Stop(ls), Request("data", s, c))
  /\ UNCHANGED armed
Refresh(ls, s, c) ==
  /\ loops' = Append(Stop(ls), Request("data", s, c))
  /\ armed' = FALSE

\* ... and at its end: setTimeout(refresh, REFRESH_MS).  Equal delays: timers
\* fire in the order in which they were armed.
Rearm(i) ==
  /\ loops' = Append(RemoveAt(loops, i), Timer)
  /\ armed' = TRUE

Drop(i) == loops' = RemoveAt(loops, i) /\ UNCHANGED armed

\* A timer fires: it is the selection of now that is asked for.
FireStale ==  \* mutant: the timer repeats the query of what is shown
  LET i == FirstTimer(loops)
      q == shown[sel.view]
  IN /\ i # 0
     /\ Refresh(RemoveAt(loops, i), IF q = Nothing THEN sel ELSE [sel EXCEPT !.query = q], cookie)
     /\ UNCHANGED <<login, page, sel, shown>>
Fire ==
  LET i == FirstTimer(loops)
  IN /\ i # 0
     /\ Refresh(RemoveAt(loops, i), sel, cookie)
     /\ UNCHANGED <<login, page, sel, shown>>

ShowLogin(ls) == page' = "login" /\ loops' = Stop(ls) /\ armed' = FALSE
ShowMain(c) == page' = "main" /\ Refresh(loops, sel, c)

\* The section of the view that was asked for, visible or not, is drawn.
Render(s) == shown' = [shown EXCEPT ![s.view] = s.query]

\* The server has a session for the cookie and answers with data, or it denies;
\* the connection may fail, or the request is not one the server understands.
Authed(c) == c \in sessions
Answer(i, answer) ==
  /\ ~IsTimer(loops[i]) /\ loops[i].answer = "none"
  /\ answer = "ok" => Authed(loops[i].cookie)
  /\ answer = "denied" => ~Authed(loops[i].cookie)
  /\ loops' = [loops EXCEPT ![i] = [@ EXCEPT !.answer = answer, !.cookie = NoId]]
  /\ UNCHANGED <<login, page, sel, shown, armed>>

\* "denied" shows the login and ends this loop.
ArriveDeniedAndGoOn(i) ==  \* mutant: showLogin() without return
  /\ page' = "login"
  /\ IF loops[i].kind = "pick" THEN Drop(i) ELSE Rearm(i)
  /\ UNCHANGED <<login, sel, shown>>
ArriveDenied(i) ==
  /\ ShowLogin(RemoveAt(loops, i))
  /\ UNCHANGED <<login, sel, shown>>

\* The answer is drawn, then charts are fetched for the selection of now, if
\* the view has any to show.
ArriveData(i) ==
  /\ Render(loops[i].want)
  /\ \/ Rearm(i)
     \/ loops' = [loops EXCEPT ![i] = Request("charts", sel, cookie)] /\ UNCHANGED armed
  /\ UNCHANGED <<login, page, sel>>

\* An error shows as a warning; the loop goes on.
ArriveErrorAndStop(i) ==  \* mutant: return from the catch
  /\ IF loops[i].kind = "charts" THEN Rearm(i) ELSE Drop(i)
  /\ UNCHANGED <<login, page, sel, shown>>
ArriveOther(i) ==
  /\ IF loops[i].kind = "pick" THEN Drop(i) ELSE Rearm(i)
  /\ UNCHANGED <<login, page, sel, shown>>

Arrive(i) ==
  LET r == loops[i]
  IN /\ ~IsTimer(r) /\ r.answer # "none"
     /\ \/ r.answer = "denied" /\ ArriveDenied(i)
        \/ r.answer = "ok" /\ r.kind = "data" /\ ArriveData(i)
        \/ (r.answer = "error" \/ (r.answer = "ok" /\ r.kind # "data")) /\ ArriveOther(i)

-----------------------------------------------------------------------------
(* The user *)

Room == Len(loops) < MaxLoops

\* Another tab, other pools or another range.  With the login shown the hash
\* changes and that is all.
Select(s) ==
  /\ s # sel /\ sel' = s
  /\ IF page = "main" THEN Room /\ Refresh(loops, s, cookie) ELSE UNCHANGED <<loops, armed>>
  /\ UNCHANGED <<login, page, shown>>

\* Rows are picked: their charts are fetched at once.
Pick ==
  /\ page = "main" /\ Room
  /\ loops' = Append(loops, Request("pick", sel, cookie))
  /\ UNCHANGED <<login, page, sel, shown, armed>>

LoginSend ==
  /\ page = "login" /\ form = "idle" /\ Room
  /\ form' = "sent"
  /\ UNCHANGED <<sessions, cookie, out, page, sel, shown, loops, armed>>

\* The gateway accepts the password, and the server starts a session under an
\* id that was never used; or it does not.
Fresh == Ids \ (sessions \cup {cookie} \cup {loops[i].cookie : i \in {j \in DOMAIN loops : ~IsTimer(loops[j])}})
LoginServe ==
  /\ form = "sent"
  /\ \/ \E id \in Fresh : form' = id /\ sessions' = sessions \cup {id}
     \/ form' = "refused" /\ UNCHANGED sessions
  /\ UNCHANGED <<cookie, out, page, sel, shown, loops, armed>>

LoginEnd ==
  /\ form' = "idle"
  /\ \/ form \in Ids /\ cookie' = form /\ ShowMain(form)
     \/ form # "idle" /\ UNCHANGED <<cookie, page, loops, armed>>  \* refused or lost
  /\ UNCHANGED <<sessions, out, sel, shown>>

LogoutSend ==
  /\ page = "main" /\ out = "idle"
  /\ out' = cookie
  /\ UNCHANGED <<sessions, cookie, form, page, sel, shown, loops, armed>>

LogoutServe ==
  /\ out \notin {"idle", "served"} /\ out' = "served"
  /\ sessions' = sessions \ {out}
  /\ UNCHANGED <<cookie, form, page, sel, shown, loops, armed>>

\* Even if the logout failed, the login is shown.
LogoutEnd ==
  /\ out # "idle" /\ out' = "idle"
  /\ \/ out = "served" /\ cookie' = NoId
     \/ UNCHANGED cookie
  /\ ShowLogin(loops)
  /\ UNCHANGED <<sessions, form, sel, shown>>

\* The page starts, with the main view if the session still is.
Load ==
  /\ page = "start"
  /\ \/ Authed(cookie) /\ ShowMain(cookie)
     \/ ShowLogin(loops)
  /\ UNCHANGED <<login, sel, shown>>

Reload ==
  /\ page # "start" /\ page' = "start"
  /\ form' = "idle" /\ out' = "idle"
  /\ shown' = [v \in Views |-> Nothing]
  /\ loops' = <<>> /\ armed' = FALSE
  /\ UNCHANGED <<sessions, cookie, sel>>

\* `bbctl ui` is stopped and started: sessions are kept in memory only.
Restart ==
  /\ sessions' = {}
  /\ UNCHANGED <<cookie, page, form, out, sel, shown, loops, armed>>

AnswerOrArrive(i) ==
  (\E answer \in {"ok", "denied", "error"} : Answer(i, answer)) \/ Arrive(i)

Next ==
  \/ \E s \in Selections : Select(s)
  \/ Pick \/ LoginSend \/ LoginServe \/ LoginEnd
  \/ LogoutSend \/ LogoutServe \/ LogoutEnd
  \/ Load \/ Reload \/ Restart \/ Fire
  \/ \E i \in DOMAIN loops : AnswerOrArrive(i)

Spec == Init /\ [][Next]_vars

\* Requests have timeouts and timers fire: the oldest of them comes to its end.
Oldest ==
  /\ loops # <<>>
  /\ IF IsTimer(loops[1]) THEN Fire ELSE AnswerOrArrive(1)

LoopSpec == Spec /\ WF_vars(Oldest)

-----------------------------------------------------------------------------
(* Properties *)

InLoop(l) == l.kind # "pick"

\* As long as the main view is shown, a refresh is on its way or a timer is
\* pending: the page never stops refreshing without saying so.
KeepsRefreshing == page = "main" => \E i \in DOMAIN loops : InLoop(loops[i])

\* The user and the server leave the page as it is.
Undisturbed == sel' = sel /\ (page' # page => page' = "login")

\* Every refresh ends before a timer that is armed after its start fires: calls
\* take less than REFRESH_MS.
Prompt == Fire => IsTimer(loops[1])

NoErrors == \A i \in DOMAIN loops : ~Answer(i, "error")

\* However many refreshes a hasty user has set going, they merge: there is one
\* loop in the end, though stopRefresh knows of one timer only.
LoopsMerge ==
  <>[][Undisturbed /\ Prompt]_vars
    => <>[](Len(SelectSeq(loops, InLoop)) <= 1)

\* Answers may overtake each other, and an old one may be drawn over a newer
\* one; in the end the view shows what is selected.
SelectionSettles ==
  <>[][Undisturbed /\ NoErrors]_vars
    => <>[](page = "main" => shown[sel.view] = sel.query)

\* Behind the login, without a session, the page falls silent: no timer goes on
\* polling the server with a dead cookie.
LoginIsQuiet ==
  <>[](page = "login" /\ ~Authed(cookie)) /\ <>[][NoErrors]_vars
    => <>[](loops = <<>>)

=============================================================================

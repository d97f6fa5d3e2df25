--------------------------- MODULE DashboardProofs ---------------------------
(***************************************************************************)
(* Proofs about the page of the dashboard, for any number of views, of     *)
(* sessions and of refreshes that overlap.                                 *)
(***************************************************************************)
EXTENDS Dashboard, SequenceTheorems, WellFoundedInduction, TLAPS

\* A set of naturals that is not empty has a least element.
LEMMA HasLeast ==
  ASSUME NEW S \in SUBSET Nat, S # {}
  PROVE  \E m \in S : \A n \in S : m <= n
<1> DEFINE R == OpToRel(<, Nat)
<1>1. IsWellFoundedOn(R, Nat)
  BY NatLessThanWellFounded
<1>2. \A m, n \in Nat : <<m, n>> \in R <=> m < n
  BY DEF OpToRel
<1> HIDE DEF R
<1>3. \E m \in S : \A n \in S : <<n, m>> \notin R
  BY <1>1, WFMin
<1>4. PICK m \in S : \A n \in S : <<n, m>> \notin R
  BY <1>3
<1>5. \A n \in S : ~(n < m)
  BY <1>2, <1>4
<1>6. \A n \in S : m <= n
  BY <1>5
<1>. QED BY <1>6

\* One that is bounded has a greatest.
LEMMA HasGreatest ==
  ASSUME NEW k \in Nat, NEW S \in SUBSET (1 .. k), S # {}
  PROVE  \E m \in S : \A n \in S : m >= n
<1> DEFINE T == {k - n : n \in S}
<1>1. T \in SUBSET Nat /\ T # {}
  <2>1. \A n \in S : k - n \in Nat
    OBVIOUS
  <2>. QED BY <2>1
<1>2. PICK t \in T : \A u \in T : t <= u
  BY <1>1, HasLeast
<1>3. PICK m \in S : t = k - m
  BY <1>2
<1>4. \A n \in S : k - n \in T
  OBVIOUS
<1>5. \A n \in S : k - m <= k - n
  BY <1>2, <1>3, <1>4
<1>. QED BY <1>3, <1>5

-----------------------------------------------------------------------------
(* Lists of refreshes and timers. *)

Entries == Requests \cup {Timer}

\* The last timer of a list, if it has one.
LEMMA LastTimerIs ==
  ASSUME NEW ls \in Seq(Entries)
  PROVE  IF \E i \in DOMAIN ls : IsTimer(ls[i])
         THEN LastTimer(ls) \in DOMAIN ls /\ IsTimer(ls[LastTimer(ls)])
         ELSE LastTimer(ls) = 0
<1> DEFINE I == {i \in 1 .. Len(ls) : IsTimer(ls[i])}
<1>1. Len(ls) \in Nat /\ DOMAIN ls = 1 .. Len(ls)
  OBVIOUS
<1>2. LastTimer(ls) = IF I # {} THEN Max(I) ELSE 0
  BY DEF LastTimer, SelectLastInSeq
<1>3. I # {} => \E m \in I : \A n \in I : m >= n
  BY <1>1, HasGreatest
<1>4. I # {} => Max(I) \in I
  BY <1>3 DEF Max
<1>. QED BY <1>1, <1>2, <1>4

\* The first timer of a list, if it has one.
LEMMA FirstTimerIs ==
  ASSUME NEW ls \in Seq(Entries), FirstTimer(ls) # 0
  PROVE  FirstTimer(ls) \in DOMAIN ls
<1> DEFINE I == {i \in 1 .. Len(ls) : IsTimer(ls[i])}
<1>1. I \in SUBSET Nat /\ DOMAIN ls = 1 .. Len(ls)
  OBVIOUS
<1>2. FirstTimer(ls) = IF I # {} THEN Min(I) ELSE 0
  BY DEF FirstTimer, SelectInSeq
<1>3. \E m \in I : \A n \in I : m <= n
  BY <1>1, <1>2, HasLeast
<1>4. Min(I) \in I
  BY <1>3 DEF Min
<1>. QED BY <1>1, <1>2, <1>4

\* A list without its i-th entry has all the others.
LEMMA Removed ==
  ASSUME NEW ls \in Seq(Entries), NEW i \in DOMAIN ls
  PROVE  /\ RemoveAt(ls, i) \in Seq(Entries)
         /\ \A j \in DOMAIN ls \ {i} : \E k \in DOMAIN RemoveAt(ls, i) : RemoveAt(ls, i)[k] = ls[j]
<1> DEFINE a == SubSeq(ls, 1, i - 1)
           b == SubSeq(ls, i + 1, Len(ls))
<1>1. Len(ls) \in Nat /\ DOMAIN ls = 1 .. Len(ls) /\ i \in 1 .. Len(ls)
  OBVIOUS
<1>2. a \in Seq(Entries) /\ Len(a) = i - 1 /\ \A k \in 1 .. i - 1 : a[k] = ls[k]
  BY <1>1
<1>3. b \in Seq(Entries) /\ Len(b) = Len(ls) - i /\ \A k \in 1 .. Len(ls) - i : b[k] = ls[i + k]
  BY <1>1
<1> HIDE DEF a, b
<1>4. a \o b \in Seq(Entries) /\ Len(a \o b) = Len(ls) - 1
      /\ \A k \in 1 .. Len(a) + Len(b) : (a \o b)[k] = IF k <= Len(a) THEN a[k] ELSE b[k - Len(a)]
  <2>1. a \o b \in Seq(Entries) /\ Len(a \o b) = Len(a) + Len(b)
        /\ \A k \in 1 .. Len(a) + Len(b) : (a \o b)[k] = IF k <= Len(a) THEN a[k] ELSE b[k - Len(a)]
    BY <1>2, <1>3, ConcatProperties
  <2>2. Len(a) + Len(b) = Len(ls) - 1
    BY <1>1, <1>2, <1>3
  <2>. QED BY <2>1, <2>2
<1>5. ASSUME NEW j \in DOMAIN ls \ {i} PROVE \E k \in DOMAIN (a \o b) : (a \o b)[k] = ls[j]
  <2>0. DOMAIN (a \o b) = 1 .. Len(ls) - 1
    BY <1>4
  <2>1. CASE j < i
    <3>1. j \in 1 .. i - 1 /\ j \in 1 .. Len(ls) - 1 /\ j \in 1 .. Len(a) + Len(b) /\ j <= Len(a)
      BY <1>1, <1>2, <1>3, <2>1
    <3>2. (a \o b)[j] = a[j] /\ a[j] = ls[j]
      BY <1>2, <1>4, <3>1
    <3>. QED BY <2>0, <3>1, <3>2
  <2>2. CASE j > i
    <3>0. i \in Int /\ j \in Int /\ 1 <= i /\ i < j /\ j <= Len(ls) /\ Len(ls) \in Nat
      BY <1>1, <2>2
    <3>1. j - 1 \in 1 .. Len(ls) - 1 /\ j - 1 \in 1 .. Len(a) + Len(b) /\ ~(j - 1 <= Len(a))
          /\ (j - 1) - Len(a) = j - i /\ j - i \in 1 .. Len(ls) - i /\ i + (j - i) = j
      BY <1>2, <1>3, <3>0
    <3>2. (a \o b)[j - 1] = b[j - i] /\ b[j - i] = ls[j]
      BY <1>3, <1>4, <3>1
    <3>. QED BY <2>0, <3>1, <3>2
  <2>. QED BY <1>1, <2>1, <2>2
<1>. QED BY <1>4, <1>5 DEF RemoveAt, a, b

\* A list with one more entry has it and all the others.
LEMMA Appended ==
  ASSUME NEW ls \in Seq(Entries), NEW e \in Entries
  PROVE  /\ Append(ls, e) \in Seq(Entries)
         /\ \A j \in DOMAIN ls : j \in DOMAIN Append(ls, e) /\ Append(ls, e)[j] = ls[j]
         /\ \E k \in DOMAIN Append(ls, e) : Append(ls, e)[k] = e
<1>1. /\ Append(ls, e) \in Seq(Entries) /\ Len(Append(ls, e)) = Len(ls) + 1 /\ Len(ls) \in Nat
      /\ \A k \in 1 .. Len(ls) : Append(ls, e)[k] = ls[k]
      /\ Append(ls, e)[Len(ls) + 1] = e
  OBVIOUS
<1>2. DOMAIN Append(ls, e) = 1 .. Len(ls) + 1 /\ DOMAIN ls = 1 .. Len(ls)
  BY <1>1
<1>3. Len(ls) + 1 \in DOMAIN Append(ls, e)
  BY <1>1, <1>2
<1>. QED BY <1>1, <1>2, <1>3

\* stopRefresh leaves a list of refreshes and timers.
LEMMA Stopped == ASSUME NEW ls \in Seq(Entries) PROVE Stop(ls) \in Seq(Entries)
BY LastTimerIs, Removed DEF Stop

-----------------------------------------------------------------------------
(* The inductive invariant. *)

Timed(ls) == \E i \in DOMAIN ls : IsTimer(ls[i])
Refreshing(ls) == \E i \in DOMAIN ls : InLoop(ls[i])

\* The session, the forms, what is selected and what is shown.
PageInv ==
  /\ sessions \subseteq Ids /\ cookie \in Ids \cup {NoId}
  /\ page \in {"start", "login", "main"}
  /\ form \in {"idle", "sent", "refused"} \cup Ids
  /\ out \in {"idle", "served", NoId} \cup Ids
  /\ sel \in Selections
  /\ shown \in [Views -> Queries \cup {Nothing}]

\* The loop: state.timer is a timer that has not fired, and behind the main
\* view something goes on.
LoopInv ==
  /\ loops \in Seq(Entries) /\ armed \in BOOLEAN
  /\ armed => Timed(loops)
  /\ page = "main" => Refreshing(loops)

IInv == PageInv /\ LoopInv

\* It is what the runs check.
LEMMA IInvMeans == IInv => TypeOK /\ KeepsRefreshing
<1>. SUFFICES ASSUME IInv PROVE TypeOK /\ KeepsRefreshing
  OBVIOUS
<1>0. KeepsRefreshing
  BY Zenon DEF IInv, LoopInv, KeepsRefreshing, Refreshing
<1>2. loops \in Seq(Entries) /\ armed \in BOOLEAN /\ (armed => Timed(loops))
  BY Zenon DEF IInv, LoopInv
<1>3. armed => LastTimer(loops) # 0
  <2>1. Timed(loops) => LastTimer(loops) \in 1 .. Len(loops)
    BY <1>2, LastTimerIs DEF Timed
  <2>. QED BY <1>2, <2>1
<1>4. TypeOK
  BY Zenon, <1>2, <1>3 DEF IInv, PageInv, TypeOK, Entries
<1>. QED BY <1>0, <1>4

\* A refresh starts: whatever it stops, the request is on its way.
LEMMA RefreshStep ==
  ASSUME NEW ls \in Seq(Entries), NEW s \in Selections, NEW c \in Ids \cup {NoId}, Refresh(ls, s, c)
  PROVE  loops' \in Seq(Entries) /\ armed' = FALSE /\ Refreshing(loops')
<1> DEFINE r == Request("data", s, c)
<1>1. r \in Entries /\ InLoop(r)
  BY DEF Request, Requests, Entries, InLoop
<1>2. loops' = Append(Stop(ls), r) /\ armed' = FALSE
  BY DEF Refresh
<1> HIDE DEF r
<1>. QED BY <1>1, <1>2, Stopped, Appended DEF Refreshing

\* It ends: the next timer is armed.
LEMMA RearmStep ==
  ASSUME LoopInv, NEW i \in DOMAIN loops, Rearm(i)
  PROVE  loops' \in Seq(Entries) /\ armed' = TRUE /\ Timed(loops') /\ Refreshing(loops')
<1>1. Timer \in Entries /\ IsTimer(Timer) /\ InLoop(Timer)
  BY DEF Timer, Entries, IsTimer, InLoop
<1>2. RemoveAt(loops, i) \in Seq(Entries)
  BY Removed DEF LoopInv
<1>3. loops' = Append(RemoveAt(loops, i), Timer) /\ armed' = TRUE
  BY DEF Rearm
<1>. QED BY <1>1, <1>2, <1>3, Appended DEF Timed, Refreshing

\* The charts of picked rows come and go beside the loop.
LEMMA DropStep ==
  ASSUME LoopInv, page' = page, NEW i \in DOMAIN loops, loops[i].kind = "pick", Drop(i)
  PROVE  LoopInv'
<1>1. loops' = RemoveAt(loops, i) /\ armed' = armed /\ loops' \in Seq(Entries)
  BY Removed DEF Drop, LoopInv
<1>2. ~IsTimer(loops[i]) /\ ~InLoop(loops[i])
  BY DEF IsTimer, InLoop
<1>3. (Timed(loops) => Timed(loops')) /\ (Refreshing(loops) => Refreshing(loops'))
  BY <1>1, <1>2, Removed DEF LoopInv, Timed, Refreshing
<1>. QED BY <1>1, <1>3 DEF LoopInv, Timed, Refreshing

\* An entry that is no timer is replaced by one that is in the loop if it was.
LEMMA ReplaceStep ==
  ASSUME LoopInv, page' = page, armed' = armed, NEW i \in DOMAIN loops, NEW e \in Entries,
         ~IsTimer(loops[i]), InLoop(loops[i]) => InLoop(e), loops' = [loops EXCEPT ![i] = e]
  PROVE  LoopInv'
<1>1. loops' \in Seq(Entries) /\ DOMAIN loops' = DOMAIN loops /\ loops'[i] = e
      /\ \A j \in DOMAIN loops \ {i} : loops'[j] = loops[j]
  BY DEF LoopInv
<1>2. (Timed(loops) => Timed(loops')) /\ (Refreshing(loops) => Refreshing(loops'))
  BY <1>1 DEF Timed, Refreshing
<1>. QED BY <1>1, <1>2 DEF LoopInv, Timed, Refreshing

\* A request is one more entry.
LEMMA PickStep == ASSUME IInv, Pick PROVE IInv'
<1> DEFINE r == Request("pick", sel, cookie)
<1>1. r \in Entries
  BY DEF IInv, PageInv, Request, Requests, Entries
<1>2. loops' = Append(loops, r) /\ UNCHANGED <<login, page, sel, shown, armed>> /\ loops \in Seq(Entries)
  BY DEF Pick, IInv, LoopInv
<1> HIDE DEF r
<1>3. loops' \in Seq(Entries) /\ (Timed(loops) => Timed(loops')) /\ (Refreshing(loops) => Refreshing(loops'))
  BY <1>1, <1>2, Appended DEF Timed, Refreshing
<1>. QED BY <1>2, <1>3 DEF IInv, PageInv, LoopInv, Timed, Refreshing, login

\* The login is shown: the timer is stopped.
LEMMA ShowLoginStep ==
  ASSUME NEW ls \in Seq(Entries), ShowLogin(ls)
  PROVE  LoopInv' /\ page' = "login"
BY Stopped DEF ShowLogin, LoopInv

\* The server answers, or the answer arrives.
LEMMA AnswerStep ==
  ASSUME IInv, NEW i \in DOMAIN loops, NEW answer \in {"ok", "denied", "error"}, Answer(i, answer)
  PROVE  IInv'
<1> DEFINE e == [loops[i] EXCEPT !.answer = answer, !.cookie = NoId]
<1>1. ~IsTimer(loops[i]) /\ loops' = [loops EXCEPT ![i] = e] /\ UNCHANGED <<login, page, sel, shown, armed>>
  BY DEF Answer
<1>2. loops[i] \in Requests
  BY <1>1 DEF IInv, LoopInv, Entries, Timer, IsTimer
<1>3. e \in Entries /\ e.kind = loops[i].kind
  BY <1>2 DEF Entries, Requests
<1> HIDE DEF e
<1>4. LoopInv'
  BY <1>1, <1>3, ReplaceStep DEF IInv, InLoop
<1>. QED BY <1>1, <1>4 DEF IInv, PageInv, login

LEMMA ArriveStep == ASSUME IInv, NEW i \in DOMAIN loops, Arrive(i) PROVE IInv'
<1> USE DEF IInv
<1>1. ~IsTimer(loops[i]) /\ loops[i] \in Requests /\ loops \in Seq(Entries)
  BY DEF Arrive, LoopInv, Entries, Timer, IsTimer
<1>2. CASE ArriveDenied(i)
  <2>1. LoopInv' /\ page' = "login"
    BY <1>1, <1>2, Removed, ShowLoginStep DEF ArriveDenied
  <2>. QED BY <1>2, <2>1 DEF ArriveDenied, PageInv, login
<1>3. CASE ArriveData(i) /\ loops[i].kind = "data"
  <2>1. PageInv'
    BY <1>1, <1>3 DEF ArriveData, Render, PageInv, Requests, Selections, login
  <2>2. CASE Rearm(i)
    BY <2>1, <2>2, RearmStep DEF LoopInv, Timed, Refreshing
  <2>3. CASE loops' = [loops EXCEPT ![i] = Request("charts", sel, cookie)] /\ UNCHANGED armed
    <3>1. Request("charts", sel, cookie) \in Entries /\ InLoop(Request("charts", sel, cookie))
      BY DEF PageInv, Request, Requests, Entries, InLoop
    <3>2. page' = page
      BY <1>3 DEF ArriveData
    <3>3. LoopInv'
      BY <1>1, <2>3, <3>1, <3>2, ReplaceStep
    <3>. QED BY <2>1, <3>3
  <2>. QED BY <1>3, <2>2, <2>3 DEF ArriveData
<1>4. CASE ArriveOther(i)
  <2>1. PageInv' /\ page' = page
    BY <1>4 DEF ArriveOther, PageInv, login
  <2>2. CASE loops[i].kind = "pick" /\ Drop(i)
    BY <2>1, <2>2, DropStep
  <2>3. CASE Rearm(i)
    BY <2>1, <2>3, RearmStep DEF LoopInv, Timed, Refreshing
  <2>. QED BY <1>4, <2>2, <2>3 DEF ArriveOther
<1>. QED BY <1>2, <1>3, <1>4 DEF Arrive

\* The steps that start a refresh, or show the login.
LEMMA ShowStep == ASSUME IInv, LoginEnd \/ LogoutEnd \/ Load \/ Fire PROVE IInv'
<1> USE DEF IInv
<1>0. loops \in Seq(Entries) /\ sel \in Selections /\ cookie \in Ids \cup {NoId}
  BY DEF LoopInv, PageInv
<1>1. ASSUME NEW ls \in Seq(Entries), NEW c \in Ids \cup {NoId}, Refresh(ls, sel, c) PROVE LoopInv'
  BY <1>0, <1>1, RefreshStep DEF LoopInv, Timed, Refreshing
<1>2. CASE Fire
  <2>1. RemoveAt(loops, FirstTimer(loops)) \in Seq(Entries)
    BY <1>0, <1>2, FirstTimerIs, Removed DEF Fire
  <2>. QED BY <1>0, <1>1, <1>2, <2>1 DEF Fire, PageInv, login
<1>3. CASE Load
  <2>1. CASE ShowMain(cookie)
    BY <1>0, <1>1, <1>3, <2>1 DEF Load, ShowMain, PageInv, login
  <2>2. CASE ShowLogin(loops)
    BY <1>0, <1>3, <2>2, ShowLoginStep DEF Load, PageInv, login
  <2>. QED BY <1>3, <2>1, <2>2 DEF Load
<1>4. CASE LogoutEnd
  BY <1>0, <1>4, ShowLoginStep DEF LogoutEnd, PageInv
<1>5. CASE LoginEnd
  <2>1. CASE form \in Ids /\ cookie' = form /\ ShowMain(form)
    BY <1>0, <1>1, <1>5, <2>1 DEF LoginEnd, ShowMain, PageInv
  <2>2. CASE UNCHANGED <<cookie, page, loops, armed>>
    BY <1>5, <2>2 DEF LoginEnd, PageInv, LoopInv, Timed, Refreshing
  <2>. QED BY <1>5, <2>1, <2>2 DEF LoginEnd
<1>. QED BY <1>2, <1>3, <1>4, <1>5

LEMMA SelectStep == ASSUME IInv, NEW s \in Selections, Select(s) PROVE IInv'
<1> USE DEF IInv
<1>1. PageInv' /\ page' = page
  BY DEF Select, PageInv, login
<1>2. CASE Refresh(loops, s, cookie)
  BY <1>1, <1>2, RefreshStep DEF LoopInv, PageInv, Timed, Refreshing
<1>3. CASE UNCHANGED <<loops, armed>>
  BY <1>1, <1>3 DEF LoopInv, Timed, Refreshing
<1>. QED BY <1>2, <1>3 DEF Select

LEMMA NextIInv == ASSUME IInv, [Next]_vars PROVE IInv'
<1>1. CASE LoginSend \/ LoginServe \/ LogoutSend \/ LogoutServe \/ Restart \/ UNCHANGED vars
  <2>1. UNCHANGED <<page, loops, armed>>
    BY <1>1 DEF LoginSend, LoginServe, LogoutSend, LogoutServe, Restart, vars
  <2>2. LoopInv'
    BY <2>1 DEF IInv, LoopInv, Timed, Refreshing
  <2>3. PageInv'
    BY <1>1 DEF IInv, PageInv, LoginSend, LoginServe, Fresh, LogoutSend, LogoutServe, Restart, vars
  <2>. QED BY <2>2, <2>3 DEF IInv
<1>2. CASE Reload
  <2>1. PageInv'
    BY <1>2 DEF Reload, IInv, PageInv
  <2>2. loops' = <<>> /\ armed' = FALSE /\ page' = "start"
    BY <1>2 DEF Reload
  <2>. QED BY <2>1, <2>2, EmptySeq DEF IInv, LoopInv
<1>3. CASE \E i \in DOMAIN loops : AnswerOrArrive(i)
  BY <1>3, AnswerStep, ArriveStep DEF AnswerOrArrive
<1>. QED BY <1>1, <1>2, <1>3, SelectStep, PickStep, ShowStep DEF Next

LEMMA SpecIInv == Spec => []IInv
<1>1. ASSUME Init PROVE IInv
  <2>1. PageInv
    BY <1>1 DEF Init, PageInv
  <2>2. LoopInv
    BY <1>1, EmptySeq DEF Init, LoopInv
  <2>. QED BY <2>1, <2>2 DEF IInv
<1>. QED BY <1>1, NextIInv, PTL DEF Spec

\* The page's state is always well-formed; the timer that state.timer names
\* has not fired.
THEOREM TypeCorrect == Spec => []TypeOK
BY SpecIInv, IInvMeans, PTL

\* The page never shows the main view without a refresh on its way or a timer
\* pending, however refreshes overlap and whatever the server answers.
THEOREM NeverStale == Spec => []KeepsRefreshing
BY SpecIInv, IInvMeans, PTL

=============================================================================

-------------------------- MODULE DashboardAccess --------------------------
(***************************************************************************)
(* How an operator's browser comes to the dashboard and leaves it: the     *)
(* sign-in form, the sign-out button, the proxy in front of every page,    *)
(* and the check each dashboard page repeats before it asks the            *)
(* operations API.  Tabs share one cookie jar.  A request carries the jar  *)
(* as it was when the request was sent; what the proxy refreshes reaches   *)
(* the jar with the page's answer, and never with the proxy's redirect.    *)
(*                                                                         *)
(* A token stands for the session cookies: the session it belongs to and   *)
(* how often it was refreshed.  Supabase Auth verifies an unexpired token  *)
(* without looking at the session, refreshes an expired one while its      *)
(* session is open, refuses it afterwards, and may fail to answer.         *)
(***************************************************************************)
EXTENDS Naturals, FiniteSets

CONSTANTS Tabs,         \* the tabs of one browser
          MaxSessions,  \* bound: sign-ins
          MaxRefreshes, \* bound: refreshes of a session
          MaxFaults,    \* bound: times Auth does not answer
          MaxHops       \* bound: redirects are counted up to here

AccessBounds == MaxSessions \in Nat /\ MaxRefreshes \in Nat /\ MaxFaults \in Nat /\ MaxHops \in Nat

VARIABLES jar,      \* the token in the cookies all tabs share
          sessions, \* sessions opened so far
          closed,   \* sessions signed out, here or on another device
          stale,    \* expired tokens
          faults,   \* times Auth did not answer
          tab       \* per tab: what it shows and the request it waits for

vars == <<jar, sessions, closed, stale, faults, tab>>

Token == [session : 0..MaxSessions, refreshes : 0..MaxRefreshes]
NoToken == [session |-> 0, refreshes |-> 0]
Tab == [at : {"outside", "login", "dashboard", "error"},
        phase : {"idle", "proxy", "page", "reading", "mounted"},
        path : {"root", "login", "dashboard"},
        sent : Token,            \* the cookies the request carries
        token : Token,           \* what the proxy made of them
        bearer : Token,          \* what the page asks the API with
        hops : Nat,              \* redirects of this navigation
        excuse : Nat]            \* faults and session changes it met

Init == /\ jar = NoToken
        /\ sessions = 0
        /\ closed = {}
        /\ stale = {}
        /\ faults = 0
        /\ tab = [t \in Tabs |->
             [at |-> "outside", phase |-> "idle", path |-> "root", sent |-> NoToken,
              token |-> NoToken, bearer |-> NoToken, hops |-> 0, excuse |-> 0]]

----------------------------------------------------------------------------
\* What Auth makes of a token: the claims are there or not, and the token after it.
Claims(tok) ==
  IF tok = NoToken THEN {[signed |-> FALSE, token |-> NoToken, lost |-> 0]}
  ELSE IF tok \notin stale THEN {[signed |-> TRUE, token |-> tok, lost |-> 0]}
  ELSE {IF tok.session \in closed
          THEN [signed |-> FALSE, token |-> NoToken, lost |-> 0]
          ELSE [signed |-> TRUE, token |-> [tok EXCEPT !.refreshes = @ + 1], lost |-> 0]}
       \cup (IF faults < MaxFaults
               THEN {[signed |-> FALSE, token |-> tok, lost |-> 1]} ELSE {})

\* A new request of tab r, with the cookies of jar j.
Requested(r, path, j) == [r EXCEPT !.phase = "proxy", !.path = path, !.sent = j]
Redirected(r, path, j, lost) ==
  [Requested(r, path, j) EXCEPT !.hops = IF @ < MaxHops THEN @ + 1 ELSE @, !.excuse = @ + lost]
Begun(r, path, j) == [Requested(r, path, j) EXCEPT !.hops = 0, !.excuse = 0]
Rested(r) == [r EXCEPT !.phase = "idle", !.path = "root", !.hops = 0,
                       !.sent = NoToken, !.token = NoToken, !.bearer = NoToken]
\* Every other tab's navigation met a change of the session.
Told(t, mine) == [u \in Tabs |-> IF u = t THEN mine ELSE [tab[u] EXCEPT
                                   !.excuse = IF tab[u].phase = "idle" THEN @ ELSE @ + 1]]
Disturbed == [u \in Tabs |-> [tab[u] EXCEPT
                !.excuse = IF tab[u].phase = "idle" THEN @ ELSE @ + 1]]

\* What the proxy takes for signed in: the claims, never the mere cookie.
SignedInByCookie(c, sent) == sent # NoToken
SignedIn(c, sent) == c.signed

----------------------------------------------------------------------------
\* The operator opens an address, follows a link or reloads.
Navigate(t) ==
  /\ tab[t].phase = "idle"
  /\ \E path \in {"root", "login", "dashboard"} :
       tab' = [tab EXCEPT ![t] = Begun(@, path, jar)]
  /\ UNCHANGED <<jar, sessions, closed, stale, faults>>

\* updateSession: a redirect leaves the refreshed cookies behind.
Proxy(t) ==
  LET r == tab[t] IN
  /\ r.phase = "proxy"
  /\ \E c \in Claims(r.sent) :
       /\ faults' = faults + c.lost
       /\ \/ /\ ~ c.signed /\ r.path = "dashboard"
             /\ tab' = [tab EXCEPT ![t] = Redirected(r, "login", jar, c.lost)]
          \/ /\ SignedIn(c, r.sent) /\ r.path \in {"root", "login"}
             /\ tab' = [tab EXCEPT ![t] = Redirected(r, "dashboard", jar, c.lost)]
          \/ /\ IF r.path = "dashboard" THEN c.signed ELSE ~ SignedIn(c, r.sent)
             /\ tab' = [tab EXCEPT ![t].phase = "page", ![t].token = c.token,
                                   ![t].excuse = @ + c.lost]
  /\ UNCHANGED <<jar, sessions, closed, stale>>

\* The answer of a page brings the cookies the proxy refreshed or cleared, even
\* when another tab has signed out or in since the request.
Kept(t) == IF tab[t].token = tab[t].sent THEN jar ELSE tab[t].token
Answered(t, mine) ==
  /\ jar' = Kept(t)
  /\ tab' = IF Kept(t) = jar THEN [tab EXCEPT ![t] = mine] ELSE Told(t, mine)

\* The home page leads to the sign-in page.
Home(t) ==
  /\ tab[t].phase = "page" /\ tab[t].path = "root"
  /\ Answered(t, Redirected(tab[t], "login", Kept(t), 0))
  /\ UNCHANGED <<sessions, closed, stale, faults>>

\* The sign-in page is there; its form has still to look at the session.
LoginPage(t) ==
  /\ tab[t].phase = "page" /\ tab[t].path = "login"
  /\ Answered(t, [tab[t] EXCEPT !.at = "login", !.phase = "mounted"])
  /\ UNCHANGED <<sessions, closed, stale, faults>>

\* requireDashboardSession, on the cookies the proxy handed over.
DashboardPage(t) ==
  LET r == tab[t] IN
  /\ r.phase = "page" /\ r.path = "dashboard"
  /\ \E c \in Claims(r.token) :
       /\ faults' = faults + c.lost
       /\ IF c.signed
            THEN /\ tab' = [tab EXCEPT ![t].phase = "reading", ![t].bearer = c.token]
                 /\ UNCHANGED jar
            ELSE Answered(t, Redirected(r, "login", Kept(t), c.lost))
  /\ UNCHANGED <<sessions, closed, stale>>

\* The API verifies the bearer token; a refusal shows the error page.
ApiAnswer(t) ==
  /\ tab[t].phase = "reading"
  /\ Answered(t, [Rested(tab[t]) EXCEPT
                    !.at = IF tab[t].bearer \in stale THEN "error" ELSE "dashboard"])
  /\ UNCHANGED <<sessions, closed, stale, faults>>

\* The form asks once, when it appears, whether there is a session already.
LoginMounted(t) ==
  /\ tab[t].phase = "mounted"
  /\ \E c \in Claims(jar) :
       /\ faults' = faults + c.lost
       /\ jar' = c.token
       /\ tab' = [tab EXCEPT ![t] =
            IF c.signed THEN Redirected(tab[t], "dashboard", c.token, 0)
            ELSE [Rested(tab[t]) EXCEPT !.excuse = @ + c.lost]]
  /\ UNCHANGED <<sessions, closed, stale>>

\* signInWithPassword, then the dashboard.
SignIn(t) ==
  /\ tab[t].phase = "idle" /\ tab[t].at = "login"
  /\ sessions < MaxSessions
  /\ sessions' = sessions + 1
  /\ jar' = [session |-> sessions + 1, refreshes |-> 0]
  /\ tab' = Told(t, Begun(tab[t], "dashboard", jar'))
  /\ UNCHANGED <<closed, stale, faults>>

\* signOut; its answer is not looked at, and the tab leaves either way.
SignOut(t) ==
  /\ tab[t].phase = "idle" /\ tab[t].at = "dashboard"
  /\ \/ /\ jar' = NoToken
        /\ closed' = closed \cup ({jar.session} \ {0})
        /\ tab' = Told(t, Begun(tab[t], "login", NoToken))
        /\ UNCHANGED faults
     \/ /\ jar # NoToken /\ faults < MaxFaults
        /\ faults' = faults + 1
        /\ tab' = [tab EXCEPT ![t] = Begun(@, "login", jar)]
        /\ UNCHANGED <<jar, closed>>
  /\ UNCHANGED <<sessions, stale>>

----------------------------------------------------------------------------
\* Time passes, another device signs out, the browser refreshes by itself.
Expire ==
  /\ \E s \in 1..sessions, n \in 0..(MaxRefreshes - 1) :
       LET tok == [session |-> s, refreshes |-> n] IN
       /\ tok \notin stale
       /\ tok = jar \/ \E t \in Tabs : tok \in {tab[t].sent, tab[t].token, tab[t].bearer}
       /\ stale' = stale \cup {tok}
  /\ tab' = Disturbed
  /\ UNCHANGED <<jar, sessions, closed, faults>>

CloseElsewhere ==
  /\ \E s \in (1..sessions) \ closed : closed' = closed \cup {s}
  /\ tab' = Disturbed
  /\ UNCHANGED <<jar, sessions, stale, faults>>

AutoRefresh ==
  /\ jar \in stale
  /\ \E c \in Claims(jar) : c.lost = 0 /\ jar' = c.token
  /\ tab' = Disturbed
  /\ UNCHANGED <<sessions, closed, stale, faults>>

Step(t) == \/ Proxy(t) \/ Home(t) \/ LoginPage(t) \/ DashboardPage(t)
           \/ ApiAnswer(t) \/ LoginMounted(t)

Next == \/ \E t \in Tabs : Step(t) \/ Navigate(t) \/ SignIn(t) \/ SignOut(t)
        \/ Expire \/ CloseElsewhere \/ AutoRefresh

Spec == Init /\ [][Next]_vars

----------------------------------------------------------------------------
TypeOK == /\ jar \in Token /\ sessions \in 0..MaxSessions /\ closed \subseteq 1..MaxSessions
          /\ stale \subseteq Token /\ faults \in 0..MaxFaults
          /\ tab \in [Tabs -> Tab]

\* The proxy sends away from the sign-in page whom it takes for signed in, and
\* the pages and the proxy send to it whom they do not.  They look at different
\* moments at cookies one of them may have refreshed, yet one navigation is
\* redirected a second time only after Auth failed to answer, a token expired
\* or the session changed under it, and each of these sends it there and back
\* once.
RedirectsHaveCause == \A t \in Tabs : tab[t].hops <= 1 + 2 * tab[t].excuse
=============================================================================

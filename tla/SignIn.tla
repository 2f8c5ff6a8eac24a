------------------------------- MODULE SignIn -------------------------------
(***************************************************************************)
(* Signing in with Google: the host listens on the loopback port for the   *)
(* browser's redirect, on IPv4 and IPv6 with a thread each                 *)
(* (src-tauri/src/main.rs), and tells the page of the code, twice; the     *)
(* page exchanges it for a session (src/lib/auth.tsx), beside the form     *)
(* with a password (pages/auth).                                           *)
(*                                                                         *)
(* A login is a click that reached the browser and is known by its code.   *)
(* Which address the browser connects to is any that is listened on.  A    *)
(* thread takes a connection and answers it in one step, since nothing of  *)
(* it is seen by others but the swap of the flag.                          *)
(***************************************************************************)
EXTENDS SignInTerms

VARIABLES
    bound,          \* bound[f]: the start whose listener has the port
    thread,         \* thread[a][f]: what it does, and the connections it has taken
    handled,        \* handled[a], shared by the two threads of a start
    backlog,        \* connections not accepted yet: [f, what, code]
    browser,        \* codes that the browser has yet to bring
    events,         \* events that the page has yet to see: [code, via]
    taken,          \* handled of auth.tsx: a code is being or has been exchanged
    exchanging,     \* the code of the request under way
    submitted,      \* a password is being checked
    session,
    starts, logins, strays, restarts,   \* counters behind the bounds
    claims,         \* history: claims[a], codes that a start has claimed
    refused,        \* history: refused[c], failed exchanges
    accepted,       \* history: codes that have brought a session
    brought,        \* history: codes that the browser has brought
    missed          \* history: codes that the known gaps have lost

signVars == <<bound, thread, handled, backlog, browser, events, taken, exchanging, submitted,
              session, starts, logins, strays, restarts, claims, refused, accepted,
              brought, missed>>
hostVars == <<bound, thread, handled, backlog, starts, claims>>
pageVars == <<events, taken, exchanging, submitted, session, refused, accepted>>

Idle == [at |-> "none", served |-> 0]

Init ==
    /\ bound = [f \in Families |-> Nobody]
    /\ thread = [a \in Starts |-> [f \in Families |-> Idle]]
    /\ handled = [a \in Starts |-> FALSE]
    /\ backlog = {} /\ browser = {} /\ events = {}
    /\ taken = FALSE /\ exchanging = Nobody /\ submitted = FALSE /\ session = FALSE
    /\ starts = 0 /\ logins = 0 /\ strays = 0 /\ restarts = 0
    /\ claims = [a \in Starts |-> 0]
    /\ refused = [c \in Codes |-> 0] /\ accepted = {}
    /\ brought = {} /\ missed = {}

-----------------------------------------------------------------------------
(* The click: start_oauth_server, the address of the login, the browser.   *)
(* A port that is taken makes the command fail, and the page goes on with  *)
(* the port it knows; without the address the browser is not opened.       *)
Listen(v6) ==
    LET fs == {f \in Families : f = "v4" \/ (v6 /\ bound[f] = Nobody)}
    IN  /\ bound["v4"] = Nobody
        /\ starts' = starts + 1
        /\ bound' = [f \in Families |-> IF f \in fs THEN starts' ELSE bound[f]]
        /\ thread' = [thread EXCEPT ![starts'] =
             [f \in Families |-> IF f \in fs THEN [at |-> "loop", served |-> 0] ELSE Idle]]
NoPort == bound["v4"] # Nobody /\ UNCHANGED <<starts, bound, thread>>

SignIn(reached) ==
    /\ ~session /\ exchanging = Nobody /\ logins < MaxLogins
    /\ logins' = logins + 1
    /\ Listen(TRUE) \/ Listen(FALSE) \/ NoPort
    /\ browser' = IF reached THEN browser \union {logins'} ELSE browser
    /\ UNCHANGED <<handled, backlog, claims, pageVars, strays, restarts, brought, missed>>

(* The browser.  Only a listener can be connected to; with none the code   *)
(* is lost.                                                                *)
Listened == {f \in Families : bound[f] # Nobody}
Redirect(c) ==
    /\ c \in browser /\ browser' = browser \ {c}
    /\ brought' = brought \union {c}
    /\ \/ \E f \in Listened :
            backlog' = backlog \union {[f |-> f, what |-> "code", code |-> c]} /\ UNCHANGED missed
       \/ Listened = {} /\ missed' = missed \union {c} /\ UNCHANGED backlog
    /\ UNCHANGED <<bound, thread, handled, pageVars, starts, logins, strays, restarts, claims>>

(* A favicon, a callback without a code, the relayed fragment with and     *)
(* without its tokens.                                                     *)
Stray(f, what) ==
    /\ strays < MaxStrays /\ strays' = strays + 1
    /\ f \in Listened
    /\ backlog' = backlog \union {[f |-> f, what |-> what, code |-> Nobody]}
    /\ UNCHANGED <<bound, thread, handled, browser, pageVars, starts, logins, restarts, claims,
                   brought, missed>>

-----------------------------------------------------------------------------
(* oauth_accept_loop.  A thread that ends closes its listener, and what    *)
(* was not accepted is refused.                                            *)
Ends(a, f) ==
    /\ thread' = [thread EXCEPT ![a][f].at = "done"]
    /\ bound' = [bound EXCEPT ![f] = Nobody]
Waiting(f) == {r \in backlog : r.f = f}
CodesOf(rs) == {r.code : r \in rs} \ {Nobody}

Loop(a, f) ==
    /\ thread[a][f].at = "loop"
    /\ IF handled[a] \/ thread[a][f].served = MaxServed
       THEN /\ Ends(a, f)
            /\ backlog' = backlog \ Waiting(f)
            /\ missed' = missed \union CodesOf(Waiting(f))
       ELSE /\ thread' = [thread EXCEPT ![a][f].at = "accept"]
            /\ UNCHANGED <<bound, backlog, missed>>
    /\ UNCHANGED <<handled, browser, pageVars, starts, logins, strays, restarts, claims, brought>>

(* A code is told of by an event in the window and one of Tauri.  (Mutant: *)
(* the flag is not looked at again after the accept.)                      *)
MutClaims(a) == TRUE
Claims(a) == ~handled[a]
Tell(c) == events' = events \union {[code |-> c, via |-> v] : v \in {"dom", "tauri"}}

Accept(a, f) ==
    /\ thread[a][f].at = "accept"
    /\ \E r \in Waiting(f) :
         IF r.what \in {"code", "tokens", "no tokens"}
         THEN /\ Ends(a, f)
              /\ backlog' = backlog \ Waiting(f)
              /\ handled' = [handled EXCEPT ![a] = @ \/ r.what # "no tokens"]
              /\ IF r.what = "code" /\ Claims(a)
                 THEN /\ claims' = [claims EXCEPT ![a] = @ + 1]
                      /\ Tell(r.code)
                      /\ missed' = missed \union CodesOf(Waiting(f) \ {r})
                 ELSE missed' = missed \union CodesOf(Waiting(f)) /\ UNCHANGED <<claims, events>>
         ELSE /\ backlog' = backlog \ {r}
              /\ thread' = [thread EXCEPT ![a][f] = [at |-> "loop", served |-> @.served + 1]]
              /\ UNCHANGED <<bound, handled, claims, events, missed>>
    /\ UNCHANGED <<browser, taken, exchanging, submitted, session, starts, logins, strays,
                   restarts, refused, accepted, brought>>

-----------------------------------------------------------------------------
(* handleCode.  The second event of a code finds the flag set.  The flag   *)
(* stays set after a success: a code that comes later is not exchanged.    *)
Superseded(c) == exchanging \notin {Nobody, c} \/ accepted \ {c} # {}
Event(e) ==
    /\ e \in events /\ events' = events \ {e}
    /\ IF taken
       THEN /\ missed' = IF Superseded(e.code) THEN missed \union {e.code} ELSE missed
            /\ UNCHANGED <<taken, exchanging>>
       ELSE taken' = TRUE /\ exchanging' = e.code /\ UNCHANGED missed
    /\ UNCHANGED <<hostVars, browser, submitted, session, logins, strays, restarts,
                   refused, accepted, brought>>

(* (Mutant: the flag is cleared after a success, too.) *)
MutExchanged ==
    /\ exchanging # Nobody /\ exchanging' = Nobody
    /\ session' = TRUE /\ taken' = FALSE
    /\ accepted' = accepted \union {exchanging}
    /\ UNCHANGED <<hostVars, browser, events, submitted, logins, strays, restarts,
                   refused, brought, missed>>
Exchanged ==
    /\ exchanging # Nobody /\ exchanging' = Nobody
    /\ session' = TRUE
    /\ accepted' = accepted \union {exchanging}
    /\ UNCHANGED <<hostVars, browser, events, taken, submitted, logins, strays, restarts,
                   refused, brought, missed>>

(* (Mutant: the flag stays set.) *)
MutReleased == UNCHANGED taken
Released == taken' = FALSE
ExchangeFails ==
    /\ exchanging # Nobody /\ exchanging' = Nobody
    /\ Released
    /\ refused' = [refused EXCEPT ![exchanging] = @ + 1]
    /\ UNCHANGED <<hostVars, browser, events, submitted, session, logins, strays, restarts,
                   accepted, brought, missed>>

(* The form with a password, on the same page.                             *)
Submit ==
    /\ ~session /\ exchanging = Nobody /\ ~submitted /\ logins < MaxLogins
    /\ submitted' = TRUE /\ logins' = logins + 1
    /\ UNCHANGED <<hostVars, browser, events, taken, exchanging, session, strays, restarts,
                   refused, accepted, brought, missed>>
Submitted(right) ==
    /\ submitted /\ submitted' = FALSE
    /\ session' = (session \/ right)
    /\ UNCHANGED <<hostVars, browser, events, taken, exchanging, logins, strays, restarts,
                   refused, accepted, brought, missed>>

(* The panel with the button is not there while an exchange is under way. *)
SignOut ==
    /\ session /\ exchanging = Nobody /\ session' = FALSE
    /\ UNCHANGED <<hostVars, browser, events, taken, exchanging, submitted, logins, strays,
                   restarts, refused, accepted, brought, missed>>

(* The application ends and starts again; the session was saved.           *)
Restart ==
    /\ restarts < MaxRestarts /\ restarts' = restarts + 1
    /\ bound' = [f \in Families |-> Nobody]
    /\ thread' = [a \in Starts |-> [f \in Families |-> Idle]]
    /\ backlog' = {} /\ events' = {}
    /\ taken' = FALSE /\ exchanging' = Nobody /\ submitted' = FALSE
    /\ missed' = missed \union CodesOf(backlog) \union {e.code : e \in events} \union
                 (IF exchanging = Nobody THEN {} ELSE {exchanging})
    /\ UNCHANGED <<handled, browser, session, starts, logins, strays, claims, refused, accepted,
                   brought>>

Next ==
    \/ \E reached \in BOOLEAN : SignIn(reached)
    \/ \E c \in browser : Redirect(c)
    \/ \E f \in Families, what \in {"other", "tokens", "no tokens"} : Stray(f, what)
    \/ \E a \in Starts, f \in Families : Loop(a, f) \/ Accept(a, f)
    \/ \E e \in events : Event(e)
    \/ Exchanged \/ ExchangeFails \/ Submit \/ SignOut \/ Restart
    \/ \E right \in BOOLEAN : Submitted(right)

Spec == Init /\ [][Next]_signVars

-----------------------------------------------------------------------------
TypeOK ==
    /\ bound \in [Families -> Starts \union {Nobody}]
    /\ thread \in [Starts -> [Families ->
         [at : {"none", "loop", "accept", "done"}, served : 0 .. MaxServed]]]
    /\ handled \in [Starts -> BOOLEAN]
    /\ backlog \subseteq [f : Families, what : {"code", "other", "tokens", "no tokens"},
                          code : Codes \union {Nobody}]
    /\ browser \subseteq Codes /\ events \subseteq [code : Codes, via : {"dom", "tauri"}]
    /\ {taken, submitted, session} \subseteq BOOLEAN
    /\ exchanging \in Codes \union {Nobody}
    /\ {starts, logins} \subseteq 0 .. MaxLogins
    /\ refused \in [Codes -> Nat] /\ brought \union accepted \union missed \subseteq Codes

(* "ensuring the auth event fires exactly once regardless of which         *)
(* loopback address the browser used" (oauth_accept_loop): a start claims  *)
(* one code at most, and the second event of a code is not exchanged       *)
(* again, unless the exchange has failed.                                  *)
FiresOnce ==
    /\ \A a \in Starts : claims[a] <= 1
    /\ exchanging # Nobody => exchanging \notin accepted
    /\ \A c \in Codes : refused[c] <= 2

(* A code that the browser has brought is on its way to a session, has     *)
(* brought one or was refused.  It is lost when nobody listens, when its   *)
(* listener waits for a login that is claimed or gives up, when another    *)
(* code is being or was exchanged, and with the application.               *)
CodeCounts ==
    brought \subseteq CodesOf(backlog) \union {e.code : e \in events} \union {exchanging}
        \union accepted \union {c \in Codes : refused[c] > 0} \union missed

(* A login fires once, and is not lost on the way. *)
SignInCounts == FiresOnce /\ CodeCounts
=============================================================================

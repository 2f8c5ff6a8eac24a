---------------------------- MODULE SignInProofs ----------------------------
(***************************************************************************)
(* Theorems about SignIn, for every number of logins, connections and      *)
(* restarts: a login fires once, whichever thread takes it, in whatever    *)
(* order its two events are seen, and whatever the exchange answers; and   *)
(* a code that the browser has brought is accounted for.                   *)
(***************************************************************************)
EXTENDS SignIn, TLAPS

Connections == [f : Families, what : {"code", "other", "tokens", "no tokens"},
                code : Codes \union {Nobody}]
Notices == [code : Codes, via : {"dom", "tauri"}]

Types ==
    /\ handled \in [Starts -> BOOLEAN] /\ claims \in [Starts -> Nat]
    /\ logins \in 0 .. MaxLogins
    /\ browser \subseteq 1 .. logins /\ brought \subseteq 1 .. logins
    /\ backlog \subseteq Connections /\ events \subseteq Notices
    /\ taken \in BOOLEAN /\ exchanging \in Codes \union {Nobody}
    /\ accepted \subseteq Codes /\ refused \in [Codes -> Nat]

(* A start that has claimed a code has its flag set.                       *)
ClaimsAreFlagged == \A a \in Starts : claims[a] = 0 \/ (claims[a] = 1 /\ handled[a])

(* A code comes from the browser once, waits in one connection, and the    *)
(* page has not heard of it before.                                        *)
Heard(c) ==
    \/ c \in accepted \/ c = exchanging \/ refused[c] > 0
    \/ \E e \in events : e.code = c
Waits ==
    /\ browser \intersect brought = {}
    /\ \A r \in backlog : r.what = "code" <=> r.code # Nobody
    /\ \A r \in backlog : r.code # Nobody => r.code \in brought /\ ~Heard(r.code)
    /\ \A r, q \in backlog : r.code # Nobody /\ r.code = q.code => r = q
    /\ \A c \in Codes : Heard(c) => c \in brought

(* The flag of the page is up while a code is exchanged, and while an      *)
(* event of one that was exchanged is still to come.                       *)
FlagIsUp ==
    /\ exchanging # Nobody => taken /\ exchanging \notin accepted
    /\ \A e \in events : e.code \in accepted => taken /\ exchanging = Nobody

(* Two events make two attempts at most: those that have failed, the one   *)
(* under way and the events to come.                                       *)
One(b) == IF b THEN 1 ELSE 0
ToCome(c) == One([code |-> c, via |-> "dom"] \in events)
           + One([code |-> c, via |-> "tauri"] \in events) + One(exchanging = c)
Attempts == \A c \in Codes : refused[c] + ToCome(c) <= 2

IInv == Types /\ ClaimsAreFlagged /\ Waits /\ FlagIsUp /\ Attempts

hearing == <<accepted, exchanging, refused, events>>

-----------------------------------------------------------------------------
LEMMA InitIInv == Init => IInv
<1> SUFFICES ASSUME Init PROVE IInv
  OBVIOUS
<1>1. Types
  <2>1. handled \in [Starts -> BOOLEAN]
    BY DEF Init
  <2>3. claims \in [Starts -> Nat]
    BY DEF Init
  <2>4. refused \in [Codes -> Nat]
    BY DEF Init
  <2>2. logins \in 0 .. MaxLogins
    BY SignInAssumption DEF Init
  <2>5. taken \in BOOLEAN /\ exchanging \in Codes \union {Nobody}
    BY Zenon DEF Init
  <2> QED
    BY <2>1, <2>2, <2>3, <2>4, <2>5 DEF Init, Types
<1>5. ClaimsAreFlagged
  BY DEF Init, ClaimsAreFlagged
<1>2. \A c \in Codes : ~Heard(c) /\ refused[c] = 0 /\ c # Nobody
  BY SignInAssumption DEF Init, Heard, Codes
<1>3. Waits /\ FlagIsUp
  BY <1>2 DEF Init, Waits, FlagIsUp
<1>4. Attempts
  BY <1>2 DEF Init, Attempts, ToCome, One
<1> QED
  BY <1>1, <1>5, <1>3, <1>4 DEF IInv

(* What is heard of a code does not change with the connections.           *)
LEMMA HeardStays ==
    ASSUME UNCHANGED hearing
    PROVE  /\ \A c : Heard(c)' <=> Heard(c)
           /\ Attempts => Attempts'
           /\ FlagIsUp /\ UNCHANGED taken => FlagIsUp'
<1> USE DEF hearing
<1>1. \A c : Heard(c)' <=> Heard(c)
  BY DEF Heard
<1>2. Attempts => Attempts'
  BY DEF Attempts, ToCome
<1>3. FlagIsUp /\ UNCHANGED taken => FlagIsUp'
  BY DEF FlagIsUp
<1> QED
  BY <1>1, <1>2, <1>3

LEMMA LoginsInRange ==
    IInv => /\ logins \in Nat /\ MaxLogins \in Nat /\ logins <= MaxLogins
            /\ logins < MaxLogins => logins + 1 \in logins .. MaxLogins
            /\ logins \in logins .. MaxLogins
<1> SUFFICES ASSUME IInv
             PROVE  /\ logins \in Nat /\ MaxLogins \in Nat /\ logins <= MaxLogins
                    /\ logins < MaxLogins => logins + 1 \in logins .. MaxLogins
                    /\ logins \in logins .. MaxLogins
  OBVIOUS
<1>1. logins \in 0 .. MaxLogins
  BY DEF IInv, Types
<1> QED
  BY <1>1, SignInAssumption

LEMMA NobodyIsNoCode == Nobody \notin Codes
  BY SignInAssumption DEF Codes

(* A step that tells nothing and brings nothing: connections are refused   *)
(* or come without a code, a flag may be set.                              *)
LEMMA QuietKeepsIInv ==
    ASSUME IInv, UNCHANGED <<browser, brought, taken, claims>>, UNCHANGED hearing,
           logins' \in logins .. MaxLogins,
           \A r \in backlog' : \/ r \in backlog
                               \/ r \in Connections /\ r.what # "code" /\ r.code = Nobody,
           handled' \in [Starts -> BOOLEAN],
           \A a \in Starts : handled[a] => handled'[a]
    PROVE  IInv'
<1>1. Types'
  BY SignInAssumption DEF IInv, Types, hearing
<1>2. ClaimsAreFlagged'
  BY DEF IInv, Types, ClaimsAreFlagged
<1>3. Waits'
  BY HeardStays DEF IInv, Waits
<1> QED
  BY <1>1, <1>2, <1>3, HeardStays DEF IInv

-----------------------------------------------------------------------------
(* The steps of the user, the browser and the listeners.                   *)
LEMMA SignInKeepsIInv ==
    ASSUME IInv, NEW reached \in BOOLEAN, SignIn(reached)
    PROVE  IInv'
<1>1. logins' = logins + 1 /\ logins' \in 1 .. MaxLogins /\ logins \in Nat
  BY SignInAssumption DEF SignIn, IInv, Types
<1>2. /\ browser' \subseteq browser \union {logins'}
      /\ UNCHANGED <<brought, hearing, taken, claims, handled, backlog>>
  BY DEF SignIn, pageVars, hearing
<1>3. Types' /\ ClaimsAreFlagged'
  BY <1>1, <1>2 DEF IInv, Types, ClaimsAreFlagged, hearing
<1>4. Waits'
  <2>1. logins' \notin brought
    BY <1>1 DEF IInv, Types
  <2>2. browser' \intersect brought' = {}
    BY <1>2, <2>1 DEF IInv, Waits
  <2> QED
    BY <1>2, <2>2, HeardStays DEF IInv, Waits
<1> QED
  BY <1>2, <1>3, <1>4, HeardStays DEF IInv

LEMMA RedirectKeepsIInv ==
    ASSUME IInv, NEW c \in browser, Redirect(c)
    PROVE  IInv'
<1>1. /\ c \in 1 .. logins /\ c \in Codes /\ c # Nobody
      /\ c \notin brought /\ ~Heard(c)
  BY SignInAssumption DEF IInv, Types, Waits, Codes
<1>2. /\ browser' = browser \ {c} /\ brought' = brought \union {c}
      /\ UNCHANGED <<hearing, taken, claims, handled, logins>>
  BY DEF Redirect, pageVars, hearing
<1>3. \A r \in backlog' : \/ r \in backlog
                          \/ r \in Connections /\ r.what = "code" /\ r.code = c
  <2>1. CASE \E f \in Listened : backlog' = backlog \union {[f |-> f, what |-> "code", code |-> c]}
    <3>1. PICK f \in Listened : backlog' = backlog \union {[f |-> f, what |-> "code", code |-> c]}
      BY <2>1
    <3>2. [f |-> f, what |-> "code", code |-> c] \in Connections
      BY <1>1, <3>1 DEF Listened, Connections
    <3> QED
      BY <3>1, <3>2
  <2>2. CASE UNCHANGED backlog
    BY <2>2
  <2> QED
    BY <2>1, <2>2 DEF Redirect
<1>4. \A r, q \in backlog' : r.code = c /\ q.code = c => r = q
  <2>1. \A r \in backlog : r.code # c
    BY <1>1 DEF IInv, Waits
  <2>2. CASE \E f \in Listened : backlog' = backlog \union {[f |-> f, what |-> "code", code |-> c]}
    BY <2>1, <2>2
  <2>3. CASE UNCHANGED backlog
    BY <2>1, <2>3
  <2> QED
    BY <2>2, <2>3 DEF Redirect
<1>5. Types' /\ ClaimsAreFlagged'
  BY <1>1, <1>2, <1>3 DEF IInv, Types, ClaimsAreFlagged, hearing
<1>6. Waits'
  <2>1. \A r \in backlog' : (r.what = "code" <=> r.code # Nobody)
    BY <1>1, <1>3 DEF IInv, Waits
  <2>2. \A r \in backlog' : r.code # Nobody => r.code \in brought' /\ ~Heard(r.code)'
    BY <1>1, <1>2, <1>3, HeardStays DEF IInv, Waits
  <2>3. \A r, q \in backlog' : r.code # Nobody /\ r.code = q.code => r = q
    BY <1>1, <1>3, <1>4 DEF IInv, Waits
  <2>4. browser' \intersect brought' = {} /\ \A d \in Codes : Heard(d)' => d \in brought'
    BY <1>2, HeardStays DEF IInv, Waits
  <2> QED
    BY <2>1, <2>2, <2>3, <2>4 DEF Waits
<1> QED
  BY <1>2, <1>5, <1>6, HeardStays DEF IInv

(* Raising a flag lowers none.                                             *)
LEMMA FlagRaised ==
    ASSUME NEW h \in [Starts -> BOOLEAN], NEW a \in Starts, NEW b \in BOOLEAN,
           NEW g, g = [h EXCEPT ![a] = @ \/ b]
    PROVE  /\ g \in [Starts -> BOOLEAN]
           /\ \A x \in Starts : h[x] => g[x]
           /\ b => g[a]
<1>1. g[a] = (h[a] \/ b) /\ \A x \in Starts \ {a} : g[x] = h[x]
  OBVIOUS
<1>2. g = [x \in Starts |-> g[x]]
  OBVIOUS
<1>3. \A x \in Starts : g[x] \in BOOLEAN
  BY <1>1
<1>4. g \in [Starts -> BOOLEAN]
  BY <1>2, <1>3
<1>5. \A x \in Starts : h[x] => g[x]
  BY <1>1, Zenon
<1> QED
  BY <1>1, <1>4, <1>5, Zenon

(* A thread that has the flag tells of a code that nobody has heard of.    *)
LEMMA TellingKeepsIInv ==
    ASSUME IInv, NEW a \in Starts, NEW f \in Families, NEW r \in Waiting(f),
           r.what = "code", Claims(a), Tell(r.code),
           backlog' = backlog \ Waiting(f),
           handled' = [handled EXCEPT ![a] = @ \/ r.what # "no tokens"],
           claims' = [claims EXCEPT ![a] = @ + 1],
           UNCHANGED <<browser, brought, taken, exchanging, accepted, refused, logins>>
    PROVE  IInv'
<1> DEFINE c == r.code
<1>1. /\ r \in backlog /\ c \in Codes /\ c # Nobody
      /\ c \in brought /\ ~Heard(c)
  BY DEF IInv, Types, Waits, Waiting, Connections
<1>2. /\ [code |-> c, via |-> "dom"] \in Notices
      /\ [code |-> c, via |-> "tauri"] \in Notices
  BY <1>1 DEF Notices
<1>3. events' = events \union {[code |-> c, via |-> "dom"], [code |-> c, via |-> "tauri"]}
  BY DEF Tell
<1>4. \A d \in Codes : Heard(d)' <=> Heard(d) \/ d = c
  <2>2. \A d : (\E e \in events' : e.code = d) <=> d = c \/ \E e \in events : e.code = d
    <3> DEFINE n(v) == [code |-> c, via |-> v]
    <3>1. n("dom").code = c /\ n("tauri").code = c
      OBVIOUS
    <3>2. \A e : e \in events' <=> e \in events \/ e = n("dom") \/ e = n("tauri")
      BY <1>3, Zenon
    <3> HIDE DEF n
    <3> QED
      BY <3>1, <3>2, Zenon
  <2>3. UNCHANGED <<accepted, exchanging, refused>>
    OBVIOUS
  <2> QED
    BY <2>2, <2>3 DEF Heard
<1>5. Types'
  BY <1>2, <1>3, <1>1 DEF IInv, Types
<1>6. ClaimsAreFlagged'
  <2>1. claims[a] = 0
    BY DEF IInv, ClaimsAreFlagged, Claims
  <2>2. claims'[a] = 1 /\ \A b \in Starts \ {a} : claims'[b] = claims[b]
    BY <2>1 DEF IInv, Types
  <2>3. handled'[a] /\ \A b \in Starts : handled[b] => handled'[b]
    BY FlagRaised DEF IInv, Types
  <2> QED
    BY <2>2, <2>3 DEF IInv, ClaimsAreFlagged
<1>7. Waits'
  <2>1. \A q \in backlog' : q \in backlog /\ q # r
    BY DEF Waiting
  <2>2. \A q \in backlog' : q.code # Nobody => q.code \in Codes /\ q.code # c
    BY <1>1, <2>1 DEF IInv, Types, Waits, Connections
  <2>3. \A q \in backlog' : q.code # Nobody => q.code \in brought' /\ ~Heard(q.code)'
    BY <1>4, <2>1, <2>2 DEF IInv, Waits
  <2>4. \A d \in Codes : Heard(d)' => d \in brought'
    BY <1>1, <1>4 DEF IInv, Waits
  <2> QED
    BY <2>1, <2>3, <2>4 DEF IInv, Waits
<1>8. FlagIsUp'
  <2>1. c \notin accepted
    BY <1>1 DEF Heard
  <2> QED
    BY <1>3, <2>1 DEF IInv, FlagIsUp
<1>9. Attempts'
  <2> SUFFICES ASSUME NEW d \in Codes
               PROVE  refused[d] + ToCome(d)' <= 2
    BY DEF Attempts
  <2>1. CASE d = c
    <3>1. refused[d] = 0 /\ exchanging # d
      BY <1>1, <2>1 DEF Heard, IInv, Types
    <3> QED
      BY <3>1 DEF ToCome, One
  <2>2. CASE d # c
    <3>1. /\ [code |-> d, via |-> "dom"] \in events' <=> [code |-> d, via |-> "dom"] \in events
          /\ [code |-> d, via |-> "tauri"] \in events' <=> [code |-> d, via |-> "tauri"] \in events
      BY <1>3, <2>2
    <3>2. ToCome(d)' = ToCome(d)
      BY <3>1 DEF ToCome, One
    <3> QED
      BY <3>2 DEF IInv, Attempts
  <2> QED
    BY <2>1, <2>2
<1> QED
  BY <1>5, <1>6, <1>7, <1>8, <1>9 DEF IInv

LEMMA AcceptKeepsIInv ==
    ASSUME IInv, NEW a \in Starts, NEW f \in Families, Accept(a, f)
    PROVE  IInv'
<1>1. PICK r \in Waiting(f) :
        \/ /\ r.what = "code" /\ Claims(a) /\ Tell(r.code)
           /\ backlog' = backlog \ Waiting(f)
           /\ handled' = [handled EXCEPT ![a] = @ \/ r.what # "no tokens"]
           /\ claims' = [claims EXCEPT ![a] = @ + 1]
        \/ /\ UNCHANGED <<claims, events>>
           /\ backlog' \subseteq backlog
           /\ \/ handled' = [handled EXCEPT ![a] = @ \/ r.what # "no tokens"]
              \/ UNCHANGED handled
  BY DEF Accept
<1>2. UNCHANGED <<browser, brought, taken, exchanging, accepted, refused, logins>>
  BY DEF Accept
<1>3. CASE UNCHANGED <<claims, events>> /\ backlog' \subseteq backlog
           /\ (handled' = [handled EXCEPT ![a] = @ \/ r.what # "no tokens"] \/ UNCHANGED handled)
  <2>1. handled' \in [Starts -> BOOLEAN] /\ \A b \in Starts : handled[b] => handled'[b]
    <3>1. handled \in [Starts -> BOOLEAN] /\ (r.what # "no tokens") \in BOOLEAN
      BY DEF IInv, Types
    <3>2. CASE UNCHANGED handled
      BY <3>1, <3>2, Zenon
    <3>3. CASE handled' = [handled EXCEPT ![a] = @ \/ r.what # "no tokens"]
      BY <3>1, <3>3, FlagRaised, Zenon
    <3> QED
      BY <1>3, <3>2, <3>3
  <2>2. logins' \in logins .. MaxLogins
    BY <1>2, SignInAssumption DEF IInv, Types
  <2>3. UNCHANGED <<browser, brought, taken, claims>> /\ UNCHANGED hearing
    BY <1>2, <1>3 DEF hearing
  <2>4. \A q \in backlog' : \/ q \in backlog
                            \/ q \in Connections /\ q.what # "code" /\ q.code = Nobody
    BY <1>3, Zenon
  <2> QED
    BY <2>1, <2>2, <2>3, <2>4, QuietKeepsIInv, Zenon
<1> QED
  BY <1>1, <1>2, <1>3, TellingKeepsIInv

LEMMA HostKeepsIInv ==
    ASSUME IInv, NEW a \in Starts, NEW f \in Families, Loop(a, f) \/ Accept(a, f)
    PROVE  IInv'
<1>1. CASE Loop(a, f)
  <2>1. UNCHANGED <<browser, brought, taken, claims, handled, logins>> /\ UNCHANGED hearing
    BY <1>1 DEF Loop, pageVars, hearing
  <2>2. \A r \in backlog' : r \in backlog
    BY <1>1 DEF Loop
  <2>3. logins' \in logins .. MaxLogins /\ handled' \in [Starts -> BOOLEAN]
    BY <2>1, SignInAssumption DEF IInv, Types
  <2> QED
    BY <2>1, <2>2, <2>3, QuietKeepsIInv
<1> QED
  BY <1>1, AcceptKeepsIInv

(* Connections without a code, and the form.                               *)
LEMMA StrayKeepsIInv ==
    ASSUME IInv, NEW f \in Families, NEW what \in {"other", "tokens", "no tokens"},
           Stray(f, what)
    PROVE  IInv'
<1>1. UNCHANGED <<browser, brought, taken, claims, handled, logins>> /\ UNCHANGED hearing
  BY DEF Stray, pageVars, hearing
<1>2. \A r \in backlog' : \/ r \in backlog
                          \/ r \in Connections /\ r.what # "code" /\ r.code = Nobody
  <2>1. [f |-> f, what |-> what, code |-> Nobody] \in Connections
    BY DEF Connections
  <2>2. \A r \in backlog' : r \in backlog \/ r = [f |-> f, what |-> what, code |-> Nobody]
    BY DEF Stray
  <2>3. /\ [f |-> f, what |-> what, code |-> Nobody].what # "code"
        /\ [f |-> f, what |-> what, code |-> Nobody].code = Nobody
    OBVIOUS
  <2> QED
    BY <2>1, <2>2, <2>3, Zenon
<1>3. logins' \in logins .. MaxLogins
  BY <1>1, LoginsInRange
<1>4. handled' \in [Starts -> BOOLEAN]
  BY <1>1 DEF IInv, Types
<1> QED
  BY <1>1, <1>2, <1>3, <1>4, QuietKeepsIInv

LEMMA FormKeepsIInv ==
    ASSUME IInv, Submit \/ SignOut \/ \E right \in BOOLEAN : Submitted(right)
    PROVE  IInv'
<1>1. UNCHANGED <<browser, brought, taken, claims, handled, backlog>> /\ UNCHANGED hearing
  BY DEF Submit, SignOut, Submitted, hostVars, hearing
<1>2. \/ logins < MaxLogins /\ logins' = logins + 1
      \/ UNCHANGED logins
  BY Zenon DEF Submit, SignOut, Submitted
<1>3. logins' \in logins .. MaxLogins
  BY <1>2, LoginsInRange
<1>4. handled' \in [Starts -> BOOLEAN]
  BY <1>1 DEF IInv, Types
<1> QED
  BY <1>1, <1>3, <1>4, QuietKeepsIInv

-----------------------------------------------------------------------------
(* The steps of the page: an event that finds the flag up is dropped, one  *)
(* that does not starts an exchange of a code that was not exchanged.      *)
LEMMA EventKeepsIInv ==
    ASSUME IInv, NEW e \in events, Event(e)
    PROVE  IInv'
<1>1. /\ e \in Notices /\ e.code \in Codes /\ e.code # Nobody /\ Heard(e.code)
      /\ e = [code |-> e.code, via |-> e.via] /\ e.via \in {"dom", "tauri"}
  BY SignInAssumption DEF IInv, Types, Notices, Heard, Codes
<1>2. /\ events' = events \ {e}
      /\ UNCHANGED <<handled, claims, backlog, browser, logins, refused, accepted, brought>>
  BY DEF Event, hostVars
<1>3. \/ taken /\ UNCHANGED <<taken, exchanging>>
      \/ ~taken /\ taken' = TRUE /\ exchanging' = e.code /\ exchanging = Nobody
  BY DEF Event, IInv, FlagIsUp
<1>4. \A c : Heard(c)' => Heard(c) \/ c = Nobody
  BY <1>1, <1>2, <1>3 DEF Heard
<1>5. Types' /\ ClaimsAreFlagged'
  BY <1>1, <1>2, <1>3 DEF IInv, Types, ClaimsAreFlagged
<1>6. Waits'
  BY <1>2, <1>4, SignInAssumption DEF IInv, Waits, Codes
<1>7. FlagIsUp'
  BY <1>1, <1>2, <1>3 DEF IInv, FlagIsUp
<1>8. Attempts'
  <2> SUFFICES ASSUME NEW c \in Codes
               PROVE  refused[c] + ToCome(c)' <= 2
    BY <1>2 DEF Attempts
  <2>1. refused[c] \in Nat /\ refused[c] + ToCome(c) <= 2
    BY DEF IInv, Types, Attempts
  <2>2. ToCome(c)' <= ToCome(c)
    <3>1. CASE e.code # c
      BY <1>1, <1>2, <1>3, <3>1 DEF ToCome, One
    <3>2. CASE e = [code |-> c, via |-> "dom"]
      BY <1>1, <1>2, <1>3, <3>2 DEF ToCome, One
    <3>3. CASE e = [code |-> c, via |-> "tauri"]
      BY <1>1, <1>2, <1>3, <3>3 DEF ToCome, One
    <3> QED
      BY <1>1, <3>1, <3>2, <3>3
  <2> QED
    BY <2>1, <2>2 DEF ToCome, One
<1> QED
  BY <1>5, <1>6, <1>7, <1>8 DEF IInv

(* An exchange ends: with a session the flag stays up, without one the     *)
(* code has failed once more.                                              *)
LEMMA ExchangedKeepsIInv ==
    ASSUME IInv, Exchanged
    PROVE  IInv'
<1>1. /\ exchanging # Nobody /\ exchanging' = Nobody
      /\ accepted' = accepted \union {exchanging}
      /\ UNCHANGED <<handled, claims, backlog, browser, events, taken, logins, refused, brought>>
  BY DEF Exchanged, hostVars
<1>2. exchanging \in Codes /\ taken
  BY <1>1 DEF IInv, Types, FlagIsUp
<1>3. \A c : Heard(c)' => Heard(c) \/ c = Nobody
  BY <1>1 DEF Heard
<1>4. Types' /\ ClaimsAreFlagged'
  BY <1>1, <1>2 DEF IInv, Types, ClaimsAreFlagged
<1>5. Waits'
  BY <1>1, <1>3, SignInAssumption DEF IInv, Waits, Codes
<1>6. FlagIsUp'
  BY <1>1, <1>2 DEF IInv, FlagIsUp
<1>7. Attempts'
  <2> SUFFICES ASSUME NEW c \in Codes
               PROVE  refused[c] + ToCome(c)' <= 2
    BY <1>1 DEF Attempts
  <2>1. refused[c] \in Nat /\ refused[c] + ToCome(c) <= 2 /\ c # Nobody
    BY SignInAssumption DEF IInv, Types, Attempts, Codes
  <2> QED
    BY <1>1, <2>1 DEF ToCome, One
<1> QED
  BY <1>4, <1>5, <1>6, <1>7 DEF IInv

LEMMA ExchangeFailsKeepsIInv ==
    ASSUME IInv, ExchangeFails
    PROVE  IInv'
<1>1. /\ exchanging # Nobody /\ exchanging' = Nobody /\ taken' = FALSE
      /\ refused' = [refused EXCEPT ![exchanging] = @ + 1]
      /\ UNCHANGED <<handled, claims, backlog, browser, events, logins, accepted, brought>>
  BY DEF ExchangeFails, Released, hostVars
<1>2. exchanging \in Codes /\ refused \in [Codes -> Nat]
  BY <1>1 DEF IInv, Types
<1>3. \A c \in Codes : /\ Heard(c)' => Heard(c)
                       /\ c # Nobody
                       /\ refused[c] \in Nat
                       /\ refused'[c] = refused[c] + One(c = exchanging)
  <2> SUFFICES ASSUME NEW c \in Codes
               PROVE  /\ Heard(c)' => Heard(c)
                      /\ c # Nobody
                      /\ refused[c] \in Nat
                      /\ refused'[c] = refused[c] + One(c = exchanging)
    OBVIOUS
  <2>1. c # Nobody /\ refused[c] \in Nat
    BY <1>2, SignInAssumption DEF Codes
  <2>2. refused'[c] = refused[c] + One(c = exchanging)
    BY <1>1, <1>2, <2>1 DEF One
  <2>3. c # exchanging => refused'[c] = refused[c]
    BY <1>1, <1>2
  <2>4. Heard(c)' => Heard(c)
    BY <1>1, <2>1, <2>3 DEF Heard
  <2> QED
    BY <2>1, <2>2, <2>4
<1>4. Types' /\ ClaimsAreFlagged'
  <2>1. refused' \in [Codes -> Nat]
    BY <1>1, <1>2
  <2> QED
    BY <1>1, <2>1 DEF IInv, Types, ClaimsAreFlagged
<1>5. Waits'
  <2>1. \A r \in backlog : r.code # Nobody => r.code \in Codes
    BY DEF IInv, Types, Connections
  <2> QED
    BY <1>1, <1>3, <2>1 DEF IInv, Waits
<1>6. FlagIsUp'
  <2>1. Nobody \notin accepted
    BY NobodyIsNoCode DEF IInv, Types
  <2> QED
    BY <1>1, <2>1 DEF IInv, FlagIsUp
<1>7. Attempts'
  <2> SUFFICES ASSUME NEW c \in Codes
               PROVE  refused'[c] + ToCome(c)' <= 2
    BY DEF Attempts
  <2>1. refused[c] + ToCome(c) <= 2
    BY DEF IInv, Attempts
  <2> QED
    BY <1>1, <1>3, <2>1 DEF ToCome, One
<1> QED
  BY <1>4, <1>5, <1>6, <1>7 DEF IInv

(* The application ends: nothing waits and nothing is to come.             *)
LEMMA RestartKeepsIInv ==
    ASSUME IInv, Restart
    PROVE  IInv'
<1>1. /\ backlog' = {} /\ events' = {} /\ taken' = FALSE /\ exchanging' = Nobody
      /\ UNCHANGED <<handled, claims, browser, logins, accepted, refused, brought>>
  BY DEF Restart
<1>2. \A c \in Codes : (Heard(c)' => Heard(c)) /\ c # Nobody /\ refused[c] \in Nat
  BY <1>1, SignInAssumption DEF Heard, IInv, Types, Codes
<1>3. Types' /\ ClaimsAreFlagged'
  BY <1>1 DEF IInv, Types, ClaimsAreFlagged
<1>4. Waits'
  BY <1>1, <1>2 DEF IInv, Waits
<1>5. FlagIsUp'
  BY <1>1, SignInAssumption DEF IInv, Types, FlagIsUp, Codes
<1>6. Attempts'
  <2> SUFFICES ASSUME NEW c \in Codes
               PROVE  refused[c] + ToCome(c)' <= 2
    BY <1>1 DEF Attempts
  <2>1. refused[c] + ToCome(c) <= 2
    BY DEF IInv, Attempts
  <2> QED
    BY <1>1, <1>2, <2>1 DEF ToCome, One
<1> QED
  BY <1>3, <1>4, <1>5, <1>6 DEF IInv

-----------------------------------------------------------------------------
LEMMA NextKeepsIInv == IInv /\ [Next]_signVars => IInv'
<1> SUFFICES ASSUME IInv, [Next]_signVars PROVE IInv'
  OBVIOUS
<1>1. CASE UNCHANGED signVars
  <2>1. UNCHANGED <<browser, brought, taken, claims, handled, backlog, logins>> /\ UNCHANGED hearing
    BY <1>1 DEF signVars, hearing
  <2>2. logins' \in logins .. MaxLogins /\ handled' \in [Starts -> BOOLEAN]
    BY <2>1, SignInAssumption DEF IInv, Types
  <2> QED
    BY <2>1, <2>2, QuietKeepsIInv
<1>2. CASE Next
  BY <1>2, SignInKeepsIInv, RedirectKeepsIInv, StrayKeepsIInv, HostKeepsIInv, EventKeepsIInv,
     ExchangedKeepsIInv, ExchangeFailsKeepsIInv, FormKeepsIInv, RestartKeepsIInv DEF Next
<1> QED
  BY <1>1, <1>2

THEOREM IInvHolds == Spec => []IInv
<1> QED
  BY InitIInv, NextKeepsIInv, PTL DEF Spec

-----------------------------------------------------------------------------
(* What else there is: the listeners, and what has become of the codes.    *)
Listeners ==
    /\ bound \in [Families -> Starts \union {Nobody}]
    /\ thread \in [Starts -> [Families ->
         [at : {"none", "loop", "accept", "done"}, served : 0 .. MaxServed]]]
    /\ \A a \in Starts, f \in Families :
         thread[a][f].at = "accept" => thread[a][f].served < MaxServed
    /\ starts \in 0 .. logins
Rest == submitted \in BOOLEAN /\ session \in BOOLEAN /\ missed \subseteq Codes

(* A code that waits, is told of, exchanged, accepted or refused, or lost. *)
Somewhere(c) ==
    \/ \E r \in backlog : r.code = c
    \/ \E e \in events : e.code = c
    \/ c = exchanging \/ c \in accepted \/ refused[c] > 0 \/ c \in missed
AllSomewhere == \A c \in brought : Somewhere(c)

(* The flag of the page stays up after an exchange only if it has brought  *)
(* a session: the event of another code that finds it up is superseded.    *)
TakenForGood == taken /\ exchanging = Nobody => accepted # {}

Accounts == Listeners /\ Rest /\ AllSomewhere /\ TakenForGood

LEMMA InitAccounts == Init => Accounts
<1> SUFFICES ASSUME Init PROVE Accounts
  OBVIOUS
<1>1. thread \in [Starts -> [Families ->
         [at : {"none", "loop", "accept", "done"}, served : 0 .. MaxServed]]]
  <2>1. Idle \in [at : {"none", "loop", "accept", "done"}, served : 0 .. MaxServed]
    BY SignInAssumption DEF Idle
  <2> QED
    BY <2>1 DEF Init
<1>2. \A a \in Starts, f \in Families : thread[a][f].at # "accept"
  BY DEF Init, Idle
<1>3. Listeners
  BY <1>1, <1>2 DEF Init, Listeners
<1>4. Rest
  BY Zenon DEF Init, Rest
<1> QED
  BY <1>3, <1>4 DEF Init, Accounts, AllSomewhere, TakenForGood

(* Steps that touch no listener.                                           *)
LEMMA ListenersStay ==
    ASSUME IInv, Listeners, UNCHANGED <<bound, thread, starts>>, logins' \in logins .. MaxLogins
    PROVE  Listeners'
<1>1. logins \in Nat /\ MaxLogins \in Nat
  BY LoginsInRange
<1> QED
  BY <1>1 DEF Listeners

(* A start takes the ports that are free; a thread that ends gives its     *)
(* port back.                                                              *)
LEMMA SignInKeepsListeners ==
    ASSUME IInv, Listeners, NEW reached \in BOOLEAN, SignIn(reached)
    PROVE  Listeners'
<1> DEFINE Cell == [at : {"none", "loop", "accept", "done"}, served : 0 .. MaxServed]
<1>1. /\ logins' = logins + 1 /\ logins \in Nat /\ starts \in 0 .. logins
      /\ logins + 1 <= MaxLogins /\ MaxLogins \in Nat
  BY LoginsInRange DEF SignIn, Listeners
<1>2. CASE NoPort
  BY <1>1, <1>2 DEF NoPort, Listeners
<1>3. ASSUME NEW v6 \in BOOLEAN, Listen(v6)
      PROVE  Listeners'
  <2> DEFINE fs == {f \in Families : f = "v4" \/ (v6 /\ bound[f] = Nobody)}
             row == [f \in Families |-> IF f \in fs THEN [at |-> "loop", served |-> 0] ELSE Idle]
  <2>1. /\ starts' = starts + 1
        /\ bound' = [f \in Families |-> IF f \in fs THEN starts' ELSE bound[f]]
        /\ thread' = [thread EXCEPT ![starts'] = row]
    BY <1>3 DEF Listen
  <2>2. starts' \in Starts /\ starts' \in 0 .. logins'
    BY <1>1, <2>1 DEF Starts
  <2>3. bound' \in [Families -> Starts \union {Nobody}]
    BY <2>1, <2>2 DEF Listeners
  <2>4. row \in [Families -> Cell] /\ \A f \in Families : row[f].at # "accept"
    <3>1. [at |-> "loop", served |-> 0] \in Cell /\ Idle \in Cell /\ Idle.at = "none"
      BY SignInAssumption DEF Idle
    <3> QED
      BY <3>1
  <2> HIDE DEF row, fs, Cell
  <2>5. thread \in [Starts -> [Families -> Cell]]
    BY DEF Listeners, Cell
  <2>6. thread' \in [Starts -> [Families -> Cell]]
    BY <2>1, <2>2, <2>4, <2>5
  <2>7. \A a \in Starts, f \in Families :
          thread'[a][f].at = "accept" => thread'[a][f].served < MaxServed
    <3> SUFFICES ASSUME NEW a \in Starts, NEW f \in Families, thread'[a][f].at = "accept"
                 PROVE  thread'[a][f].served < MaxServed
      OBVIOUS
    <3>1. a # starts'
      BY <2>1, <2>2, <2>4, <2>5
    <3>2. thread'[a] = thread[a]
      BY <2>1, <2>5, <3>1
    <3> QED
      BY <3>2 DEF Listeners
  <2> QED
    BY <2>2, <2>3, <2>6, <2>7 DEF Listeners, Cell
<1> QED
  BY <1>2, <1>3, Zenon DEF SignIn

(* What a thread is left with, when only it and its port change.           *)
LEMMA ThreadKeepsListeners ==
    ASSUME IInv, Listeners, UNCHANGED <<starts, logins>>,
           NEW a \in Starts, NEW f \in Families,
           NEW cell \in [at : {"none", "loop", "accept", "done"}, served : 0 .. MaxServed],
           cell.at = "accept" => cell.served < MaxServed,
           thread' = [thread EXCEPT ![a][f] = cell],
           bound' = [bound EXCEPT ![f] = Nobody] \/ UNCHANGED bound
    PROVE  Listeners'
<1> DEFINE Cell == [at : {"none", "loop", "accept", "done"}, served : 0 .. MaxServed]
<1>1. thread \in [Starts -> [Families -> Cell]] /\ cell \in Cell
  BY DEF Listeners
<1> HIDE DEF Cell
<1>2. thread' \in [Starts -> [Families -> Cell]]
  BY <1>1
<1>3. \A x \in Starts, g \in Families :
        thread'[x][g] = IF x = a /\ g = f THEN cell ELSE thread[x][g]
  BY <1>1
<1>4. bound' \in [Families -> Starts \union {Nobody}]
  BY DEF Listeners
<1> QED
  BY <1>2, <1>3, <1>4 DEF Listeners, Cell

LEMMA HostKeepsListeners ==
    ASSUME IInv, Listeners, NEW a \in Starts, NEW f \in Families, Loop(a, f) \/ Accept(a, f)
    PROVE  Listeners'
<1> DEFINE Cell == [at : {"none", "loop", "accept", "done"}, served : 0 .. MaxServed]
           old == thread[a][f]
<1>1. old \in Cell /\ (old.at = "accept" => old.served < MaxServed) /\ MaxServed \in Nat
  BY SignInAssumption DEF Listeners
<1>2. UNCHANGED <<starts, logins>>
  BY DEF Loop, Accept
<1>3. ASSUME NEW at \in {"loop", "accept", "done"}, thread' = [thread EXCEPT ![a][f].at = at],
             at = "accept" => old.served < MaxServed,
             bound' = [bound EXCEPT ![f] = Nobody] \/ UNCHANGED bound
      PROVE  Listeners'
  <2> DEFINE cell == [old EXCEPT !.at = at]
  <2>1. cell \in Cell /\ cell.at = at /\ cell.served = old.served
    BY <1>1
  <2>2. thread' = [thread EXCEPT ![a][f] = cell]
    BY <1>3
  <2>3. (cell.at = "accept" => cell.served < MaxServed)
        /\ (bound' = [bound EXCEPT ![f] = Nobody] \/ UNCHANGED bound)
    BY <1>3, <2>1
  <2> HIDE DEF cell, old
  <2> QED
    BY <1>2, <2>1, <2>2, <2>3, ThreadKeepsListeners
<1>4. CASE Ends(a, f)
  BY <1>3, <1>4 DEF Ends
<1>5. CASE thread' = [thread EXCEPT ![a][f].at = "accept"] /\ UNCHANGED bound
           /\ old.served # MaxServed
  <2>1. old.served < MaxServed
    BY <1>1, <1>5
  <2> QED
    BY <1>3, <1>5, <2>1
<1>6. CASE thread' = [thread EXCEPT ![a][f] = [at |-> "loop", served |-> @.served + 1]]
           /\ UNCHANGED bound /\ old.at = "accept"
  <2> DEFINE cell == [at |-> "loop", served |-> old.served + 1]
  <2>1. cell \in Cell /\ cell.at = "loop"
    BY <1>1, <1>6
  <2>2. thread' = [thread EXCEPT ![a][f] = cell]
    BY <1>6
  <2> HIDE DEF cell, old
  <2> QED
    BY <1>2, <1>6, <2>1, <2>2, ThreadKeepsListeners
<1> QED
  BY <1>4, <1>5, <1>6 DEF Loop, Accept

LEMMA RestartKeepsListeners ==
    ASSUME IInv, Listeners, Restart
    PROVE  Listeners'
<1>1. Idle \in [at : {"none", "loop", "accept", "done"}, served : 0 .. MaxServed] /\ Idle.at = "none"
  BY SignInAssumption DEF Idle
<1> QED
  BY <1>1 DEF Restart, Listeners

LEMMA NextKeepsListeners ==
    ASSUME IInv, Listeners, Next
    PROVE  Listeners'
<1>1. CASE UNCHANGED <<bound, thread, starts>> /\ logins' \in {logins, logins + 1}
           /\ (logins' # logins => logins < MaxLogins)
  BY <1>1, LoginsInRange, ListenersStay
<1>2. ASSUME NEW c \in browser, Redirect(c) PROVE Listeners'
  BY <1>1, <1>2 DEF Redirect
<1>3. ASSUME NEW f \in Families, NEW what \in {"other", "tokens", "no tokens"}, Stray(f, what)
      PROVE  Listeners'
  BY <1>1, <1>3 DEF Stray
<1>4. ASSUME NEW e \in events, Event(e) PROVE Listeners'
  BY <1>1, <1>4 DEF Event, hostVars
<1>5. CASE Exchanged \/ ExchangeFails \/ SignOut \/ \E right \in BOOLEAN : Submitted(right)
  BY <1>1, <1>5 DEF Exchanged, ExchangeFails, SignOut, Submitted, hostVars
<1>6. CASE Submit
  BY <1>1, <1>6 DEF Submit, hostVars
<1> QED
  BY <1>2, <1>3, <1>4, <1>5, <1>6, SignInKeepsListeners, HostKeepsListeners,
     RestartKeepsListeners DEF Next

(* No code is forgotten: what a step takes away from one place it adds to  *)
(* another.                                                                *)
LEMMA CodesStay ==
    ASSUME IInv, AllSomewhere, UNCHANGED brought,
           \A c \in Codes : Somewhere(c) => Somewhere(c)'
    PROVE  AllSomewhere'
<1>1. brought \subseteq Codes
  BY LoginsInRange DEF IInv, Types, Codes
<1> QED
  BY <1>1 DEF AllSomewhere

LEMMA CodesOfWaiting ==
    ASSUME IInv, NEW rs \in SUBSET backlog
    PROVE  /\ CodesOf(rs) \subseteq Codes
           /\ \A c \in Codes, r \in rs : r.code = c => c \in CodesOf(rs)
<1>1. \A r \in rs : r.code \in Codes \union {Nobody}
  BY DEF IInv, Types, Connections
<1>2. \A c : c \in CodesOf(rs) <=> c # Nobody /\ \E r \in rs : r.code = c
  BY DEF CodesOf
<1> QED
  BY <1>1, <1>2, NobodyIsNoCode

(* The listeners: what a thread closes its port on is lost.                *)
LEMMA LoopKeepsAccounts ==
    ASSUME IInv, Accounts, NEW a \in Starts, NEW f \in Families, Loop(a, f)
    PROVE  Accounts'
<1>1. Waiting(f) \in SUBSET backlog
  BY DEF Waiting
<1>2. \/ backlog' = backlog \ Waiting(f) /\ missed' = missed \union CodesOf(Waiting(f))
      \/ UNCHANGED <<backlog, missed>>
  BY DEF Loop
<1>3. UNCHANGED <<events, taken, exchanging, submitted, session, accepted, refused, brought>>
  BY DEF Loop, pageVars
<1>4. Rest'
  BY <1>1, <1>2, <1>3, CodesOfWaiting DEF Accounts, Rest
<1>5. ASSUME NEW c \in Codes, Somewhere(c) PROVE Somewhere(c)'
  <2>1. ASSUME NEW r \in backlog, r.code = c PROVE Somewhere(c)'
    BY <1>1, <1>2, <2>1, CodesOfWaiting DEF Somewhere
  <2> QED
    BY <1>2, <1>3, <1>5, <2>1 DEF Somewhere
<1>6. AllSomewhere'
  BY <1>3, <1>5, CodesStay DEF Accounts
<1> QED
  BY <1>3, <1>4, <1>6, HostKeepsListeners DEF Accounts, TakenForGood

(* ... unless it is told of.  A connection with tokens brings no code.     *)
LEMMA AcceptKeepsAccounts ==
    ASSUME IInv, Accounts, NEW a \in Starts, NEW f \in Families, Accept(a, f)
    PROVE  Accounts'
<1>1. Waiting(f) \in SUBSET backlog
  BY DEF Waiting
<1>2. PICK r \in Waiting(f) :
        \/ /\ backlog' = backlog \ Waiting(f)
           /\ \/ r.what = "code" /\ Tell(r.code) /\ missed' = missed \union CodesOf(Waiting(f) \ {r})
              \/ UNCHANGED events /\ missed' = missed \union CodesOf(Waiting(f))
        \/ r.what # "code" /\ backlog' = backlog \ {r} /\ UNCHANGED <<events, missed>>
  BY DEF Accept
<1>3. UNCHANGED <<taken, exchanging, submitted, session, accepted, refused, brought>>
  BY DEF Accept
<1>4. Rest'
  <2>1. Waiting(f) \ {r} \in SUBSET backlog
    BY <1>1
  <2>2. missed' \subseteq Codes
    BY <1>1, <1>2, <2>1, CodesOfWaiting DEF Accounts, Rest
  <2> QED
    BY <1>3, <2>2 DEF Accounts, Rest
<1>5. ASSUME NEW c \in Codes, Somewhere(c) PROVE Somewhere(c)'
  <2>1. \A e \in events : e \in events'
    BY <1>2 DEF Tell
  <2>2. missed \subseteq missed'
    BY <1>2
  <2>3. ASSUME NEW q \in backlog, q.code = c PROVE Somewhere(c)'
    <3>1. CASE q \in backlog'
      BY <2>3, <3>1 DEF Somewhere
    <3>2. CASE q \notin backlog' /\ c \in missed'
      BY <3>2 DEF Somewhere
    <3>3. CASE q \notin backlog' /\ c \notin missed'
      <4>1. q # r => q \in Waiting(f) \ {r} /\ Waiting(f) \ {r} \in SUBSET backlog
        BY <1>1, <1>2, <3>3
      <4>2. q.what = "code"
        BY <2>3, NobodyIsNoCode DEF IInv, Waits
      <4>3. q = r /\ Tell(r.code)
        BY <1>1, <1>2, <2>3, <3>3, <4>1, <4>2, CodesOfWaiting
      <4>4. [code |-> c, via |-> "dom"] \in events'
        BY <2>3, <4>3 DEF Tell
      <4>5. \E e \in events' : e.code = c
        BY <4>4
      <4> QED
        BY <4>5 DEF Somewhere
    <3> QED
      BY <3>1, <3>2, <3>3
  <2> QED
    BY <1>3, <1>5, <2>1, <2>2, <2>3 DEF Somewhere
<1>6. AllSomewhere'
  BY <1>3, <1>5, CodesStay DEF Accounts
<1> QED
  BY <1>3, <1>4, <1>6, HostKeepsListeners DEF Accounts, TakenForGood

(* The browser: a code arrives in the backlog, or nobody listens.          *)
LEMMA RedirectKeepsAccounts ==
    ASSUME IInv, Accounts, NEW c \in browser, Redirect(c), Listeners'
    PROVE  Accounts'
<1>1. c \in Codes
  BY LoginsInRange DEF IInv, Types, Codes
<1>2. /\ brought' = brought \union {c}
      /\ UNCHANGED <<events, taken, exchanging, submitted, session, accepted, refused>>
  BY DEF Redirect, pageVars
<1>3. \/ /\ UNCHANGED missed
         /\ \E f \in Families : backlog' = backlog \union {[f |-> f, what |-> "code", code |-> c]}
      \/ missed' = missed \union {c} /\ UNCHANGED backlog
  BY DEF Redirect, Listened
<1>4. Somewhere(c)' /\ \A d : Somewhere(d) => Somewhere(d)'
  <2>1. backlog \subseteq backlog' /\ missed \subseteq missed'
    BY <1>3
  <2>2. c \in missed' \/ \E r \in backlog' : r.code = c
    <3>1. ASSUME NEW f \in Families,
                 backlog' = backlog \union {[f |-> f, what |-> "code", code |-> c]}
          PROVE  \E r \in backlog' : r.code = c
      <4>1. [f |-> f, what |-> "code", code |-> c] \in backlog'
        BY <3>1
      <4> QED
        BY <4>1
    <3> QED
      BY <1>3, <3>1
  <2> QED
    BY <1>2, <2>1, <2>2 DEF Somewhere
<1> QED
  BY <1>1, <1>2, <1>3, <1>4 DEF Accounts, Rest, AllSomewhere, TakenForGood

(* The page: the event of a code that finds the flag up is of the code     *)
(* that is being or has been exchanged, or superseded.                     *)
LEMMA EventKeepsAccounts ==
    ASSUME IInv, Accounts, NEW e \in events, Event(e), Listeners'
    PROVE  Accounts'
<1>1. e.code \in Codes
  BY DEF IInv, Types, Notices
<1>2. /\ events' = events \ {e}
      /\ UNCHANGED <<backlog, submitted, session, refused, accepted, brought>>
  BY DEF Event, hostVars
<1>3. \/ /\ taken /\ UNCHANGED <<taken, exchanging>>
         /\ missed' = IF Superseded(e.code) THEN missed \union {e.code} ELSE missed
      \/ taken' = TRUE /\ exchanging' = e.code /\ exchanging = Nobody /\ UNCHANGED missed
  BY DEF Event, IInv, FlagIsUp
<1>4. Somewhere(e.code)'
  <2>1. CASE taken /\ UNCHANGED exchanging /\ ~Superseded(e.code)
    <3>1. exchanging \in {Nobody, e.code} /\ accepted \subseteq {e.code}
      BY <2>1 DEF Superseded
    <3>2. exchanging = Nobody => accepted # {}
      BY <2>1 DEF Accounts, TakenForGood
    <3>3. exchanging = e.code \/ e.code \in accepted
      BY <3>1, <3>2
    <3> QED
      BY <1>2, <2>1, <3>3 DEF Somewhere
  <2> QED
    BY <1>3, <2>1 DEF Somewhere
<1>5. ASSUME NEW c \in Codes, Somewhere(c) PROVE Somewhere(c)'
  BY <1>2, <1>3, <1>4, <1>5, NobodyIsNoCode DEF Somewhere
<1>6. AllSomewhere'
  BY <1>2, <1>5, CodesStay DEF Accounts
<1>7. Rest'
  BY <1>1, <1>2, <1>3 DEF Accounts, Rest
<1>8. TakenForGood'
  BY <1>1, <1>2, <1>3, NobodyIsNoCode DEF Accounts, TakenForGood
<1> QED
  BY <1>6, <1>7, <1>8 DEF Accounts

LEMMA ExchangeKeepsAccounts ==
    ASSUME IInv, Accounts, Exchanged \/ ExchangeFails, Listeners'
    PROVE  Accounts'
<1>1. exchanging \in Codes /\ refused \in [Codes -> Nat]
  BY DEF IInv, Types, Exchanged, ExchangeFails
<1>2. UNCHANGED <<backlog, events, brought, missed, submitted>> /\ exchanging' = Nobody
  BY DEF Exchanged, ExchangeFails, hostVars
<1>3. \/ accepted' = accepted \union {exchanging} /\ UNCHANGED refused /\ session' = TRUE
      \/ /\ refused' = [refused EXCEPT ![exchanging] = @ + 1] /\ taken' = FALSE
         /\ UNCHANGED <<accepted, session>>
  BY DEF Exchanged, ExchangeFails, Released
<1>4. ASSUME NEW c \in Codes, Somewhere(c) PROVE Somewhere(c)'
  <2>1. refused[c] > 0 => refused'[c] > 0
    BY <1>1, <1>3
  <2>2. c = exchanging => c \in accepted' \/ refused'[c] > 0
    BY <1>1, <1>3
  <2>3. accepted \subseteq accepted'
    BY <1>3
  <2> QED
    BY <1>2, <1>4, <2>1, <2>2, <2>3 DEF Somewhere
<1>5. AllSomewhere'
  BY <1>2, <1>4, CodesStay DEF Accounts
<1>6. Rest' /\ TakenForGood'
  BY <1>2, <1>3 DEF Accounts, Rest, TakenForGood
<1> QED
  BY <1>5, <1>6 DEF Accounts

LEMMA RestartKeepsAccounts ==
    ASSUME IInv, Accounts, Restart
    PROVE  Accounts'
<1>1. /\ taken' = FALSE /\ submitted' = FALSE
      /\ UNCHANGED <<session, refused, accepted, brought>>
      /\ missed' = missed \union CodesOf(backlog) \union {e.code : e \in events} \union
                 (IF exchanging = Nobody THEN {} ELSE {exchanging})
  BY DEF Restart
<1>2. CodesOf(backlog) \subseteq Codes /\ \A c \in Codes, r \in backlog : r.code = c => c \in CodesOf(backlog)
  BY CodesOfWaiting
<1>3. Rest'
  <2>1. {e.code : e \in events} \subseteq Codes
    BY DEF IInv, Types, Notices
  <2>2. missed' \subseteq Codes
    BY <1>1, <1>2, <2>1 DEF Accounts, Rest, IInv, Types
  <2> QED
    BY <1>1, <2>2 DEF Accounts, Rest
<1>4. ASSUME NEW c \in Codes, Somewhere(c) PROVE Somewhere(c)'
  BY <1>1, <1>2, <1>4, NobodyIsNoCode DEF Somewhere
<1>5. AllSomewhere'
  BY <1>1, <1>4, CodesStay DEF Accounts
<1> QED
  BY <1>1, <1>3, <1>5, RestartKeepsListeners DEF Accounts, TakenForGood

(* Steps that neither tell of a code nor take one away.                    *)
LEMMA OthersKeepAccounts ==
    ASSUME IInv, Accounts, Listeners',
           UNCHANGED <<events, taken, exchanging, refused, accepted, brought, missed>>,
           backlog \subseteq backlog', submitted' \in BOOLEAN, session' \in BOOLEAN
    PROVE  Accounts'
<1>1. \A c \in Codes : Somewhere(c) => Somewhere(c)'
  BY DEF Somewhere
<1> QED
  BY <1>1, CodesStay DEF Accounts, Rest, TakenForGood

LEMMA NextKeepsAccounts == IInv /\ Accounts /\ [Next]_signVars => Accounts'
<1> SUFFICES ASSUME IInv, Accounts, [Next]_signVars PROVE Accounts'
  OBVIOUS
<1>1. CASE UNCHANGED signVars
  <2>1. Listeners'
    BY <1>1 DEF signVars, Accounts, Listeners
  <2>2. UNCHANGED <<events, taken, exchanging, refused, accepted, brought, missed, backlog,
                    submitted, session>>
    BY <1>1 DEF signVars
  <2> QED
    BY <2>1, <2>2, OthersKeepAccounts DEF Accounts, Rest
<1>2. CASE Next
  <2>1. Listeners'
    BY <1>2, NextKeepsListeners DEF Accounts
  <2>2. ASSUME NEW reached \in BOOLEAN, SignIn(reached) PROVE Accounts'
    <3>1. UNCHANGED <<events, taken, exchanging, refused, accepted, brought, missed, backlog,
                      submitted, session>>
      BY <2>2 DEF SignIn, pageVars, Listen, NoPort
    <3> QED
      BY <2>1, <3>1, OthersKeepAccounts DEF Accounts, Rest
  <2>3. ASSUME NEW f \in Families, NEW what \in {"other", "tokens", "no tokens"}, Stray(f, what)
        PROVE  Accounts'
    <3>1. backlog \subseteq backlog'
          /\ UNCHANGED <<events, taken, exchanging, refused, accepted, brought, missed, submitted, session>>
      BY <2>3 DEF Stray, pageVars
    <3> QED
      BY <2>1, <3>1, OthersKeepAccounts DEF Accounts, Rest
  <2>4. ASSUME Submit \/ SignOut \/ \E right \in BOOLEAN : Submitted(right)
        PROVE  Accounts'
    <3>1. UNCHANGED <<events, taken, exchanging, refused, accepted, brought, missed, backlog>>
      BY <2>4 DEF Submit, SignOut, Submitted, hostVars
    <3>2. submitted' \in BOOLEAN /\ session' \in BOOLEAN
      BY <2>4, Zenon DEF Submit, SignOut, Submitted, Accounts, Rest
    <3> QED
      BY <2>1, <3>1, <3>2, OthersKeepAccounts
  <2> QED
    BY <1>2, <2>1, <2>2, <2>3, <2>4, RedirectKeepsAccounts, LoopKeepsAccounts,
       AcceptKeepsAccounts, EventKeepsAccounts, ExchangeKeepsAccounts, RestartKeepsAccounts DEF Next
<1> QED
  BY <1>1, <1>2

THEOREM AccountsHold == Spec => []Accounts
<1> QED
  BY IInvHolds, InitAccounts, NextKeepsAccounts, PTL DEF Spec

(* Listeners, connections, events and counters have their types.           *)
THEOREM TypeCorrect == Spec => []TypeOK
<1>1. IInv /\ Accounts => TypeOK
  <2> SUFFICES ASSUME IInv, Accounts PROVE TypeOK
    OBVIOUS
  <2>1. {starts, logins} \subseteq 0 .. MaxLogins /\ browser \union brought \subseteq Codes
    BY LoginsInRange DEF IInv, Types, Accounts, Listeners, Codes
  <2> QED
    BY <2>1 DEF IInv, Types, Connections, Notices, Accounts, Listeners, Rest, TypeOK
<1> QED
  BY IInvHolds, AccountsHold, <1>1, PTL

(* "Ensuring the auth event fires exactly once" (oauth_accept_loop): a     *)
(* start claims one code at most, a code that has brought a session is not *)
(* exchanged again, and one that fails is tried twice at most.             *)
THEOREM FiresOnceHolds == Spec => []FiresOnce
<1>1. IInv => FiresOnce
  <2> SUFFICES ASSUME IInv PROVE FiresOnce
    OBVIOUS
  <2>1. \A a \in Starts : claims[a] <= 1
    BY DEF IInv, Types, ClaimsAreFlagged
  <2>2. \A c \in Codes : refused[c] <= 2
    <3>1. refused \in [Codes -> Nat] /\ \A c \in Codes : refused[c] + ToCome(c) <= 2
      BY DEF IInv, Types, Attempts
    <3>2. \A c : ToCome(c) \in Nat
      BY DEF ToCome, One
    <3>3. \A c \in Codes : refused[c] \in Nat
      BY <3>1
    <3> QED
      BY <3>1, <3>2, <3>3
  <2> QED
    BY <2>1, <2>2 DEF FiresOnce, IInv, FlagIsUp
<1> QED
  BY IInvHolds, <1>1, PTL

(* A login fires once, and the code that the browser has brought is on its *)
(* way, has brought a session, was refused, or is lost in one of the ways  *)
(* that the model names (oauth_accept_loop, handleCode).                   *)
THEOREM SignInCountsHolds == Spec => []SignInCounts
<1>1. IInv /\ Accounts => CodeCounts
  <2> SUFFICES ASSUME IInv, Accounts, NEW c \in brought
               PROVE  \/ c \in CodesOf(backlog) \/ c \in {e.code : e \in events}
                      \/ c = exchanging \/ c \in accepted
                      \/ c \in {d \in Codes : refused[d] > 0} \/ c \in missed
    BY DEF CodeCounts
  <2>1. c \in Codes
    BY LoginsInRange DEF IInv, Types, Codes
  <2>2. Somewhere(c)
    BY DEF Accounts, AllSomewhere
  <2> QED
    BY <2>1, <2>2, CodesOfWaiting DEF Somewhere
<1> QED
  BY IInvHolds, AccountsHold, FiresOnceHolds, <1>1, PTL DEF SignInCounts
=============================================================================

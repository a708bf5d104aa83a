------------------------- MODULE Registration_proofs -------------------------
(***************************************************************************)
(* Theorems about Registration, for every number of commands and logins.   *)
(***************************************************************************)
EXTENDS Registration, TLAPS

\* The address and the token of a session, or of a redirect, are of one command.
Fits(session) == session.state = session.callback

\* Sessions are whole, and the cookie never loses the command once a page was
\* shown: whoever writes it back had it in the request.
SessionsFit ==
    /\ Fits(cookie)
    /\ \A f \in Commands : Fits(sent[f]) /\ Fits(goal[f])

CookieHasCommand ==
    \A f \in Commands :
        /\ tab[f] \notin {"none", "registering"} => cookie.callback # NoCommand
        /\ tab[f] \in {"choosing", "returning"} => sent[f].callback # NoCommand

\* What a command reports was decided by a handler.
ToldIsDecided ==
    \A g \in Commands : command[g] = "told" => g \in certified \cup refused

RegInv ==
    /\ RegTypeOK /\ SessionsFit /\ CookieHasCommand /\ LoginFindsCommand
    /\ ToldIsDecided /\ SuccessHasCertificate

-----------------------------------------------------------------------------
LEMMA InvInit == RegInit => RegInv
  BY RegAssumption DEF RegInit, RegInv, RegTypeOK, SessionsFit, Fits, CookieHasCommand,
        LoginFindsCommand, ToldIsDecided, SuccessHasCertificate, Sessions, NoSession, Tabs

LEMMA TypeStep ==
  ASSUME RegTypeOK, LoginFindsCommand, [RegNext]_regVars
  PROVE  RegTypeOK'
<1> USE RegAssumption DEF RegTypeOK, Sessions, NoSession, Tabs, pageVars, commandVars,
        LoginFindsCommand, Listening
<1>1. ASSUME NEW f \in Commands, Server(f) PROVE RegTypeOK'
  <2>1. CASE HandleRegister(f)
    BY <2>1 DEF HandleRegister, Show
  <2>2. CASE HandleLogin(f)
    BY <2>2 DEF HandleLogin, Show
  <2>3. CASE HandleCallback(f)
    <3>1. CASE goal' = [goal EXCEPT ![f] = sent[f]] /\ Show(f, "done")
      BY <2>3, <3>1 DEF HandleCallback, Show
    <3>2. CASE Show(f, "error") /\ UNCHANGED goal
      BY <2>3, <3>2 DEF HandleCallback, Show
    <3> QED BY <2>3, <3>1, <3>2 DEF HandleCallback
  <2>4. CASE HandleOAuthDone(f)
    <3>1. PICK page \in {"over", "leaving", "error"} : Show(f, page)
      BY <2>4 DEF HandleOAuthDone
    <3>2. tab[f] = "done" /\ UNCHANGED <<cookie, sent, nonce, goal, logins, commandVars>>
      BY <2>4 DEF HandleOAuthDone
    <3> QED BY <3>1, <3>2 DEF Show
  <2> QED BY <1>1, <2>1, <2>2, <2>3, <2>4 DEF Server
<1>2. ASSUME NEW f \in Commands, User(f) PROVE RegTypeOK'
  <2>1. CASE Open(f)
    BY <2>1 DEF Open, Ask, Show
  <2>2. CASE Choose(f)
    BY <2>2 DEF Choose, Ask, Show
  <2>3. CASE Authorize(f)
    BY <2>3 DEF Authorize, Ask, Show
  <2>4. CASE TakeStray(f)
    BY <2>4 DEF TakeStray
  <2>5. CASE TimeOut(f)
    BY <2>5 DEF TimeOut
  <2> QED BY <1>2, <2>1, <2>2, <2>3, <2>4, <2>5 DEF User
<1>3. ASSUME NEW f \in Commands, Callback(f) PROVE RegTypeOK'
  <2>1. CASE Follow(f)
    BY <2>1 DEF Follow, Show
  <2>2. CASE TakeCertificate(f)
    BY <2>2 DEF TakeCertificate, Show
  <2>3. CASE Break(f)
    BY <2>3 DEF Break, Show
  <2> QED BY <1>3, <2>1, <2>2, <2>3 DEF Callback
<1>4. ASSUME NEW f \in Commands, Waiting(f) PROVE RegTypeOK'
  <2>1. CASE SignalStray(f)
    BY <2>1 DEF SignalStray
  <2>2. CASE Conclude(f)
    BY <2>2 DEF Conclude
  <2>3. ASSUME NEW h \in Commands, goal[h].callback = f, Signal(h) PROVE RegTypeOK'
    BY <2>3 DEF Signal, Show
  <2> QED BY <1>4, <2>1, <2>2, <2>3 DEF Waiting
<1>5. CASE UNCHANGED regVars
  BY <1>5 DEF regVars
<1> QED BY <1>1, <1>2, <1>3, <1>4, <1>5 DEF RegNext

LEMMA FitStep ==
  ASSUME RegTypeOK, SessionsFit, [RegNext]_regVars
  PROVE  SessionsFit'
<1> USE RegAssumption DEF RegTypeOK, SessionsFit, Fits, Sessions, NoSession, pageVars,
        commandVars
<1>1. ASSUME NEW f \in Commands, Server(f) PROVE SessionsFit'
  <2>1. CASE HandleRegister(f)
    BY <2>1 DEF HandleRegister, Show
  <2>2. CASE HandleLogin(f)
    BY <2>2 DEF HandleLogin, Show
  <2>3. CASE HandleCallback(f)
    BY <2>3 DEF HandleCallback, Show
  <2>4. CASE HandleOAuthDone(f)
    BY <2>4 DEF HandleOAuthDone, Show
  <2> QED BY <1>1, <2>1, <2>2, <2>3, <2>4 DEF Server
<1>2. ASSUME NEW f \in Commands, User(f) PROVE SessionsFit'
  <2>1. CASE Open(f)
    BY <2>1 DEF Open, Ask, Show
  <2>2. CASE Choose(f)
    BY <2>2 DEF Choose, Ask, Show
  <2>3. CASE Authorize(f)
    BY <2>3 DEF Authorize, Ask, Show
  <2>4. CASE TakeStray(f)
    BY <2>4 DEF TakeStray
  <2>5. CASE TimeOut(f)
    BY <2>5 DEF TimeOut
  <2> QED BY <1>2, <2>1, <2>2, <2>3, <2>4, <2>5 DEF User
<1>3. ASSUME NEW f \in Commands, Callback(f) PROVE SessionsFit'
  <2>1. CASE Follow(f)
    BY <2>1 DEF Follow, Show
  <2>2. CASE TakeCertificate(f)
    BY <2>2 DEF TakeCertificate, Show
  <2>3. CASE Break(f)
    BY <2>3 DEF Break, Show
  <2> QED BY <1>3, <2>1, <2>2, <2>3 DEF Callback
<1>4. ASSUME NEW f \in Commands, Waiting(f) PROVE SessionsFit'
  <2>1. CASE SignalStray(f)
    BY <2>1 DEF SignalStray
  <2>2. CASE Conclude(f)
    BY <2>2 DEF Conclude
  <2>3. ASSUME NEW h \in Commands, goal[h].callback = f, Signal(h) PROVE SessionsFit'
    BY <2>3 DEF Signal, Show
  <2> QED BY <1>4, <2>1, <2>2, <2>3 DEF Waiting
<1>5. CASE UNCHANGED regVars
  BY <1>5 DEF regVars
<1> QED BY <1>1, <1>2, <1>3, <1>4, <1>5 DEF RegNext

LEMMA CookieStep ==
  ASSUME RegTypeOK, CookieHasCommand, LoginFindsCommand, [RegNext]_regVars
  PROVE  CookieHasCommand' /\ LoginFindsCommand'
<1> USE RegAssumption DEF RegTypeOK, CookieHasCommand, LoginFindsCommand, Sessions, Tabs,
        pageVars, commandVars
<1>1. ASSUME NEW f \in Commands, Server(f) PROVE CookieHasCommand' /\ LoginFindsCommand'
  <2>1. CASE HandleRegister(f)
    BY <2>1 DEF HandleRegister, Show
  <2>2. CASE HandleLogin(f)
    BY <2>2 DEF HandleLogin, Show
  <2>3. CASE HandleCallback(f)
    BY <2>3 DEF HandleCallback, Show
  <2>4. CASE HandleOAuthDone(f)
    BY <2>4 DEF HandleOAuthDone, Show
  <2> QED BY <1>1, <2>1, <2>2, <2>3, <2>4 DEF Server
<1>2. ASSUME NEW f \in Commands, User(f) PROVE CookieHasCommand' /\ LoginFindsCommand'
  <2>1. CASE Open(f)
    BY <2>1 DEF Open, Ask, Show
  <2>2. CASE Choose(f)
    BY <2>2 DEF Choose, Ask, Show
  <2>3. CASE Authorize(f)
    BY <2>3 DEF Authorize, Ask, Show
  <2>4. CASE TakeStray(f)
    BY <2>4 DEF TakeStray
  <2>5. CASE TimeOut(f)
    BY <2>5 DEF TimeOut
  <2> QED BY <1>2, <2>1, <2>2, <2>3, <2>4, <2>5 DEF User
<1>3. ASSUME NEW f \in Commands, Callback(f) PROVE CookieHasCommand' /\ LoginFindsCommand'
  <2>1. CASE Follow(f)
    BY <2>1 DEF Follow, Show
  <2>2. CASE TakeCertificate(f)
    BY <2>2 DEF TakeCertificate, Show
  <2>3. CASE Break(f)
    BY <2>3 DEF Break, Show
  <2> QED BY <1>3, <2>1, <2>2, <2>3 DEF Callback
<1>4. ASSUME NEW f \in Commands, Waiting(f) PROVE CookieHasCommand' /\ LoginFindsCommand'
  <2>1. CASE SignalStray(f)
    BY <2>1 DEF SignalStray
  <2>2. CASE Conclude(f)
    BY <2>2 DEF Conclude
  <2>3. ASSUME NEW h \in Commands, goal[h].callback = f, Signal(h) PROVE CookieHasCommand' /\ LoginFindsCommand'
    BY <2>3 DEF Signal, Show
  <2> QED BY <1>4, <2>1, <2>2, <2>3 DEF Waiting
<1>5. CASE UNCHANGED regVars
  BY <1>5 DEF regVars
<1> QED BY <1>1, <1>2, <1>3, <1>4, <1>5 DEF RegNext

LEMMA ToldStep ==
  ASSUME RegTypeOK, LoginFindsCommand, ToldIsDecided, SuccessHasCertificate, [RegNext]_regVars
  PROVE  ToldIsDecided' /\ SuccessHasCertificate'
<1> USE RegAssumption DEF RegTypeOK, ToldIsDecided, SuccessHasCertificate,
        LoginFindsCommand, pageVars, commandVars, Listening,
        Sessions
<1>1. ASSUME NEW f \in Commands, Server(f) PROVE ToldIsDecided' /\ SuccessHasCertificate'
  <2>1. CASE HandleRegister(f)
    BY <2>1 DEF HandleRegister, Show
  <2>2. CASE HandleLogin(f)
    BY <2>2 DEF HandleLogin, Show
  <2>3. CASE HandleCallback(f)
    BY <2>3 DEF HandleCallback, Show
  <2>4. CASE HandleOAuthDone(f)
    BY <2>4 DEF HandleOAuthDone, Show
  <2> QED BY <1>1, <2>1, <2>2, <2>3, <2>4 DEF Server
<1>2. ASSUME NEW f \in Commands, User(f) PROVE ToldIsDecided' /\ SuccessHasCertificate'
  <2>1. CASE Open(f)
    BY <2>1 DEF Open, Ask, Show
  <2>2. CASE Choose(f)
    BY <2>2 DEF Choose, Ask, Show
  <2>3. CASE Authorize(f)
    BY <2>3 DEF Authorize, Ask, Show
  <2>4. CASE TakeStray(f)
    BY <2>4 DEF TakeStray
  <2>5. CASE TimeOut(f)
    BY <2>5 DEF TimeOut
  <2> QED BY <1>2, <2>1, <2>2, <2>3, <2>4, <2>5 DEF User
<1>3. ASSUME NEW f \in Commands, Callback(f) PROVE ToldIsDecided' /\ SuccessHasCertificate'
  <2>1. CASE Follow(f)
    BY <2>1 DEF Follow, Show
  <2>2. CASE TakeCertificate(f)
    BY <2>2 DEF TakeCertificate, Show
  <2>3. CASE Break(f)
    BY <2>3 DEF Break, Show
  <2> QED BY <1>3, <2>1, <2>2, <2>3 DEF Callback
<1>4. ASSUME NEW f \in Commands, Waiting(f) PROVE ToldIsDecided' /\ SuccessHasCertificate'
  <2>1. CASE SignalStray(f)
    BY <2>1 DEF SignalStray
  <2>2. CASE Conclude(f)
    BY <2>2 DEF Conclude
  <2>3. ASSUME NEW h \in Commands, goal[h].callback = f, Signal(h) PROVE ToldIsDecided' /\ SuccessHasCertificate'
    BY <2>3 DEF Signal, Show
  <2> QED BY <1>4, <2>1, <2>2, <2>3 DEF Waiting
<1>5. CASE UNCHANGED regVars
  BY <1>5 DEF regVars
<1> QED BY <1>1, <1>2, <1>3, <1>4, <1>5 DEF RegNext

LEMMA InvStep == RegInv /\ [RegNext]_regVars => RegInv'
  BY TypeStep, FitStep, CookieStep, ToldStep DEF RegInv

-----------------------------------------------------------------------------
\* The invariant of the whole dance between browser, server and commands.
THEOREM RegInductive == RegSpec => []RegInv
<1>1. RegInit => RegInv
  BY InvInit
<1>2. RegInv /\ [RegNext]_regVars => RegInv'
  BY InvStep
<1> QED BY <1>1, <1>2, PTL DEF RegSpec

\* Whoever is about to tell a command has stored what it decided (main.go:338, 382).
THEOREM RegTypeCorrect == RegSpec => []RegTypeOK
<1>1. RegInv => RegTypeOK
  BY DEF RegInv
<1> QED BY RegInductive, <1>1, PTL

\* Address and token of a redirect are those of one command (oauth2.go:239).
THEOREM TokensFit == RegSpec => []TokenFitsAddress
<1>1. RegInv => TokenFitsAddress
  BY DEF RegInv, SessionsFit, Fits, TokenFitsAddress
<1> QED BY RegInductive, <1>1, PTL

\* No login ends without an address to go to (oauth2.go:452).
THEOREM LoginsFindCommand == RegSpec => []LoginFindsCommand
<1>1. RegInv => LoginFindsCommand
  BY DEF RegInv
<1> QED BY RegInductive, <1>1, PTL

\* A command that reports success has its certificate (main.go:421).
THEOREM SuccessIsCertified == RegSpec => []SuccessHasCertificate
<1>1. RegInv => SuccessHasCertificate
  BY DEF RegInv
<1> QED BY RegInductive, <1>1, PTL

-----------------------------------------------------------------------------
(* What the check of oauth_state is worth.                                 *)

\* Two numbers are not of one login; 0 is the number of none.
Apart(m, n) == m = n => m = 0

\* A redirect comes from a login, and no two tabs come from one: none is let
\* through on what another's user has agreed to.
LoginIsOwn ==
    \A f \in Commands :
        /\ tab[f] \in {"done", "leaving", "calling", "signalling"} => goal[f].login # 0
        /\ \A g \in Commands \ {f} : Apart(goal[f].login, goal[g].login)

\* Every oauth_state that a tab has, or had when it was let through, was drawn
\* for that tab.
StatesAreOwn ==
    \A f \in Commands :
        /\ nonce[f] <= logins /\ goal[f].login <= logins
        /\ tab[f] \in {"provider", "returning"} => nonce[f] # 0
        /\ \A g \in Commands \ {f} :
               Apart(nonce[f], nonce[g]) /\ Apart(goal[f].login, nonce[g])

LEMMA OwnStep ==
  ASSUME RegTypeOK, StatesAreOwn, LoginIsOwn, [RegNext]_regVars
  PROVE  StatesAreOwn' /\ LoginIsOwn'
<1> USE RegAssumption DEF RegTypeOK, StatesAreOwn, LoginIsOwn, Apart, Sessions, Tabs,
        pageVars, commandVars
<1>1. ASSUME NEW f \in Commands, HandleLogin(f)
      PROVE  StatesAreOwn' /\ LoginIsOwn'
  BY <1>1 DEF HandleLogin, Show
<1>2. ASSUME NEW f \in Commands, HandleCallback(f)
      PROVE  StatesAreOwn' /\ LoginIsOwn'
  <2>1. CASE goal' = [goal EXCEPT ![f] = sent[f]]
    BY <1>2, <2>1 DEF HandleCallback, Show
  <2>2. CASE UNCHANGED goal
    BY <1>2, <2>2 DEF HandleCallback, Show
  <2> QED BY <1>2, <2>1, <2>2 DEF HandleCallback
<1>3. ASSUME NEW f \in Commands, \/ HandleRegister(f) \/ HandleOAuthDone(f) \/ User(f)
                                 \/ Callback(f)
      PROVE  StatesAreOwn' /\ LoginIsOwn'
  <2>1. UNCHANGED <<nonce, goal, logins>>
    BY <1>3 DEF HandleRegister, HandleOAuthDone, User, Open, Choose, Authorize, TakeStray,
                TimeOut, Callback, Follow, TakeCertificate, Break
  <2>2. \A g \in Commands :
          /\ tab'[g] = "returning" => tab[g] \in {"provider", "returning"}
          /\ tab'[g] = "provider" => tab[g] = "provider"
          /\ tab'[g] \in {"done", "leaving", "calling", "signalling"}
             => tab[g] \in {"done", "leaving", "calling", "signalling"}
    BY <1>3 DEF HandleRegister, HandleOAuthDone, User, Open, Choose, Authorize, TakeStray,
                TimeOut, Callback, Follow, TakeCertificate, Break, Show, Ask
  <2> QED BY <2>1, <2>2
<1>4. ASSUME NEW f \in Commands, Waiting(f)
      PROVE  StatesAreOwn' /\ LoginIsOwn'
  <2>1. CASE SignalStray(f) \/ Conclude(f)
    BY <2>1 DEF SignalStray, Conclude
  <2>2. ASSUME NEW h \in Commands, Signal(h)
        PROVE  StatesAreOwn' /\ LoginIsOwn'
    BY <2>2 DEF Signal, Show
  <2> QED BY <1>4, <2>1, <2>2 DEF Waiting
<1>5. CASE UNCHANGED regVars
  BY <1>5 DEF regVars
<1> QED BY <1>1, <1>2, <1>3, <1>4, <1>5 DEF RegNext, Server

\* For any number of tabs and of logins begun again, a tab is let through once
\* its own login is done, although all have one cookie (oauth2.go:409).
THEOREM LoginsAreOwn == RegSpec => []LoginIsOwn
<1>1. RegInit => StatesAreOwn /\ LoginIsOwn
  BY RegAssumption DEF RegInit, StatesAreOwn, LoginIsOwn, Apart, NoSession
<1> QED
  BY <1>1, OwnStep, RegTypeCorrect, PTL DEF RegSpec
=============================================================================

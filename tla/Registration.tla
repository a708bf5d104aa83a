---------------------------- MODULE Registration ----------------------------
(***************************************************************************)
(* How `nxpose register` gets a certificate: the command waits for a       *)
(* callback on a port of its own and opens the browser, the server's       *)
(* OAuthService takes the browser to the provider and back, and the        *)
(* browser brings the certificate to the port.                             *)
(*                                                                         *)
(* The server keeps nothing of this: callback address, state token and     *)
(* oauth_state are in the session, which is the browser's cookie.  A       *)
(* request carries the cookie as it was when the browser sent it; the      *)
(* response replaces the cookie whole.  The commands of a user share one   *)
(* browser, and each has a tab in it.                                      *)
(***************************************************************************)
EXTENDS Naturals

CONSTANTS
    Commands,       \* runs of `nxpose register`; each has an address and a token
    NoCommand,
    Providers,      \* the providers that are configured
    MaxLogins       \* bound: how many logins are begun

ASSUME RegAssumption ==
    /\ NoCommand \notin Commands
    /\ MaxLogins \in Nat

VARIABLES
    cookie,         \* the session
    tab,            \* tab[f]: where the tab of f is
    sent,           \* sent[f]: the session its request carries
    nonce,          \* nonce[f]: the oauth_state it was sent to the provider with
    goal,           \* goal[f]: the address and token its redirect names
    logins,         \* how many oauth_states were drawn
    command,        \* command[g]: where registerWithOAuth is
    certified,      \* the commands whose certificate is set
    refused,        \* the commands whose callbackErr is set
    stray           \* stray[g]: another request to the callback address of g

pageVars == <<cookie, tab, sent, nonce, goal, logins>>
commandVars == <<command, certified, refused, stray>>
regVars == <<pageVars, commandVars>>

Sessions == [callback : Commands \cup {NoCommand}, state : Commands \cup {NoCommand}, login : 0..MaxLogins]
NoSession == [callback |-> NoCommand, state |-> NoCommand, login |-> 0]
Tabs == {"none", "registering", "page", "choosing", "provider", "returning", "done",
         "leaving", "calling", "signalling", "over", "error"}

\* Besides types: who is about to tell a command has decided on it before
\* (main.go:338, 382).
RegTypeOK ==
    /\ cookie \in Sessions /\ sent \in [Commands -> Sessions] /\ goal \in [Commands -> Sessions]
    /\ tab \in [Commands -> Tabs] /\ nonce \in [Commands -> 0..MaxLogins]
    /\ logins \in 0..MaxLogins
    /\ command \in [Commands -> {"new", "waiting", "told", "registered", "failed"}]
    /\ certified \subseteq Commands /\ refused \subseteq Commands
    /\ stray \in [Commands -> {"none", "signalling", "over"}]
    /\ \A f \in Commands :
           /\ tab[f] = "signalling" => goal[f].callback \in certified \cup refused
           /\ stray[f] = "signalling" => f \in refused

RegInit ==
    /\ cookie = NoSession /\ logins = 0
    /\ tab = [f \in Commands |-> "none"] /\ nonce = [f \in Commands |-> 0]
    /\ sent = [f \in Commands |-> NoSession] /\ goal = [f \in Commands |-> NoSession]
    /\ command = [f \in Commands |-> "new"]
    /\ certified = {} /\ refused = {}
    /\ stray = [f \in Commands |-> "none"]

Show(f, page) == tab' = [tab EXCEPT ![f] = page]

\* The browser sends a request from the tab of f, with the cookie it has.
Ask(f, page) == Show(f, page) /\ sent' = [sent EXCEPT ![f] = cookie]

-----------------------------------------------------------------------------
(* The server's pages.                                                     *)

\* Faulty: stores the address only, and leaves the token of another command.
HandleRegister_AddressOnly(f) ==
    /\ tab[f] = "registering"
    /\ cookie' = [sent[f] EXCEPT !.callback = f,
                                 !.state = IF @ = NoCommand THEN f ELSE @]
    /\ Show(f, "page")
    /\ UNCHANGED <<sent, nonce, goal, logins, commandVars>>

\* handleRegister stores the address and the token, and links to the providers.
HandleRegister(f) ==
    /\ tab[f] = "registering"
    /\ cookie' = [callback |-> f, state |-> f, login |-> sent[f].login]
    /\ Show(f, "page")
    /\ UNCHANGED <<sent, nonce, goal, logins, commandVars>>

\* The user follows a link, or comes back to follow it once more.
Choose(f) ==
    /\ Providers # {} /\ tab[f] \in {"page", "provider", "error"}
    /\ Ask(f, "choosing")
    /\ UNCHANGED <<cookie, nonce, goal, logins, commandVars>>

\* Faulty: a login begins a session of its own.
HandleLogin_NewSession(f) ==
    /\ tab[f] = "choosing" /\ logins < MaxLogins
    /\ logins' = logins + 1
    /\ cookie' = [NoSession EXCEPT !.login = logins + 1]
    /\ nonce' = [nonce EXCEPT ![f] = logins + 1]
    /\ Show(f, "provider")
    /\ UNCHANGED <<sent, goal, commandVars>>

\* handleLogin draws an oauth_state.
HandleLogin(f) ==
    /\ tab[f] = "choosing" /\ logins < MaxLogins
    /\ logins' = logins + 1
    /\ cookie' = [callback |-> sent[f].callback, state |-> sent[f].state, login |-> logins + 1]
    /\ nonce' = [nonce EXCEPT ![f] = logins + 1]
    /\ Show(f, "provider")
    /\ UNCHANGED <<sent, goal, commandVars>>

\* The provider sends the browser back.
Authorize(f) ==
    /\ tab[f] = "provider"
    /\ Ask(f, "returning")
    /\ UNCHANGED <<cookie, nonce, goal, logins, commandVars>>

\* handleCallback compares the oauth_state and asks the provider for the user,
\* which may fail; then it redirects, with what the session has of the command.
HandleCallback(f) ==
    /\ tab[f] = "returning"
    /\ \/ /\ sent[f].login = nonce[f]
          /\ goal' = [goal EXCEPT ![f] = sent[f]]
          /\ Show(f, "done")
       \/ /\ Show(f, "error")
          /\ UNCHANGED goal
    /\ UNCHANGED <<cookie, sent, nonce, logins, commandVars>>

\* handleOAuthDone makes a certificate, which may fail; without an address it
\* has only the user's data to show.
HandleOAuthDone(f) ==
    /\ tab[f] = "done"
    /\ \/ Show(f, IF goal[f].callback = NoCommand THEN "over" ELSE "leaving")
       \/ Show(f, "error")
    /\ UNCHANGED <<cookie, sent, nonce, goal, logins, commandVars>>

-----------------------------------------------------------------------------
(* The command, registerWithOAuth, and its handler of /callback.           *)

\* It listens, and opens the browser; without a browser it fails.
Open(f) ==
    /\ command[f] = "new"
    /\ \/ /\ command' = [command EXCEPT ![f] = "waiting"]
          /\ Ask(f, "registering")
       \/ /\ command' = [command EXCEPT ![f] = "failed"]
          /\ UNCHANGED <<tab, sent>>
    /\ UNCHANGED <<cookie, nonce, goal, logins, certified, refused, stray>>

Listening(g) == command[g] \in {"waiting", "told"}

\* The browser follows the redirect, or finds nobody.
Follow(f) ==
    /\ tab[f] = "leaving"
    /\ Show(f, IF Listening(goal[f].callback) THEN "calling" ELSE "over")
    /\ UNCHANGED <<cookie, sent, nonce, goal, logins, commandVars>>

\* Faulty: goes on to tell the command before the certificate is stored.
TakeCertificate_Late(f) ==
    /\ tab[f] = "calling" /\ Listening(goal[f].callback)
    /\ Show(f, "signalling")
    /\ UNCHANGED <<cookie, sent, nonce, goal, logins, commandVars>>

\* The handler compares the token and stores certificate or callbackErr.
TakeCertificate(f) ==
    LET g == goal[f].callback IN
    /\ tab[f] = "calling" /\ Listening(g)
    /\ IF goal[f].state = g THEN certified' = certified \cup {g} /\ UNCHANGED refused
       ELSE refused' = refused \cup {g} /\ UNCHANGED certified
    /\ Show(f, "signalling")
    /\ UNCHANGED <<cookie, sent, nonce, goal, logins, command, stray>>

\* Faulty: a refused request does not tell the command.
TakeStray_Silent(g) ==
    /\ Listening(g) /\ stray[g] = "none"
    /\ refused' = refused \cup {g}
    /\ stray' = [stray EXCEPT ![g] = "over"]
    /\ UNCHANGED <<pageVars, command, certified>>

\* A request with another token, or none, is refused.  One at a time stands for
\* all: the second changes nothing that the first has not.
TakeStray(g) ==
    /\ Listening(g) /\ stray[g] # "signalling"
    /\ refused' = refused \cup {g}
    /\ stray' = [stray EXCEPT ![g] = "signalling"]
    /\ UNCHANGED <<pageVars, command, certified>>

\* A handler and the command meet in callbackDone.
Signal(f) ==
    LET g == goal[f].callback IN
    /\ tab[f] = "signalling" /\ command[g] = "waiting"
    /\ command' = [command EXCEPT ![g] = "told"]
    /\ Show(f, "over")
    /\ UNCHANGED <<cookie, sent, nonce, goal, logins, certified, refused, stray>>

SignalStray(g) ==
    /\ stray[g] = "signalling" /\ command[g] = "waiting"
    /\ command' = [command EXCEPT ![g] = "told"]
    /\ stray' = [stray EXCEPT ![g] = "over"]
    /\ UNCHANGED <<pageVars, certified, refused>>

\* The command looks at callbackErr, returns, and ends.
Conclude(g) ==
    /\ command[g] = "told"
    /\ command' = [command EXCEPT ![g] = IF g \in refused THEN "failed" ELSE "registered"]
    /\ UNCHANGED <<pageVars, certified, refused, stray>>

\* Five minutes have passed.
TimeOut(g) ==
    /\ command[g] = "waiting"
    /\ command' = [command EXCEPT ![g] = "failed"]
    /\ UNCHANGED <<pageVars, certified, refused, stray>>

\* With the process its handlers are gone.
Break(f) ==
    /\ tab[f] \in {"calling", "signalling"} /\ ~Listening(goal[f].callback)
    /\ Show(f, "over")
    /\ UNCHANGED <<cookie, sent, nonce, goal, logins, commandVars>>

-----------------------------------------------------------------------------
Server(f) ==
    HandleRegister(f) \/ HandleLogin(f) \/ HandleCallback(f) \/ HandleOAuthDone(f)

User(f) == Open(f) \/ Choose(f) \/ Authorize(f) \/ TakeStray(f) \/ TimeOut(f)

Callback(f) == Follow(f) \/ TakeCertificate(f) \/ Break(f)

Waiting(g) == SignalStray(g) \/ Conclude(g) \/ \E f \in Commands : goal[f].callback = g /\ Signal(f)

RegNext == \E f \in Commands : Server(f) \/ User(f) \/ Callback(f) \/ Waiting(f)

RegSpec == RegInit /\ [][RegNext]_regVars

\* What waits for nobody but the server, the browser or a goroutine goes on.
RegFairness ==
    \A f \in Commands :
        WF_regVars(Server(f)) /\ WF_regVars(Callback(f)) /\ WF_regVars(Waiting(f))

-----------------------------------------------------------------------------
(* Properties.                                                             *)

\* The address and the token that a redirect names are those of one command,
\* whichever tab has written the cookie last, so that no command refuses what
\* the server sends it (main.go:337, oauth2.go:239).
TokenFitsAddress == \A f \in Commands : goal[f].state = goal[f].callback

\* Who has logged in is sent to a command: whatever requests of other tabs were
\* under way, none puts back a cookie without an address (oauth2.go:452).
LoginFindsCommand ==
    \A f \in Commands :
        tab[f] \in {"done", "leaving", "calling", "signalling"} => goal[f].callback # NoCommand

\* A command that reports success has a certificate to show, though a refused
\* request and the redirect may come at once (main.go:421).
SuccessHasCertificate ==
    \A g \in Commands : command[g] = "registered" => g \in certified

\* What a handler has decided ends the wait, without the five minutes, although
\* only one handler of several gets to tell the command (main.go:416).
DecisionEndsWait ==
    \A g \in Commands :
        g \in certified \cup refused ~> command[g] \in {"registered", "failed"}
=============================================================================

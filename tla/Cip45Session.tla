----------------------------- MODULE Cip45Session -----------------------------
(***************************************************************************)
(* The CIP-45 wallet endpoint: example/lib/cip45_screen.dart connects a    *)
(* BugoutCip45Transport (example/lib/cip45_transport.dart) to a dApp and   *)
(* serves its requests through Cip45WalletHandler (dart/lib/src/cip45).    *)
(* Connecting takes four awaits: the WebView is created, its page signals  *)
(* 'ready', a script starts bugout, the script's result comes back.        *)
(* Between any two of them the user may leave the screen, and callbacks    *)
(* that setState then throw.  Requests are handled concurrently.           *)
(***************************************************************************)
EXTENDS Integers

CONSTANTS
    Screens,      \* the Cip45Screens, numbered in the order they are opened
    Transports,   \* the BugoutCip45Transports created
    NoTransport,  \* null
    Requests      \* the requests the dApps send

ASSUME Cip45Assumption == Screens \subseteq Int /\ NoTransport \notin Transports

VARIABLES
    shown,       \* whether each screen is on display
    wallet,      \* _handler: being built, there, or never
    connecting,  \* _connecting
    held,        \* _transport
    pc,          \* where its _connect or _disconnect is
    cur,         \* the transport that _connect is starting
    owner,       \* the screen each transport was created by
    stage,       \* the transport's WebView and the bugout node in it
    page,        \* whether the WebView's page has loaded
    ready,       \* whether _ready is completed
    via,         \* the transport each request was sent to
    asked,       \* how far the request is
    outcome,     \* what the wallet did for it
    answer       \* what the dApp was told

screenVars == <<shown, wallet, connecting, held, pc, cur>>
transportVars == <<owner, stage, page, ready>>
requestVars == <<via, asked, outcome, answer>>
vars == <<screenVars, transportVars, requestVars>>

TypeOK ==
    /\ shown \in [Screens -> {"new", "open", "left"}]
    /\ wallet \in [Screens -> {"building", "built", "failed"}]
    /\ connecting \in [Screens -> BOOLEAN]
    /\ held \in [Screens -> Transports \cup {NoTransport}]
    /\ pc \in [Screens -> {"idle", "run", "ready", "eval", "started", "disconnect"}]
    /\ cur \in [Screens -> Transports \cup {NoTransport}]
    /\ owner \in [Transports -> Screens]
    /\ stage \in [Transports -> {"new", "created", "loading", "announcing",
                                 "connected", "closing", "closed"}]
    /\ page \in [Transports -> BOOLEAN]
    /\ ready \in [Transports -> BOOLEAN]
    /\ via \in [Requests -> Transports \cup {NoTransport}]
    /\ asked \in [Requests -> {"unsent", "sent", "handling", "answered"}]
    /\ outcome \in [Requests -> {"none", "done", "threw"}]
    /\ answer \in [Requests -> {"none", "ok", "error"}]

Init ==
    /\ shown = [s \in Screens |-> "new"]
    /\ wallet = [s \in Screens |-> "building"]
    /\ connecting = [s \in Screens |-> FALSE]
    /\ held = [s \in Screens |-> NoTransport]
    /\ pc = [s \in Screens |-> "idle"]
    /\ cur = [s \in Screens |-> NoTransport]
    /\ owner \in [Transports -> Screens]   \* which screen will create it
    /\ stage = [t \in Transports |-> "new"]
    /\ page = [t \in Transports |-> FALSE]
    /\ ready = [t \in Transports |-> FALSE]
    /\ via = [r \in Requests |-> NoTransport]
    /\ asked = [r \in Requests |-> "unsent"]
    /\ outcome = [r \in Requests |-> "none"]
    /\ answer = [r \in Requests |-> "none"]

\* Otherwise the State has been disposed, and setState throws.
Mounted(s) == shown[s] = "open"

\* The screen the user sees and touches.
OnTop(s) == Mounted(s) /\ \A t \in Screens : t > s => ~Mounted(t)

-----------------------------------------------------------------------------
(* The screen's life.                                                      *)

\* A menu entry opens the first screen; a link from another app may open the
\* next one on top of it.  initState starts _init.
Open(s) ==
    /\ shown[s] = "new"
    /\ \A t \in Screens : t < s => shown[t] # "new"
    /\ shown' = [shown EXCEPT ![s] = "open"]
    /\ UNCHANGED <<wallet, connecting, held, pc, cur, transportVars, requestVars>>

\* Cip30Wallet.fromMnemonic returns or throws.
InitEnds(s) ==
    /\ Mounted(s) /\ wallet[s] = "building"
    /\ \E w \in {"built", "failed"} : wallet' = [wallet EXCEPT ![s] = w]
    /\ UNCHANGED <<shown, connecting, held, pc, cur, transportVars, requestVars>>

\* close(): the disposal of the WebView begins.
Closing(t) ==
    stage' = IF t # NoTransport /\ stage[t] # "closed"
             THEN [stage EXCEPT ![t] = "closing"] ELSE stage

\* Mutant of Leave: dispose does not close the transport.
LeaveOpen(s) ==
    /\ OnTop(s)
    /\ shown' = [shown EXCEPT ![s] = "left"]
    /\ UNCHANGED <<wallet, connecting, held, pc, cur, transportVars, requestVars>>

\* dispose: closes the transport that _transport holds.
Leave(s) ==
    /\ OnTop(s)
    /\ shown' = [shown EXCEPT ![s] = "left"]
    /\ Closing(held[s])
    /\ UNCHANGED <<wallet, connecting, held, pc, cur, owner, page, ready, requestVars>>

-----------------------------------------------------------------------------
(* _connect and BugoutCip45Transport.start.                                *)

\* Mutant of CanConnect: the button stays enabled while connecting.
CanConnectTwice(s) == OnTop(s) /\ wallet[s] # "building" /\ held[s] = NoTransport

\* The Connect and Scan buttons of build.
CanConnect(s) ==
    /\ OnTop(s) /\ wallet[s] # "building"
    /\ held[s] = NoTransport
    /\ ~connecting[s]

\* A valid URI: setState, then a new transport is started.
Connect(s, t) ==
    /\ CanConnect(s)
    /\ wallet[s] = "built"
    /\ stage[t] = "new" /\ owner[t] = s
    /\ connecting' = [connecting EXCEPT ![s] = TRUE]
    /\ stage' = [stage EXCEPT ![t] = "created"]
    /\ cur' = [cur EXCEPT ![s] = t]
    /\ pc' = [pc EXCEPT ![s] = "run"]
    /\ UNCHANGED <<shown, wallet, held, owner, page, ready, requestVars>>

\* _handler! throws, outside the try block.
ConnectWithoutWallet(s) ==
    /\ CanConnect(s)
    /\ wallet[s] = "failed"
    /\ connecting' = [connecting EXCEPT ![s] = TRUE]
    /\ UNCHANGED <<shown, wallet, held, pc, cur, transportVars, requestVars>>

\* The catch clause; its own setState throws when the screen was left.
Abandoned(s) ==
    /\ pc' = [pc EXCEPT ![s] = "idle"]
    /\ cur' = [cur EXCEPT ![s] = NoTransport]
    /\ connecting' = IF Mounted(s) THEN [connecting EXCEPT ![s] = FALSE] ELSE connecting

\* run() returns: the WebView loads its page.
RunEnds(s) ==
    /\ pc[s] = "run"
    /\ stage' = [stage EXCEPT ![cur[s]] = "loading"]
    /\ pc' = [pc EXCEPT ![s] = "ready"]
    /\ UNCHANGED <<shown, wallet, connecting, held, cur, owner, page, ready, requestVars>>

\* The WebView cannot be created, or the script cannot be evaluated.  The
\* transport is not closed.
StartFails(s) ==
    /\ pc[s] \in {"run", "eval"}
    /\ Abandoned(s)
    /\ UNCHANGED <<shown, wallet, held, transportVars, requestVars>>

\* The page signals 'ready': onStatus, which throws once the screen was left,
\* comes before the completion of _ready.
PageLoads(t) ==
    /\ stage[t] = "loading" /\ ~page[t]
    /\ page' = [page EXCEPT ![t] = TRUE]
    /\ ready' = [ready EXCEPT ![t] = Mounted(owner[t])]
    /\ UNCHANGED <<screenVars, owner, stage, requestVars>>

PageReady(s) ==
    /\ pc[s] = "ready" /\ ready[cur[s]]
    /\ pc' = [pc EXCEPT ![s] = "eval"]
    /\ UNCHANGED <<shown, wallet, connecting, held, cur, transportVars, requestVars>>

\* Mutant of ReadyTimeout: _ready is awaited without a timeout.
ReadyTimeoutNever(s) == pc[s] = "ready" /\ ~ready[cur[s]] /\ UNCHANGED vars

\* 20 s have passed: onTimeout logs, which throws once the screen was left;
\* otherwise start goes on as if the page were ready.
ReadyTimeout(s) ==
    /\ pc[s] = "ready" /\ ~ready[cur[s]]
    /\ \/ Mounted(s) /\ pc' = [pc EXCEPT ![s] = "eval"] /\ UNCHANGED <<connecting, cur>>
       \/ ~Mounted(s) /\ Abandoned(s)
    /\ UNCHANGED <<shown, wallet, held, transportVars, requestVars>>

\* startBugout runs, if the page that defines it has loaded; an exception in it
\* becomes a status line.
RunScript(s) ==
    /\ pc[s] = "eval"
    /\ \/ page[cur[s]] /\ stage' = [stage EXCEPT ![cur[s]] = "announcing"]
       \/ UNCHANGED stage
    /\ pc' = [pc EXCEPT ![s] = "started"]
    /\ UNCHANGED <<shown, wallet, connecting, held, cur, owner, page, ready, requestVars>>

\* start() has returned: only now does the screen know its transport.
Started(s) ==
    /\ pc[s] = "started"
    /\ Abandoned(s)
    /\ held' = IF Mounted(s) THEN [held EXCEPT ![s] = cur[s]] ELSE held
    /\ UNCHANGED <<shown, wallet, transportVars, requestVars>>

-----------------------------------------------------------------------------
(* _disconnect.                                                            *)

\* Mutant of Disconnect: the transport is dropped, not closed.
DisconnectDrops(s) ==
    /\ OnTop(s) /\ held[s] # NoTransport /\ pc[s] = "idle"
    /\ held' = [held EXCEPT ![s] = NoTransport]
    /\ UNCHANGED <<shown, wallet, connecting, pc, cur, transportVars, requestVars>>

\* A second tap while the WebView is being disposed of disposes of it again,
\* which changes nothing.
Disconnect(s) ==
    /\ OnTop(s) /\ held[s] # NoTransport /\ pc[s] = "idle"
    /\ Closing(held[s])
    /\ pc' = [pc EXCEPT ![s] = "disconnect"]
    /\ UNCHANGED <<shown, wallet, connecting, held, cur, owner, page, ready, requestVars>>

Disposed(t) ==
    /\ stage[t] = "closing"
    /\ stage' = [stage EXCEPT ![t] = "closed"]
    /\ UNCHANGED <<screenVars, owner, page, ready, requestVars>>

DisconnectEnds(s) ==
    /\ pc[s] = "disconnect" /\ stage[held[s]] = "closed"
    /\ pc' = [pc EXCEPT ![s] = "idle"]
    /\ held' = IF Mounted(s) THEN [held EXCEPT ![s] = NoTransport] ELSE held
    /\ UNCHANGED <<shown, wallet, connecting, cur, transportVars, requestVars>>

-----------------------------------------------------------------------------
(* The dApp's requests.                                                    *)

\* bugout finds the dApp and announces the API to it.
PeerFound(t) ==
    /\ stage[t] = "announcing"
    /\ stage' = [stage EXCEPT ![t] = "connected"]
    /\ UNCHANGED <<screenVars, owner, page, ready, requestVars>>

Ask(r, t) ==
    /\ asked[r] = "unsent" /\ stage[t] = "connected"
    /\ asked' = [asked EXCEPT ![r] = "sent"]
    /\ via' = [via EXCEPT ![r] = t]
    /\ UNCHANGED <<screenVars, transportVars, outcome, answer>>

AskedOn(r) == Mounted(owner[via[r]])

\* Mutant of Called: the request is not logged before it is handled.
CalledUnlogged(r) ==
    /\ asked[r] = "sent" /\ stage[via[r]] \in {"connected", "closing"}
    /\ asked' = [asked EXCEPT ![r] = "handling"]
    /\ UNCHANGED <<screenVars, transportVars, via, outcome, answer>>

\* The 'rpc' callback: the screen's handler logs first, which throws once the
\* screen was left; the exception becomes the answer.
Called(r) ==
    /\ asked[r] = "sent" /\ stage[via[r]] \in {"connected", "closing"}
    /\ \/ /\ AskedOn(r)
          /\ asked' = [asked EXCEPT ![r] = "handling"]
          /\ UNCHANGED answer
       \/ /\ ~AskedOn(r)
          /\ asked' = [asked EXCEPT ![r] = "answered"]
          /\ answer' = [answer EXCEPT ![r] = "error"]
    /\ UNCHANGED <<screenVars, transportVars, via, outcome>>

\* handleRequest: the wallet has done what was asked, or throws (an unknown
\* method, a missing parameter, a network error).
Handled(r) ==
    /\ asked[r] = "handling" /\ outcome[r] = "none"
    /\ \E o \in {"done", "threw"} : outcome' = [outcome EXCEPT ![r] = o]
    /\ UNCHANGED <<screenVars, transportVars, via, asked, answer>>

\* Mutant of Reply: an exception is answered like a result.
ReplyOk(r) ==
    /\ outcome[r] # "none" /\ asked[r] = "handling"
    /\ asked' = [asked EXCEPT ![r] = "answered"]
    /\ answer' = IF stage[via[r]] = "closed" THEN answer
                 ELSE [answer EXCEPT ![r] = "ok"]
    /\ UNCHANGED <<screenVars, transportVars, via, outcome>>

\* The result is logged and enveloped; it reaches the dApp if the WebView lives.
Reply(r) ==
    /\ outcome[r] # "none" /\ asked[r] = "handling"
    /\ asked' = [asked EXCEPT ![r] = "answered"]
    /\ answer' = IF stage[via[r]] = "closed" THEN answer
                 ELSE [answer EXCEPT ![r] = IF outcome[r] = "done" /\ AskedOn(r)
                                            THEN "ok" ELSE "error"]
    /\ UNCHANGED <<screenVars, transportVars, via, outcome>>

-----------------------------------------------------------------------------

Starting(s) == \/ RunEnds(s) \/ StartFails(s) \/ PageReady(s) \/ ReadyTimeout(s)
               \/ RunScript(s) \/ Started(s)

User(s) == \/ Open(s) \/ Leave(s) \/ Disconnect(s) \/ ConnectWithoutWallet(s)
           \/ \E t \in Transports : Connect(s, t)

Next == \/ \E s \in Screens : User(s) \/ InitEnds(s) \/ Starting(s) \/ DisconnectEnds(s)
        \/ \E t \in Transports : PageLoads(t) \/ Disposed(t) \/ PeerFound(t)
        \/ \E r \in Requests : Called(r) \/ Handled(r) \/ Reply(r)
                               \/ \E t \in Transports : Ask(r, t)

Spec == Init /\ [][Next]_vars

\* The platform finishes what it was asked to do, and the 20 s timer runs.  The
\* page may never load, the dApp may never come, the user owes nothing.
FairSpec ==
    /\ Spec
    /\ \A s \in Screens : WF_vars(Starting(s)) /\ WF_vars(DisconnectEnds(s))
    /\ \A t \in Transports : WF_vars(Disposed(t))

-----------------------------------------------------------------------------
(* Properties.                                                             *)

\* bugout runs in the transport's WebView and may serve a dApp.
Live(t) == stage[t] \in {"announcing", "connected"}

\* A screen that was not left knows its live transport: it holds it, or is just
\* about to.  So it has at most one, and Disconnect and dispose reach it.
OpenKnowsLive ==
    \A t \in Transports :
        Live(t) /\ Mounted(owner[t]) => t \in {held[owner[t]], cur[owner[t]]}

\* The wallet does something for a dApp only if the request arrived before its
\* screen was left: a transport that outlives its screen serves nothing.
OutlivingServesNothing ==
    [][\A r \in Requests :
          asked[r] = "sent" /\ ~AskedOn(r) => outcome'[r] = "none"
                                              /\ asked'[r] # "handling"]_vars

\* Leaving the screen closes the connection, unless it was just being started.
LeftIsClosed ==
    \A s \in Screens, t \in Transports :
        (shown[s] = "left" /\ held[s] = t) ~> stage[t] = "closed"

\* Connecting ends, whatever the page does, if there is a wallet.
ConnectEnds ==
    \A s \in Screens :
        (connecting[s] /\ wallet[s] = "built") ~> (~connecting[s] \/ shown[s] = "left")

-----------------------------------------------------------------------------
(* The inductive invariant.                                                *)

\* What a running _connect or _disconnect has under its hands.
ScreenInv ==
    \A s \in Screens :
        /\ pc[s] \in {"run", "ready", "eval", "started"} =>
              /\ cur[s] # NoTransport /\ owner[cur[s]] = s
              /\ Mounted(s) => connecting[s]
              /\ held[s] = NoTransport
        /\ pc[s] \in {"idle", "disconnect"} => cur[s] = NoTransport
        /\ pc[s] = "disconnect" => held[s] # NoTransport
        /\ shown[s] = "new" => pc[s] = "idle" /\ held[s] = NoTransport /\ ~connecting[s]
        /\ wallet[s] = "building" => ~connecting[s]
        /\ held[s] # NoTransport => owner[held[s]] = s
        /\ wallet[s] = "built" /\ Mounted(s) /\ connecting[s] => cur[s] # NoTransport

\* How far a transport is while it is being started, and whose it is.
StageInv ==
    /\ \A s \in Screens :
        /\ pc[s] = "run" => stage[cur[s]] = "created"
        /\ pc[s] \in {"ready", "eval"} => stage[cur[s]] = "loading"
        /\ pc[s] = "started" => stage[cur[s]] # "new"
        /\ held[s] # NoTransport => stage[held[s]] # "new"
    /\ \A t \in Transports :
        stage[t] # "new" => shown[owner[t]] # "new" /\ wallet[owner[t]] = "built"

\* Request and answer correspond (docs/FEATURE_VERIFICATION_LEDGER.md:255-257):
\* "ok" only for what was done, and an error for something that was done only if
\* the user left the screen meanwhile.
RequestInv ==
    \A r \in Requests :
        /\ asked[r] = "unsent" <=> via[r] = NoTransport
        /\ asked[r] \in {"unsent", "sent"} => outcome[r] = "none"
        /\ asked[r] # "answered" => answer[r] = "none"
        /\ asked[r] # "unsent" => stage[via[r]] # "new"
        /\ answer[r] = "ok" => outcome[r] = "done"
        /\ answer[r] = "error" /\ outcome[r] = "done" => ~AskedOn(r)

Inv == TypeOK /\ ScreenInv /\ StageInv /\ RequestInv /\ OpenKnowsLive
=============================================================================

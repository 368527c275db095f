-------------------------- MODULE Cip45SessionProofs --------------------------
(***************************************************************************)
(* Proofs about the CIP-45 endpoint: the invariant that ties the screen,   *)
(* the transport and the requests together, and that a transport which     *)
(* outlives its screen serves nothing.                                     *)
(***************************************************************************)
EXTENDS Cip45Session, TLAPS

\* Before the first screen is opened.
LEMMA InitInv == Init => Inv
BY Cip45Assumption DEF Init, Inv, TypeOK, ScreenInv, StageInv, RequestInv,
   OpenKnowsLive, Live, Mounted, AskedOn

\* The user opens, leaves, connects and disconnects.
LEMMA UserStep ==
    ASSUME Inv, NEW s \in Screens, User(s)
    PROVE  Inv'
<1> USE Cip45Assumption DEF Mounted, OnTop
<1>1. CASE Open(s)
  <2>1. TypeOK' BY <1>1 DEF Inv, TypeOK, Open, transportVars, requestVars
  <2>2. ScreenInv' BY <1>1 DEF Inv, TypeOK, ScreenInv, Open, transportVars
  <2>3. StageInv' BY <1>1 DEF Inv, TypeOK, StageInv, Open, transportVars
  <2>4. RequestInv' BY <1>1 DEF Inv, TypeOK, StageInv, RequestInv, AskedOn, Open,
                                transportVars, requestVars
  <2>5. OpenKnowsLive' BY <1>1 DEF Inv, TypeOK, StageInv, OpenKnowsLive, Live, Open,
                                   transportVars
  <2> QED BY <2>1, <2>2, <2>3, <2>4, <2>5 DEF Inv
<1>2. CASE Leave(s)
  <2>1. TypeOK' BY <1>2 DEF Inv, TypeOK, Leave, Closing, requestVars
  <2>2. ScreenInv' BY <1>2 DEF Inv, TypeOK, ScreenInv, Leave
  <2>3. StageInv' BY <1>2 DEF Inv, TypeOK, ScreenInv, StageInv, Leave, Closing
  <2>4. RequestInv' BY <1>2 DEF Inv, TypeOK, ScreenInv, RequestInv, AskedOn, Leave,
                                Closing, requestVars
  <2>5. OpenKnowsLive' BY <1>2 DEF Inv, TypeOK, OpenKnowsLive, Live, Leave, Closing
  <2> QED BY <2>1, <2>2, <2>3, <2>4, <2>5 DEF Inv
<1>3. CASE Disconnect(s)
  <2>1. TypeOK' BY <1>3 DEF Inv, TypeOK, Disconnect, Closing, requestVars
  <2>2. ScreenInv' BY <1>3 DEF Inv, TypeOK, ScreenInv, Disconnect
  <2>3. StageInv' BY <1>3 DEF Inv, TypeOK, ScreenInv, StageInv, Disconnect, Closing
  <2>4. RequestInv' BY <1>3 DEF Inv, TypeOK, RequestInv, AskedOn, Disconnect,
                                Closing, requestVars
  <2>5. OpenKnowsLive' BY <1>3 DEF Inv, TypeOK, OpenKnowsLive, Live, Disconnect, Closing
  <2> QED BY <2>1, <2>2, <2>3, <2>4, <2>5 DEF Inv
<1>4. CASE ConnectWithoutWallet(s)
  <2>1. TypeOK' BY <1>4 DEF Inv, TypeOK, ConnectWithoutWallet, transportVars, requestVars
  <2>2. ScreenInv' BY <1>4 DEF Inv, TypeOK, ScreenInv, ConnectWithoutWallet, CanConnect,
                               transportVars
  <2>3. StageInv' /\ RequestInv'
    BY <1>4 DEF Inv, StageInv, RequestInv, AskedOn, ConnectWithoutWallet,
                transportVars, requestVars
  <2>4. OpenKnowsLive' BY <1>4 DEF Inv, OpenKnowsLive, Live, ConnectWithoutWallet,
                                   transportVars
  <2> QED BY <2>1, <2>2, <2>3, <2>4 DEF Inv
<1>5. ASSUME NEW t \in Transports, Connect(s, t) PROVE Inv'
  <2>1. pc[s] = "idle" /\ cur[s] = NoTransport
    BY <1>5 DEF Inv, TypeOK, ScreenInv, Connect, CanConnect
  <2>2. TypeOK' BY <1>5 DEF Inv, TypeOK, Connect, requestVars
  <2>3. ScreenInv' BY <1>5, <2>1 DEF Inv, TypeOK, ScreenInv, Connect, CanConnect
  <2>4. StageInv' BY <1>5, <2>1 DEF Inv, TypeOK, ScreenInv, StageInv, Connect, CanConnect
  <2>5. RequestInv' BY <1>5 DEF Inv, TypeOK, RequestInv, AskedOn, Connect, CanConnect,
                                requestVars
  <2>6. OpenKnowsLive' BY <1>5, <2>1 DEF Inv, TypeOK, OpenKnowsLive, Live, Connect,
                                         CanConnect
  <2> QED BY <2>2, <2>3, <2>4, <2>5, <2>6 DEF Inv
<1> QED BY <1>1, <1>2, <1>3, <1>4, <1>5 DEF User

\* start() goes on, and _connect with it.
LEMMA StartingStep ==
    ASSUME Inv, NEW s \in Screens, Starting(s)
    PROVE  Inv'
<1> USE Cip45Assumption DEF Mounted, OnTop
<1>1. CASE RunEnds(s)
  <2>1. TypeOK' BY <1>1 DEF Inv, TypeOK, RunEnds, requestVars
  <2>2. ScreenInv' BY <1>1 DEF Inv, TypeOK, ScreenInv, RunEnds
  <2>3. StageInv' BY <1>1 DEF Inv, TypeOK, ScreenInv, StageInv, RunEnds
  <2>4. RequestInv' BY <1>1 DEF Inv, TypeOK, RequestInv, AskedOn, RunEnds, requestVars
  <2>5. OpenKnowsLive' BY <1>1 DEF Inv, TypeOK, OpenKnowsLive, Live, RunEnds
  <2> QED BY <2>1, <2>2, <2>3, <2>4, <2>5 DEF Inv
<1>2. CASE StartFails(s)
  <2>1. TypeOK' BY <1>2 DEF Inv, TypeOK, StartFails, Abandoned, transportVars, requestVars
  <2>2. ScreenInv' BY <1>2 DEF Inv, TypeOK, ScreenInv, StartFails, Abandoned, transportVars
  <2>3. StageInv' /\ RequestInv'
    BY <1>2 DEF Inv, TypeOK, StageInv, RequestInv, AskedOn, StartFails, Abandoned,
                transportVars, requestVars
  <2>4. OpenKnowsLive' BY <1>2 DEF Inv, TypeOK, ScreenInv, StageInv, OpenKnowsLive, Live,
                                   StartFails, Abandoned, transportVars
  <2> QED BY <2>1, <2>2, <2>3, <2>4 DEF Inv
<1>3. CASE PageReady(s)
  <2>1. TypeOK' BY <1>3 DEF Inv, TypeOK, PageReady, transportVars, requestVars
  <2>2. ScreenInv' BY <1>3 DEF Inv, TypeOK, ScreenInv, PageReady, transportVars
  <2>3. StageInv' /\ RequestInv' /\ OpenKnowsLive'
    BY <1>3 DEF Inv, TypeOK, StageInv, RequestInv, OpenKnowsLive, Live, AskedOn,
                PageReady, transportVars, requestVars
  <2> QED BY <2>1, <2>2, <2>3 DEF Inv
<1>4. CASE ReadyTimeout(s)
  <2>1. TypeOK' BY <1>4 DEF Inv, TypeOK, ReadyTimeout, Abandoned, transportVars, requestVars
  <2>2. ScreenInv' BY <1>4 DEF Inv, TypeOK, ScreenInv, ReadyTimeout, Abandoned,
                               transportVars
  <2>3. StageInv' /\ RequestInv'
    BY <1>4 DEF Inv, TypeOK, StageInv, RequestInv, AskedOn, ReadyTimeout, Abandoned,
                transportVars, requestVars
  <2>4. cur[s] # NoTransport /\ ~Live(cur[s]) /\ owner[cur[s]] = s
    BY <1>4 DEF Inv, TypeOK, ScreenInv, StageInv, Live, ReadyTimeout
  <2>5. cur' = cur \/ cur' = [cur EXCEPT ![s] = NoTransport]
    BY <1>4 DEF ReadyTimeout, Abandoned
  <2>6. UNCHANGED <<shown, held, stage, owner>> BY <1>4 DEF ReadyTimeout, transportVars
  <2>7. ASSUME NEW t \in Transports, Live(t), Mounted(owner[t])
        PROVE  t \in {held[owner[t]], cur'[owner[t]]}
    <3>1. t \in {held[owner[t]], cur[owner[t]]} BY <2>7 DEF Inv, OpenKnowsLive
    <3>2. CASE owner[t] = s BY <2>4, <2>7, <3>1, <3>2
    <3>3. CASE owner[t] # s
      <4>1. owner[t] \in Screens /\ cur \in [Screens -> Transports \cup {NoTransport}]
        BY DEF Inv, TypeOK
      <4>2. cur'[owner[t]] = cur[owner[t]] BY <2>5, <3>3, <4>1
      <4> QED BY <3>1, <4>2
    <3> QED BY <3>2, <3>3
  <2>8. OpenKnowsLive' BY <2>6, <2>7 DEF OpenKnowsLive, Live
  <2> QED BY <2>1, <2>2, <2>3, <2>8 DEF Inv
<1>5. CASE RunScript(s)
  <2>1. TypeOK' BY <1>5 DEF Inv, TypeOK, RunScript, requestVars
  <2>2. ScreenInv' BY <1>5 DEF Inv, TypeOK, ScreenInv, RunScript
  <2>3. StageInv' BY <1>5 DEF Inv, TypeOK, ScreenInv, StageInv, RunScript
  <2>4. RequestInv' BY <1>5 DEF Inv, TypeOK, RequestInv, AskedOn, RunScript, requestVars
  <2>5. OpenKnowsLive' BY <1>5 DEF Inv, TypeOK, ScreenInv, OpenKnowsLive, Live, RunScript
  <2> QED BY <2>1, <2>2, <2>3, <2>4, <2>5 DEF Inv
<1>6. CASE Started(s)
  <2>1. TypeOK' BY <1>6 DEF Inv, TypeOK, Started, Abandoned, transportVars, requestVars
  <2>2. ScreenInv' BY <1>6 DEF Inv, TypeOK, ScreenInv, Started, Abandoned, transportVars
  <2>3. StageInv' /\ RequestInv'
    BY <1>6 DEF Inv, TypeOK, StageInv, RequestInv, AskedOn, Started, Abandoned,
                transportVars, requestVars
  <2>4. OpenKnowsLive' BY <1>6 DEF Inv, TypeOK, ScreenInv, OpenKnowsLive, Live,
                                   Started, Abandoned, transportVars
  <2> QED BY <2>1, <2>2, <2>3, <2>4 DEF Inv
<1> QED BY <1>1, <1>2, <1>3, <1>4, <1>5, <1>6 DEF Starting

\* The wallet is built, a disconnection ends.
LEMMA ScreenStep ==
    ASSUME Inv, NEW s \in Screens, InitEnds(s) \/ DisconnectEnds(s)
    PROVE  Inv'
<1> USE Cip45Assumption DEF Mounted, OnTop
<1>1. CASE InitEnds(s)
  <2>1. TypeOK' BY <1>1 DEF Inv, TypeOK, InitEnds, transportVars, requestVars
  <2>2. ScreenInv' BY <1>1 DEF Inv, TypeOK, ScreenInv, InitEnds, transportVars
  <2>3. StageInv' BY <1>1 DEF Inv, TypeOK, StageInv, InitEnds, transportVars
  <2>4. RequestInv' /\ OpenKnowsLive'
    BY <1>1 DEF Inv, RequestInv, OpenKnowsLive, Live, AskedOn, InitEnds,
                transportVars, requestVars
  <2> QED BY <2>1, <2>2, <2>3, <2>4 DEF Inv
<1>2. CASE DisconnectEnds(s)
  <2>1. TypeOK' BY <1>2 DEF Inv, TypeOK, DisconnectEnds, transportVars, requestVars
  <2>2. ScreenInv' BY <1>2 DEF Inv, TypeOK, ScreenInv, DisconnectEnds, transportVars
  <2>3. StageInv' /\ RequestInv'
    BY <1>2 DEF Inv, TypeOK, StageInv, RequestInv, AskedOn, DisconnectEnds,
                transportVars, requestVars
  <2>4. OpenKnowsLive' BY <1>2 DEF Inv, TypeOK, ScreenInv, OpenKnowsLive, Live,
                                   DisconnectEnds, transportVars
  <2> QED BY <2>1, <2>2, <2>3, <2>4 DEF Inv
<1> QED BY <1>1, <1>2

\* The platform and the peer.
LEMMA TransportStep ==
    ASSUME Inv, NEW t \in Transports, PageLoads(t) \/ Disposed(t) \/ PeerFound(t)
    PROVE  Inv'
<1> USE Cip45Assumption DEF Mounted, OnTop
<1>1. CASE PageLoads(t)
  BY <1>1 DEF Inv, TypeOK, ScreenInv, StageInv, RequestInv, OpenKnowsLive, Live, AskedOn,
              PageLoads, screenVars, requestVars
<1>2. CASE Disposed(t)
  <2>1. TypeOK' /\ ScreenInv'
    BY <1>2 DEF Inv, TypeOK, ScreenInv, Disposed, screenVars, requestVars
  <2>2. StageInv' BY <1>2 DEF Inv, TypeOK, ScreenInv, StageInv, Disposed, screenVars
  <2>3. RequestInv' BY <1>2 DEF Inv, TypeOK, RequestInv, AskedOn, Disposed, screenVars,
                                requestVars
  <2>4. OpenKnowsLive' BY <1>2 DEF Inv, TypeOK, OpenKnowsLive, Live, Disposed, screenVars
  <2> QED BY <2>1, <2>2, <2>3, <2>4 DEF Inv
<1>3. CASE PeerFound(t)
  <2>1. TypeOK' /\ ScreenInv'
    BY <1>3 DEF Inv, TypeOK, ScreenInv, PeerFound, screenVars, requestVars
  <2>2. StageInv' BY <1>3 DEF Inv, TypeOK, ScreenInv, StageInv, PeerFound, screenVars
  <2>3. RequestInv' BY <1>3 DEF Inv, TypeOK, RequestInv, AskedOn, PeerFound, screenVars,
                                requestVars
  <2>4. OpenKnowsLive' BY <1>3 DEF Inv, TypeOK, OpenKnowsLive, Live, PeerFound, screenVars
  <2> QED BY <2>1, <2>2, <2>3, <2>4 DEF Inv
<1> QED BY <1>1, <1>2, <1>3

\* A request is sent, handled and answered.
LEMMA RequestStep ==
    ASSUME Inv, NEW r \in Requests,
           Called(r) \/ Handled(r) \/ Reply(r) \/ (\E t \in Transports : Ask(r, t))
    PROVE  Inv'
<1> USE Cip45Assumption DEF Mounted, OnTop
<1>1. ScreenInv' /\ StageInv' /\ OpenKnowsLive'
  BY DEF Inv, ScreenInv, StageInv, OpenKnowsLive, Live, Called, Handled, Reply, Ask,
         screenVars, transportVars
<1>2. CASE Called(r)
  BY <1>1, <1>2 DEF Inv, TypeOK, RequestInv, AskedOn, Called, screenVars, transportVars
<1>3. CASE Handled(r)
  BY <1>1, <1>3 DEF Inv, TypeOK, RequestInv, AskedOn, Handled, screenVars, transportVars
<1>4. CASE Reply(r)
  BY <1>1, <1>4 DEF Inv, TypeOK, RequestInv, AskedOn, Reply, screenVars, transportVars
<1>5. ASSUME NEW t \in Transports, Ask(r, t) PROVE Inv'
  BY <1>1, <1>5 DEF Inv, TypeOK, RequestInv, AskedOn, Ask, screenVars, transportVars
<1> QED BY <1>2, <1>3, <1>4, <1>5

LEMMA Inductive == Inv /\ [Next]_vars => Inv'
<1> SUFFICES ASSUME Inv, [Next]_vars PROVE Inv'
  OBVIOUS
<1>1. CASE Next
  <2>1. ASSUME NEW s \in Screens, User(s) \/ InitEnds(s) \/ Starting(s) \/ DisconnectEnds(s)
        PROVE  Inv'
    BY <2>1, UserStep, StartingStep, ScreenStep
  <2>2. ASSUME NEW t \in Transports, PageLoads(t) \/ Disposed(t) \/ PeerFound(t)
        PROVE  Inv'
    BY <2>2, TransportStep
  <2>3. ASSUME NEW r \in Requests,
               Called(r) \/ Handled(r) \/ Reply(r) \/ (\E t \in Transports : Ask(r, t))
        PROVE  Inv'
    BY <2>3, RequestStep
  <2> QED BY <1>1, <2>1, <2>2, <2>3 DEF Next
<1>2. CASE UNCHANGED vars
  BY <1>2 DEF Inv, TypeOK, ScreenInv, StageInv, RequestInv, OpenKnowsLive, Live, Mounted,
              AskedOn, vars, screenVars, transportVars, requestVars
<1> QED BY <1>1, <1>2

\* The state of every screen, of the transport it is starting or holds and of the
\* requests on it agree, for any number of screens, transports and requests.
THEOREM Invariance == Spec => []Inv
BY InitInv, Inductive, PTL DEF Spec

\* A screen on display knows its live transport, so Disconnect and dispose reach it
\* (_connect, _disconnect and dispose of cip45_screen.dart).
THEOREM KnowsItsTransport == Spec => []OpenKnowsLive
<1>1. Inv => OpenKnowsLive BY DEF Inv
<1> QED BY <1>1, Invariance, PTL

\* A request that arrives after its screen was left makes the wallet do nothing
\* (the handler passed to onRequest logs before it dispatches).
THEOREM ServesNothing == Spec => OutlivingServesNothing
<1> DEFINE Served == \A r \in Requests :
      asked[r] = "sent" /\ ~AskedOn(r) => outcome'[r] = "none" /\ asked'[r] # "handling"
<1>1. Inv /\ [Next]_vars => [Served]_vars
  <2> SUFFICES ASSUME Inv, Next, NEW r \in Requests, asked[r] = "sent", ~AskedOn(r)
               PROVE  outcome'[r] = "none" /\ asked'[r] # "handling"
    BY DEF vars
  <2>1. outcome[r] = "none" BY DEF Inv, RequestInv
  <2>2. CASE UNCHANGED requestVars BY <2>1, <2>2 DEF requestVars
  <2>3. ASSUME NEW q \in Requests,
               Called(q) \/ Handled(q) \/ Reply(q) \/ (\E t \in Transports : Ask(q, t))
        PROVE  outcome'[r] = "none" /\ asked'[r] # "handling"
    BY <2>1, <2>3 DEF Inv, TypeOK, Called, Handled, Reply, Ask
  <2> QED BY <2>2, <2>3 DEF Next, User, Starting, Open, Leave, Disconnect,
             ConnectWithoutWallet, Connect, InitEnds, RunEnds, StartFails, PageReady,
             ReadyTimeout, RunScript, Started, DisconnectEnds, PageLoads, Disposed, PeerFound
<1>2. (Spec => [][Served]_vars) BY <1>1, Invariance, PTL DEF Spec
<1> QED BY <1>2 DEF OutlivingServesNothing
=============================================================================

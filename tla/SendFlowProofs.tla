--------------------------- MODULE SendFlowProofs ---------------------------
(***************************************************************************)
(* Proofs about SendFlow, for any number of screens, payments and outputs. *)
(* Inv ties what a running flow has left on its screen to the state of its *)
(* transaction; the properties follow from it.                             *)
(***************************************************************************)
EXTENDS SendFlow, TLAPS

USE SendFlowAssumption

Ats == {"built", "posted", "refused", "mempool", "chain", "expired"}

\* setState changes the screen it is called on, if that is open.
LEMMA SetStateFacts ==
  ASSUME TypeOK, NEW s \in Screens, NEW u \in Screen, SetState(s, u)
  PROVE  /\ screen' \in [Screens -> Screen]
         /\ screen[s].shown = "open" => screen'[s] = u
         /\ screen[s].shown # "open" => screen'[s] = screen[s]
         /\ \A t \in Screens \ {s} : screen'[t] = screen[t]
<1>1. screen \in [Screens -> Screen]
  BY DEF TypeOK
<1>2. CASE screen[s].shown = "open"
  BY <1>1, <1>2 DEF SetState
<1>3. CASE screen[s].shown # "open"
  BY <1>1, <1>3 DEF SetState
<1> QED
  BY <1>2, <1>3

\* Moving a transaction changes only where it is.
LEMMA MoveFacts ==
  ASSUME TypeOK, NEW n \in DOMAIN tx, NEW at \in Ats, Move(n, at)
  PROVE  /\ tx' \in Seq(Tx) /\ Len(tx') = Len(tx) /\ DOMAIN tx' = DOMAIN tx
         /\ tx'[n].at = at
         /\ \A m \in DOMAIN tx \ {n} : tx'[m] = tx[m]
         /\ \A m \in DOMAIN tx : /\ tx'[m].form = tx[m].form
                                 /\ tx'[m].asked = tx[m].asked
                                 /\ tx'[m].view = tx[m].view
                                 /\ tx'[m].inputs = tx[m].inputs
<1>1. tx \in Seq(Tx) /\ tx[n] \in Tx
  BY DEF TypeOK
<1> DEFINE new == [tx[n] EXCEPT !.at = at]
<1>2. /\ new \in Tx /\ new.at = at /\ new.form = tx[n].form
      /\ new.asked = tx[n].asked /\ new.view = tx[n].view /\ new.inputs = tx[n].inputs
  BY <1>1 DEF Tx, Ats
<1>3. tx' = [tx EXCEPT ![n] = new]
  BY DEF Move
<1> HIDE DEF new
<1>4. tx' \in Seq(Tx) /\ Len(tx') = Len(tx) /\ DOMAIN tx' = DOMAIN tx
  BY <1>1, <1>2, <1>3
<1>5. tx'[n] = new /\ \A m \in DOMAIN tx \ {n} : tx'[m] = tx[m]
  BY <1>1, <1>3
<1> QED
  BY <1>2, <1>4, <1>5

\* A screen's own hash and transaction are among those built.
LEMMA IndexFacts ==
  ASSUME Inv, NEW s \in Screens
  PROVE  /\ sent[s] # 0 => sent[s] \in DOMAIN tx
         /\ screen[s].hash # 0 => screen[s].hash \in DOMAIN tx
         /\ Len(tx) \in Nat /\ DOMAIN tx = 1 .. Len(tx)
<1>1. tx \in Seq(Tx) /\ sent[s] \in 0 .. Len(tx) /\ screen[s].hash \in 0 .. Len(tx)
  BY DEF Inv, TypeOK, FlowInv
<1>2. Len(tx) \in Nat /\ DOMAIN tx = 1 .. Len(tx)
  BY <1>1
<1> QED
  BY <1>1, <1>2

-----------------------------------------------------------------------------

LEMMA InitInv == Init => Inv
<1> SUFFICES ASSUME Init PROVE Inv
  OBVIOUS
<1>1. NewScreen \in Screen /\ EmptyForm \in Form
  BY DEF NewScreen, Screen, EmptyForm, Form
<1>2. tx = <<>> /\ tx \in Seq(Tx) /\ Len(tx) = 0 /\ DOMAIN tx = {}
  BY DEF Init
<1>3. TypeOK
  BY <1>1, <1>2 DEF Init, TypeOK
<1>4. FlowInv /\ ShowsTheTruth
  BY <1>2 DEF Init, FlowInv, ShowsTheTruth, NewScreen
<1>5. SentInv /\ LedgerInv /\ ViewInv /\ PaysWhatWasConfirmed
  BY <1>2 DEF Init, SentInv, LedgerInv, ViewInv, PaysWhatWasConfirmed
<1> QED
  BY <1>3, <1>4, <1>5 DEF Inv

\* A step of screen s that leaves the ledger alone keeps the invariant if what it
\* leaves on the screen agrees with its transaction.
LEMMA ScreenStep ==
  ASSUME Inv, NEW s \in Screens,
         UNCHANGED <<view, sent, tx, unspent, ever>>,
         TypeOK',
         \A t \in Screens \ {s} : screen'[t] = screen[t] /\ pc'[t] = pc[t],
         pc'[s] \in {"sign", "submit", "poll"} => pc'[s] = pc[s] \/
             (pc[s] = "submit" /\ pc'[s] = "poll"
              /\ tx[sent[s]].at \in {"mempool", "chain", "expired"}),
         screen'[s].shown # "left" =>
             (screen'[s].loading <=> pc'[s] \notin {"idle", "dialog"}),
         pc'[s] = "poll" /\ screen'[s].shown = "open" => screen'[s].hash = sent[s],
         screen'[s].hash \in {0, screen[s].hash, sent[s]},
         screen'[s].hash # 0 => tx[screen'[s].hash].at \in {"mempool", "chain", "expired"},
         screen'[s].hash # 0 /\ screen'[s].status = "confirmed"
             => tx[screen'[s].hash].at = "chain",
         screen'[s].shown = "new" => pc'[s] = "idle"
  PROVE  Inv'
<1>1. screen'[s].hash \in 0 .. Len(tx)
  BY DEF Inv, TypeOK, FlowInv
<1>2. FlowInv'
  BY <1>1 DEF Inv, FlowInv
<1>3. ShowsTheTruth'
  BY DEF Inv, ShowsTheTruth
<1>4. SentInv' /\ LedgerInv' /\ ViewInv' /\ PaysWhatWasConfirmed'
  BY DEF Inv, SentInv, LedgerInv, ViewInv, PaysWhatWasConfirmed, Accepted
<1> QED
  BY <1>2, <1>3, <1>4 DEF Inv

-----------------------------------------------------------------------------
(* The steps of a screen.                                                  *)

\* What is known of a screen before its step.
LEMMA Before ==
  ASSUME Inv, NEW s \in Screens
  PROVE  /\ TypeOK /\ screen[s] \in Screen /\ form[s] \in Form /\ asked[s] \in Form
         /\ screen[s].hash # 0 => tx[screen[s].hash].at \in {"mempool", "chain", "expired"}
         /\ screen[s].hash # 0 /\ screen[s].status = "confirmed"
              => tx[screen[s].hash].at = "chain"
         /\ sent[s] \in 0 .. Len(tx) /\ Len(tx) \in Nat
         /\ screen[s].shown # "left" =>
              (screen[s].loading <=> pc[s] \notin {"idle", "dialog"})
  BY DEF Inv, TypeOK, ShowsTheTruth, FlowInv

LEMMA ClearedFacts ==
  ASSUME Inv, NEW s \in Screens
  PROVE  /\ Cleared(s) \in Screen
         /\ Cleared(s).shown = screen[s].shown
         /\ Cleared(s).loading = screen[s].loading
         /\ Cleared(s).hash = 0
  BY Before DEF Cleared, Screen

LEMMA UserInv ==
  ASSUME Inv, NEW s \in Screens,
         Open(s) \/ Leave(s) \/ (\E f \in Form : Edit(s, f)) \/ Cancel(s) \/ PreviewBuild(s)
  PROVE  Inv'
<1>1. CASE Open(s)
  <2> DEFINE u == [screen[s] EXCEPT !.shown = "open"]
  <2>1. u \in Screen /\ u.hash = screen[s].hash /\ u.status = screen[s].status
        /\ u.loading = screen[s].loading /\ u.shown = "open"
    BY Before DEF Screen
  <2>2. screen' = [screen EXCEPT ![s] = u]
    BY <1>1 DEF Open
  <2> HIDE DEF u
  <2>3. screen' \in [Screens -> Screen] /\ screen'[s] = u
        /\ \A t \in Screens \ {s} : screen'[t] = screen[t]
    BY <2>1, <2>2 DEF Inv, TypeOK
  <2>4. TypeOK'
    BY <1>1, <2>3 DEF Open, Inv, TypeOK
  <2>5. pc[s] = "idle" /\ ~screen[s].loading
    BY <1>1 DEF Open, Inv, FlowInv
  <2> QED
    BY <1>1, <2>1, <2>3, <2>4, <2>5, Before, ScreenStep DEF Open
<1>2. CASE Leave(s)
  <2> DEFINE u == [screen[s] EXCEPT !.shown = "left"]
  <2>1. u \in Screen /\ u.hash = screen[s].hash /\ u.status = screen[s].status
        /\ u.shown = "left"
    BY Before DEF Screen
  <2>2. screen' = [screen EXCEPT ![s] = u]
    BY <1>2 DEF Leave
  <2> HIDE DEF u
  <2>3. screen' \in [Screens -> Screen] /\ screen'[s] = u
        /\ \A t \in Screens \ {s} : screen'[t] = screen[t]
    BY <2>1, <2>2 DEF Inv, TypeOK
  <2>4. TypeOK'
    BY <1>2, <2>3 DEF Leave, Inv, TypeOK
  <2> QED
    BY <1>2, <2>1, <2>3, <2>4, Before, ScreenStep DEF Leave
<1>3. CASE \E f \in Form : Edit(s, f)
  <2>1. TypeOK' /\ UNCHANGED <<screen, pc, view, sent, tx, unspent, ever>>
    BY <1>3 DEF Edit, Inv, TypeOK
  <2> QED
    BY <2>1 DEF Inv, FlowInv, SentInv, LedgerInv, ViewInv, PaysWhatWasConfirmed,
                ShowsTheTruth, Accepted
<1>4. CASE Cancel(s)
  <2>1. TypeOK'
    BY <1>4 DEF Cancel, Inv, TypeOK
  <2>2. pc'[s] = "idle" /\ \A t \in Screens \ {s} : pc'[t] = pc[t]
    BY <1>4 DEF Cancel, Inv, TypeOK
  <2> QED
    BY <1>4, <2>1, <2>2, Before, ScreenStep DEF Cancel
<1>5. CASE PreviewBuild(s)
  <2>1. asked' \in [Screens -> Form]
    <3> DEFINE f == [asked[s] EXCEPT !.asset = form[s].asset]
    <3>1. f \in Form
      BY Before DEF Form
    <3>2. asked' = [asked EXCEPT ![s] = f]
      BY <1>5 DEF PreviewBuild
    <3> HIDE DEF f
    <3> QED
      BY <3>1, <3>2 DEF Inv, TypeOK
  <2>2. TypeOK'
    BY <1>5, <2>1 DEF PreviewBuild, Inv, TypeOK
  <2>3. pc[s] = "preview" /\ pc'[s] = "fee" /\ \A t \in Screens \ {s} : pc'[t] = pc[t]
    BY <1>5 DEF PreviewBuild, Inv, TypeOK
  <2>4. screen[s].shown # "new" /\ (screen[s].shown # "left" => screen[s].loading)
    BY <2>3 DEF Inv, FlowInv
  <2> QED
    BY <1>5, <2>2, <2>3, <2>4, Before, ScreenStep DEF PreviewBuild
<1> QED
  BY <1>1, <1>2, <1>3, <1>4, <1>5

\* The buttons can be tapped only when nothing is running.
LEMMA TapIdle ==
  ASSUME Inv, NEW s \in Screens, CanPreview(s)
  PROVE  pc[s] = "idle" /\ screen[s].shown = "open"
  BY DEF CanPreview, Inv, FlowInv

LEMMA RejectsInv == ASSUME Inv, NEW s \in Screens, CanPreview(s), Rejects(s) PROVE Inv'
<1> DEFINE u == [Cleared(s) EXCEPT !.error = TRUE]
<1>1. u \in Screen /\ u.hash = 0 /\ u.shown = screen[s].shown
      /\ u.loading = screen[s].loading
  BY ClearedFacts DEF Screen
<1>2. SetState(s, u)
  BY DEF Rejects
<1> HIDE DEF u
<1>3. TypeOK'
  BY <1>1, <1>2, Before, SetStateFacts DEF Rejects, Inv, TypeOK
<1> QED
  BY <1>1, <1>2, <1>3, Before, TapIdle, SetStateFacts, ScreenStep DEF Rejects

LEMMA PreviewInv == ASSUME Inv, NEW s \in Screens, Preview(s) PROVE Inv'
<1>1. CASE Rejects(s)
  BY <1>1, RejectsInv DEF Preview
<1>2. CASE ~Invalid(form[s]) /\ pc' = [pc EXCEPT ![s] = "preview"]
  <2> DEFINE u == [Cleared(s) EXCEPT !.loading = TRUE]
  <2>1. u \in Screen /\ u.hash = 0 /\ u.shown = screen[s].shown /\ u.loading
    BY ClearedFacts DEF Screen
  <2>2. SetState(s, u) /\ asked' = [asked EXCEPT ![s] = form[s]]
        /\ UNCHANGED <<form, edits, view, sent, tx, unspent, ever>>
    BY <1>2 DEF Preview, Rejects
  <2> HIDE DEF u
  <2>3. pc'[s] = "preview" /\ \A t \in Screens \ {s} : pc'[t] = pc[t]
    BY <1>2 DEF Inv, TypeOK
  <2>4. TypeOK'
    BY <1>2, <2>1, <2>2, Before, SetStateFacts DEF TypeOK
  <2> QED
    BY <2>1, <2>2, <2>3, <2>4, Before, TapIdle, SetStateFacts, ScreenStep DEF Preview
<1> QED
  BY <1>1, <1>2 DEF Preview

LEMMA SendInv == ASSUME Inv, NEW s \in Screens, Send(s) PROVE Inv'
<1>1. CASE Rejects(s)
  BY <1>1, RejectsInv DEF Send, CanSend
<1>2. CASE ~Invalid(form[s]) /\ pc' = [pc EXCEPT ![s] = "dialog"]
  <2>1. SetState(s, Cleared(s)) /\ asked' = [asked EXCEPT ![s] = form[s]]
        /\ UNCHANGED <<form, edits, view, sent, tx, unspent, ever>>
    BY <1>2 DEF Send, Rejects
  <2>2. pc'[s] = "dialog" /\ \A t \in Screens \ {s} : pc'[t] = pc[t]
    BY <1>2 DEF Inv, TypeOK
  <2>3. TypeOK'
    BY <1>2, <2>1, Before, ClearedFacts, SetStateFacts DEF TypeOK
  <2> QED
    BY <2>1, <2>2, <2>3, Before, ClearedFacts, TapIdle, SetStateFacts, ScreenStep
    DEF Send, CanSend
<1> QED
  BY <1>1, <1>2 DEF Send

\* A step that only updates the screen of a running flow and moves it on.
LEMMA FlowStep ==
  ASSUME Inv, NEW s \in Screens, NEW u \in Screen, SetState(s, u),
         UNCHANGED <<form, edits, asked, view, sent, tx, unspent, ever>>,
         NEW next \in {"idle", "fetch", "poll"}, pc' = [pc EXCEPT ![s] = next],
         pc[s] # "idle", u.shown = screen[s].shown,
         screen[s].shown = "open" => (u.loading <=> next # "idle"),
         next = "poll" => /\ pc[s] = "submit" /\ u.hash = sent[s]
                          /\ tx[sent[s]].at \in {"mempool", "chain", "expired"},
         u.hash \in {screen[s].hash, sent[s]},
         u.hash # 0 => tx[u.hash].at \in {"mempool", "chain", "expired"},
         u.hash # 0 /\ u.status = "confirmed" => tx[u.hash].at = "chain"
  PROVE  Inv'
<1>1. pc'[s] = next /\ \A t \in Screens \ {s} : pc'[t] = pc[t]
  BY DEF Inv, TypeOK
<1>2. screen[s].shown # "new"
  BY DEF Inv, FlowInv
<1>3. TypeOK'
  BY Before, SetStateFacts DEF TypeOK
<1>4. CASE screen[s].shown = "open"
  <2>1. screen'[s] = u /\ \A t \in Screens \ {s} : screen'[t] = screen[t]
    BY <1>4, Before, SetStateFacts
  <2> QED
    BY <1>1, <1>3, <1>4, <2>1, Before, ScreenStep
<1>5. CASE screen[s].shown # "open"
  <2>1. screen[s].shown = "left"
    BY <1>2, <1>5, Before DEF Screen
  <2>2. UNCHANGED screen
    BY <1>5 DEF SetState
  <2> QED
    BY <1>1, <1>3, <2>1, <2>2, Before, ScreenStep
<1> QED
  BY <1>4, <1>5

\* What the catch clause leaves on the screen.
LEMMA CatchFacts ==
  ASSUME Inv, NEW s \in Screens, Catch(s)
  PROVE  \E u \in Screen : /\ SetState(s, u) /\ pc' = [pc EXCEPT ![s] = "idle"]
                           /\ u.shown = screen[s].shown /\ u.hash = screen[s].hash
                           /\ u.status = "null" /\ ~u.loading
<1> DEFINE u == [screen[s] EXCEPT !.error = TRUE, !.loading = FALSE, !.status = "null"]
<1>1. u \in Screen /\ u.shown = screen[s].shown /\ u.hash = screen[s].hash
      /\ u.status = "null" /\ ~u.loading
  BY Before DEF Screen
<1>2. SetState(s, u) /\ pc' = [pc EXCEPT ![s] = "idle"]
  BY DEF Catch
<1> QED
  BY <1>1, <1>2

LEMMA CatchInv ==
  ASSUME Inv, NEW s \in Screens, Catch(s), pc[s] # "idle",
         UNCHANGED <<form, edits, asked, view, sent, tx, unspent, ever>>
  PROVE  Inv'
<1>1. PICK u \in Screen : /\ SetState(s, u) /\ pc' = [pc EXCEPT ![s] = "idle"]
                          /\ u.shown = screen[s].shown /\ u.hash = screen[s].hash
                          /\ u.status = "null" /\ ~u.loading
  BY CatchFacts
<1> QED
  BY <1>1, Before, FlowStep

LEMMA FlowInvStep ==
  ASSUME Inv, NEW s \in Screens,
         \/ PreviewShown(s) \/ PreviewFails(s) \/ Confirm(s) \/ Fails(s)
         \/ Submitted(s) \/ Confirmed(s) \/ TimesOut(s) \/ PollFails(s)
  PROVE  Inv'
<1>1. CASE PreviewShown(s)
  <2> DEFINE u == [screen[s] EXCEPT !.loading = FALSE, !.fee = {asked[s]}]
  <2>1. u \in Screen /\ u.shown = screen[s].shown /\ u.hash = screen[s].hash
        /\ u.status = screen[s].status /\ ~u.loading
    BY Before DEF Screen
  <2>2. /\ SetState(s, u) /\ pc[s] = "fee" /\ pc' = [pc EXCEPT ![s] = "idle"]
        /\ UNCHANGED <<form, edits, asked, view, sent, tx, unspent, ever>>
    BY <1>1 DEF PreviewShown
  <2> HIDE DEF u
  <2>3. u.hash # 0 => tx[u.hash].at \in {"mempool", "chain", "expired"}
    BY <2>1, Before
  <2>4. u.hash # 0 /\ u.status = "confirmed" => tx[u.hash].at = "chain"
    BY <2>1, Before
  <2> QED
    BY <2>1, <2>2, <2>3, <2>4, FlowStep
<1>2. CASE PreviewFails(s)
  <2> DEFINE u == [screen[s] EXCEPT !.loading = FALSE, !.error = TRUE]
  <2>1. u \in Screen /\ u.shown = screen[s].shown /\ u.hash = screen[s].hash
        /\ u.status = screen[s].status /\ ~u.loading
    BY Before DEF Screen
  <2>2. SetState(s, u)
    BY <1>2 DEF PreviewFails
  <2> HIDE DEF u
  <2> QED
    BY <1>2, <2>1, <2>2, Before, FlowStep DEF PreviewFails
<1>3. CASE Confirm(s)
  <2> DEFINE u == [screen[s] EXCEPT !.loading = TRUE, !.status = "building"]
  <2>1. u \in Screen /\ u.shown = screen[s].shown /\ u.hash = screen[s].hash
        /\ u.status = "building" /\ u.loading
    BY Before DEF Screen
  <2>2. SetState(s, u)
    BY <1>3 DEF Confirm
  <2> HIDE DEF u
  <2> QED
    BY <1>3, <2>1, <2>2, Before, FlowStep DEF Confirm
<1>4. CASE Fails(s) \/ PollFails(s)
  BY <1>4, CatchInv DEF Fails, PollFails
<1>5. CASE Submitted(s)
  <2> DEFINE u == [screen[s] EXCEPT !.hash = sent[s], !.status = "submitted"]
  <2>1. u \in Screen /\ u.shown = screen[s].shown /\ u.hash = sent[s]
        /\ u.status = "submitted" /\ u.loading = screen[s].loading
    <3>1. sent[s] \in Nat /\ screen[s] \in Screen
      BY Before
    <3> QED
      BY <3>1 DEF Screen
  <2>2. SetState(s, u) /\ pc[s] = "submit"
    BY <1>5 DEF Submitted
  <2> HIDE DEF u
  <2>3. tx[sent[s]].at \in {"mempool", "chain", "expired"}
    BY <1>5 DEF Submitted, Accepted
  <2>4. screen[s].shown = "open" => u.loading
    BY <2>1, <2>2 DEF Inv, FlowInv
  <2> DEFINE next == IF screen[s].shown = "open" THEN "poll" ELSE "idle"
  <2>5. /\ next \in {"idle", "fetch", "poll"} /\ pc' = [pc EXCEPT ![s] = next]
        /\ screen[s].shown = "open" => (u.loading <=> next # "idle")
    BY <1>5, <2>4 DEF Submitted
  <2>6. next # "fetch"
    OBVIOUS
  <2> HIDE DEF next
  <2> QED
    BY <1>5, <2>1, <2>2, <2>3, <2>5, <2>6, Before, FlowStep DEF Submitted
<1>6. CASE Confirmed(s)
  <2> DEFINE u == [screen[s] EXCEPT !.status = "confirmed", !.loading = FALSE]
  <2>1. u \in Screen /\ u.shown = screen[s].shown /\ u.hash = screen[s].hash
        /\ ~u.loading
    BY Before DEF Screen
  <2>2. SetState(s, u) /\ pc[s] = "poll"
    BY <1>6 DEF Confirmed
  <2> HIDE DEF u
  <2>3. screen[s].shown = "open" => screen[s].hash = sent[s]
    BY <2>2 DEF Inv, FlowInv
  <2>4. CASE screen[s].shown = "open"
    BY <1>6, <2>1, <2>2, <2>3, <2>4, Before, FlowStep DEF Confirmed
  <2>5. CASE screen[s].shown # "open"
    <3>1. SetState(s, screen[s])
      BY <2>2, <2>5 DEF SetState
    <3> QED
      BY <1>6, <2>5, <3>1, Before, FlowStep DEF Confirmed
  <2> QED
    BY <2>4, <2>5
<1>7. CASE TimesOut(s)
  <2> DEFINE u == [screen[s] EXCEPT !.status = "pending", !.loading = FALSE]
  <2>1. u \in Screen /\ u.shown = screen[s].shown /\ u.hash = screen[s].hash
        /\ u.status = "pending" /\ ~u.loading
    BY Before DEF Screen
  <2>2. SetState(s, u)
    BY <1>7 DEF TimesOut
  <2> HIDE DEF u
  <2> QED
    BY <1>7, <2>1, <2>2, Before, FlowStep DEF TimesOut
<1> QED
  BY <1>1, <1>2, <1>3, <1>4, <1>5, <1>6, <1>7

LEMMA FetchInv == ASSUME Inv, NEW s \in Screens, Fetch(s) PROVE Inv'
<1>1. /\ view' \in [Screens -> SUBSET Coins] /\ \A t \in Screens : view'[t] \subseteq ever
      /\ UNCHANGED <<form, edits, asked, sent, tx, unspent, ever>>
  BY DEF Fetch, Inv, TypeOK, ViewInv
<1>2. CASE unspent = {}
  <2>1. PICK u \in Screen : /\ SetState(s, u) /\ pc' = [pc EXCEPT ![s] = "idle"]
                            /\ u.shown = screen[s].shown /\ u.hash = screen[s].hash
                            /\ u.status = "null" /\ ~u.loading
    BY <1>2, CatchFacts DEF Fetch
  <2>2. /\ screen' \in [Screens -> Screen]
        /\ \A t \in Screens \ {s} : screen'[t] = screen[t] /\ pc'[t] = pc[t]
        /\ pc'[s] = "idle" /\ screen'[s] \in {u, screen[s]}
        /\ screen[s].shown = "open" => screen'[s] = u
    BY <2>1, Before, SetStateFacts DEF TypeOK
  <2>6. screen[s].shown \in {"open", "left"}
    BY Before DEF Fetch, Inv, FlowInv, Screen
  <2>3. TypeOK'
    BY <1>1, <2>1, <2>2 DEF Inv, TypeOK
  <2>4. FlowInv'
    BY <1>1, <2>1, <2>2, <2>6 DEF Inv, FlowInv
  <2>5. ShowsTheTruth'
    BY <1>1, <2>1, <2>2 DEF Inv, ShowsTheTruth
  <2> QED
    BY <1>1, <2>3, <2>4, <2>5
    DEF Inv, SentInv, LedgerInv, ViewInv, PaysWhatWasConfirmed, Accepted
<1>3. CASE unspent # {}
  <2>1. /\ pc'[s] = "build" /\ \A t \in Screens \ {s} : pc'[t] = pc[t]
        /\ pc[s] = "fetch" /\ UNCHANGED screen
    BY <1>3 DEF Fetch, Inv, TypeOK
  <2>2. TypeOK'
    BY <1>1, <1>3 DEF Fetch, Inv, TypeOK
  <2>3. FlowInv'
    BY <1>1, <2>1 DEF Inv, FlowInv
  <2>4. ShowsTheTruth'
    BY <1>1, <2>1 DEF Inv, ShowsTheTruth
  <2> QED
    BY <1>1, <2>2, <2>3, <2>4
    DEF Inv, SentInv, LedgerInv, ViewInv, PaysWhatWasConfirmed, Accepted
<1> QED
  BY <1>2, <1>3

-----------------------------------------------------------------------------
(* The steps that build a transaction or move one.                         *)

LEMMA BuildInv == ASSUME Inv, NEW s \in Screens, Build(s) PROVE Inv'
<1>1. PICK S \in LargestFirst(view[s]) :
        Built(s, [pay |-> asked[s].pay, asset |-> form[s].asset], S)
  BY DEF Build
<1> DEFINE t == [form |-> [pay |-> asked[s].pay, asset |-> form[s].asset],
                 asked |-> asked[s], view |-> view[s], inputs |-> S, at |-> "built"]
<1>2. S \subseteq view[s] /\ view[s] \subseteq Coins /\ view[s] \subseteq ever
  BY DEF LargestFirst, Inv, TypeOK, ViewInv
<1>3. t \in Tx /\ t.form.pay = t.asked.pay /\ t.view = view[s] /\ t.inputs = S
      /\ t.at = "built"
  BY <1>2, Before DEF Tx, Form
<1>4. /\ pc[s] = "build" /\ pc' = [pc EXCEPT ![s] = "sign"]
      /\ sent' = [sent EXCEPT ![s] = Len(tx) + 1]
      /\ tx' = Append(tx, t)
      /\ UNCHANGED <<form, edits, screen, asked, view, unspent, ever>>
  BY <1>1 DEF Built
<1> HIDE DEF t
<1>5. tx \in Seq(Tx) /\ Len(tx) \in Nat /\ DOMAIN tx = 1 .. Len(tx)
  BY DEF Inv, TypeOK
<1>6. /\ tx' \in Seq(Tx) /\ Len(tx') = Len(tx) + 1 /\ DOMAIN tx' = 1 .. Len(tx) + 1
      /\ tx'[Len(tx) + 1] = t /\ \A n \in DOMAIN tx : tx'[n] = tx[n]
  BY <1>3, <1>4, <1>5
<1>7. /\ sent'[s] = Len(tx) + 1 /\ pc'[s] = "sign"
      /\ \A r \in Screens \ {s} : sent'[r] = sent[r] /\ pc'[r] = pc[r]
  BY <1>4 DEF Inv, TypeOK
<1>8. \A r \in Screens : sent[r] \in 0 .. Len(tx) /\ screen[r].hash \in 0 .. Len(tx)
  BY DEF Inv, TypeOK, FlowInv
<1>9. \A r \in Screens : /\ sent[r] # 0 => tx'[sent[r]] = tx[sent[r]]
                         /\ screen[r].hash # 0 => tx'[screen[r].hash] = tx[screen[r].hash]
  BY <1>5, <1>6, <1>8
<1>10. TypeOK'
  <2>1. sent' \in [Screens -> 0 .. Len(tx')]
    BY <1>4, <1>5, <1>6, <1>8 DEF Inv, TypeOK
  <2> QED
    BY <1>4, <1>6, <2>1 DEF Inv, TypeOK
<1>11. FlowInv'
  <2> SUFFICES ASSUME NEW r \in Screens
               PROVE
        (/\ screen[r].shown = "new" => pc[r] = "idle"
         /\ screen[r].shown # "left" =>
              (screen[r].loading <=> pc[r] \notin {"idle", "dialog"})
         /\ pc[r] \in {"sign", "submit", "poll"} => sent[r] # 0
         /\ pc[r] = "sign" => tx[sent[r]].at = "built"
         /\ pc[r] = "submit" => tx[sent[r]].at \in {"posted", "mempool", "chain", "expired"}
         /\ pc[r] = "poll" => tx[sent[r]].at \in {"mempool", "chain", "expired"}
         /\ pc[r] = "poll" /\ screen[r].shown = "open" => screen[r].hash = sent[r]
         /\ screen[r].hash \in 0 .. Len(tx))'
    BY DEF FlowInv
  <2>1. CASE r = s
    BY <1>3, <1>4, <1>5, <1>6, <1>7, <1>8, <2>1 DEF Inv, FlowInv
  <2>2. CASE r # s
    BY <1>4, <1>5, <1>6, <1>7, <1>8, <1>9, <2>2 DEF Inv, FlowInv
  <2> QED
    BY <2>1, <2>2
<1>12. SentInv'
  BY <1>5, <1>7, <1>8 DEF Inv, SentInv
<1>13. LedgerInv' /\ PaysWhatWasConfirmed'
  <2>1. \A n \in DOMAIN tx' : (n \in DOMAIN tx /\ tx'[n] = tx[n]) \/ tx'[n] = t
    BY <1>5, <1>6
  <2>2. \A n, m \in DOMAIN tx' : n # m =>
          \/ n \in DOMAIN tx /\ m \in DOMAIN tx
          \/ tx'[n].at = "built" \/ tx'[m].at = "built"
    BY <1>3, <1>5, <1>6
  <2> QED
    BY <1>1, <1>2, <1>3, <1>4, <1>6, <2>1, <2>2
    DEF Inv, LedgerInv, PaysWhatWasConfirmed, Accepted, LargestFirst
<1>14. ShowsTheTruth'
  BY <1>4, <1>9 DEF Inv, ShowsTheTruth
<1>15. ViewInv'
  BY <1>4 DEF Inv, ViewInv
<1> QED
  BY <1>10, <1>11, <1>12, <1>13, <1>14, <1>15 DEF Inv

\* A node or a block takes a transaction, or its TTL passes: nothing on a screen
\* or in a flow is contradicted.
LEMMA NodeMove ==
  ASSUME Inv, NEW n \in DOMAIN tx, NEW at \in Ats, Move(n, at),
         \/ tx[n].at = "posted" /\ at = "mempool"
         \/ tx[n].at = "mempool" /\ at \in {"chain", "expired"},
         UNCHANGED <<form, edits, screen, pc, asked, view, sent>>,
         unspent' \subseteq ever', ever' \subseteq Coins
  PROVE  TypeOK' /\ FlowInv' /\ SentInv' /\ PaysWhatWasConfirmed' /\ ShowsTheTruth'
<1>1. TypeOK
  BY DEF Inv
<1>2. TypeOK'
  BY <1>1, MoveFacts DEF TypeOK
<1>3. \A s \in Screens : /\ sent[s] # 0 => sent[s] \in DOMAIN tx
                         /\ screen[s].hash # 0 => screen[s].hash \in DOMAIN tx
  BY IndexFacts
<1>4. FlowInv'
  BY <1>1, <1>3, MoveFacts DEF Inv, FlowInv
<1>5. ShowsTheTruth'
  BY <1>1, <1>3, MoveFacts DEF Inv, ShowsTheTruth
<1>6. SentInv' /\ PaysWhatWasConfirmed'
  BY <1>1, MoveFacts DEF Inv, SentInv, PaysWhatWasConfirmed
<1> QED
  BY <1>2, <1>4, <1>5, <1>6

LEMMA ChainInv ==
  ASSUME Inv, NEW n \in DOMAIN tx, NEW change \in SUBSET Coins,
         Accept(n) \/ Expire(n) \/ Mint(n, change)
  PROVE  Inv'
<1> TypeOK /\ LedgerInv /\ ViewInv
  BY DEF Inv
<1>1. CASE Accept(n)
  <2>1. Move(n, "mempool") /\ "mempool" \in Ats /\ tx[n].at = "posted"
    BY <1>1 DEF Accept, Ats
  <2>2. /\ UNCHANGED <<form, edits, screen, pc, asked, view, sent, unspent, ever>>
        /\ tx[n].inputs \subseteq unspent \ InMempool
    BY <1>1 DEF Accept
  <2>3. TypeOK' /\ FlowInv' /\ SentInv' /\ PaysWhatWasConfirmed' /\ ShowsTheTruth'
    BY <2>1, <2>2, NodeMove DEF TypeOK
  <2>4. \A m \in DOMAIN tx \ {n} : Accepted(m) => tx[m].inputs \cap tx[n].inputs = {}
    BY <2>2 DEF InMempool, Accepted, LedgerInv
  <2>5. LedgerInv'
    BY <2>1, <2>2, <2>4, MoveFacts DEF LedgerInv, Accepted
  <2> QED
    BY <2>2, <2>3, <2>5 DEF Inv, ViewInv
<1>2. CASE Expire(n)
  <2>1. Move(n, "expired") /\ "expired" \in Ats /\ tx[n].at = "mempool"
        /\ UNCHANGED <<form, edits, screen, pc, asked, view, sent, unspent, ever>>
    BY <1>2 DEF Expire, Ats
  <2>2. TypeOK' /\ FlowInv' /\ SentInv' /\ PaysWhatWasConfirmed' /\ ShowsTheTruth'
    BY <2>1, NodeMove DEF TypeOK
  <2>3. LedgerInv'
    BY <2>1, MoveFacts DEF LedgerInv, Accepted
  <2> QED
    BY <2>1, <2>2, <2>3 DEF Inv, ViewInv
<1>3. CASE Mint(n, change)
  <2>1. Move(n, "chain") /\ "chain" \in Ats /\ tx[n].at = "mempool"
        /\ UNCHANGED <<form, edits, screen, pc, asked, view, sent>>
        /\ change \subseteq Coins \ ever
        /\ unspent' = (unspent \ tx[n].inputs) \cup change /\ ever' = ever \cup change
    BY <1>3 DEF Mint, Ats
  <2>2. TypeOK' /\ FlowInv' /\ SentInv' /\ PaysWhatWasConfirmed' /\ ShowsTheTruth'
    BY <2>1, NodeMove DEF TypeOK
  <2>3. \A m \in DOMAIN tx : tx[m].view \subseteq ever /\ tx[m].inputs \subseteq ever
    BY DEF LedgerInv, LargestFirst
  <2>4. \A m \in DOMAIN tx \ {n} : Accepted(m) => tx[m].inputs \cap tx[n].inputs = {}
    BY <2>1 DEF LedgerInv, Accepted
  <2>5. ASSUME NEW m \in DOMAIN tx
        PROVE  /\ tx'[m].view \subseteq ever'
               /\ tx'[m].inputs \in LargestFirst(tx'[m].view)
               /\ tx'[m].at = "mempool" => tx'[m].inputs \subseteq unspent'
               /\ tx'[m].at = "chain" => tx'[m].inputs \cap unspent' = {}
    <3>1. tx'[m].view = tx[m].view /\ tx'[m].inputs = tx[m].inputs
          /\ tx'[m].at = IF m = n THEN "chain" ELSE tx[m].at
      BY <2>1, MoveFacts
    <3>2. CASE m = n
      BY <2>1, <2>3, <3>1, <3>2 DEF LedgerInv
    <3>3. CASE m # n
      BY <2>1, <2>3, <2>4, <3>1, <3>3 DEF LedgerInv, Accepted
    <3> QED
      BY <3>2, <3>3
  <2>6. ASSUME NEW m \in DOMAIN tx, NEW k \in DOMAIN tx, m # k,
               tx'[m].at \in {"mempool", "chain"}, tx'[k].at \in {"mempool", "chain"}
        PROVE  tx'[m].inputs \cap tx'[k].inputs = {}
    BY <2>1, <2>4, <2>6, MoveFacts DEF LedgerInv, Accepted
  <2>7. LedgerInv'
    BY <2>1, <2>5, <2>6, MoveFacts DEF LedgerInv, Accepted
  <2> QED
    BY <2>1, <2>2, <2>7 DEF Inv, ViewInv
<1> QED
  BY <1>1, <1>2, <1>3

LEMMA ReceiveInv == ASSUME Inv, NEW c \in Coins, Receive(c) PROVE Inv'
<1>1. /\ c \notin ever /\ unspent' = unspent \cup {c} /\ ever' = ever \cup {c}
      /\ UNCHANGED <<form, edits, screen, pc, asked, view, sent, tx>>
  BY DEF Receive
<1>2. TypeOK'
  BY <1>1 DEF Inv, TypeOK
<1>3. \A m \in DOMAIN tx : tx[m].inputs \subseteq ever
  BY DEF Inv, LedgerInv, LargestFirst
<1>4. LedgerInv'
  BY <1>1, <1>3 DEF Inv, LedgerInv, Accepted
<1>5. FlowInv' /\ SentInv' /\ ViewInv' /\ PaysWhatWasConfirmed' /\ ShowsTheTruth'
  BY <1>1 DEF Inv, FlowInv, SentInv, ViewInv, PaysWhatWasConfirmed, ShowsTheTruth
<1> QED
  BY <1>2, <1>4, <1>5 DEF Inv

\* A screen posts the transaction it has built, or learns that it was refused.
LEMMA OwnMove ==
  ASSUME Inv, NEW s \in Screens, NEW at \in {"posted", "refused"}, Move(sent[s], at),
         \/ pc[s] = "sign" /\ at = "posted" /\ pc'[s] = "submit"
         \/ /\ pc[s] = "submit" /\ tx[sent[s]].at = "posted"
            /\ at = "refused" /\ pc'[s] = "idle",
         \A t \in Screens \ {s} : screen'[t] = screen[t] /\ pc'[t] = pc[t],
         screen' \in [Screens -> Screen], pc' = [pc EXCEPT ![s] = pc'[s]],
         screen'[s].shown = screen[s].shown, screen'[s].hash = screen[s].hash,
         screen'[s].status \in {screen[s].status, "submitting", "null"},
         screen[s].shown = "open" => (screen'[s].loading <=> pc'[s] = "submit"),
         UNCHANGED <<form, edits, asked, view, sent, unspent, ever>>
  PROVE  Inv'
<1> DEFINE n == sent[s]
<1>1. /\ TypeOK /\ n # 0 /\ n \in DOMAIN tx /\ at \in Ats
      /\ tx[n].at \in {"built", "posted", "mempool", "chain", "expired"}
      /\ screen[s].shown # "new"
  BY IndexFacts DEF Inv, FlowInv, Ats
<1>11. screen[s].shown \in {"open", "left"}
  BY <1>1, Before DEF Screen
<1>2. /\ tx' \in Seq(Tx) /\ Len(tx') = Len(tx) /\ DOMAIN tx' = DOMAIN tx
      /\ tx'[n].at = at
      /\ \A m \in DOMAIN tx \ {n} : tx'[m] = tx[m]
      /\ \A m \in DOMAIN tx : /\ tx'[m].form = tx[m].form /\ tx'[m].asked = tx[m].asked
                              /\ tx'[m].view = tx[m].view /\ tx'[m].inputs = tx[m].inputs
  BY <1>1, MoveFacts
<1>3. tx[n].at \in {"built", "posted"}
  BY DEF Inv, FlowInv
<1>4. TypeOK'
  <2>1. pc' \in [Screens -> {"idle", "preview", "fee", "dialog", "fetch", "build",
                             "sign", "submit", "poll"}]
    BY <1>1 DEF TypeOK
  <2> QED
    BY <1>1, <1>2, <2>1 DEF TypeOK
<1>5. \A t \in Screens \ {s} : sent[t] # 0 => sent[t] \in DOMAIN tx \ {n}
  BY <1>1, IndexFacts DEF Inv, SentInv
<1>6. \A t \in Screens : screen[t].hash # 0 => screen[t].hash \in DOMAIN tx \ {n}
  BY <1>3, IndexFacts DEF Inv, ShowsTheTruth
<1> HIDE DEF n
<1>7. FlowInv'
  <2> SUFFICES ASSUME NEW r \in Screens
               PROVE
        (/\ screen[r].shown = "new" => pc[r] = "idle"
         /\ screen[r].shown # "left" =>
              (screen[r].loading <=> pc[r] \notin {"idle", "dialog"})
         /\ pc[r] \in {"sign", "submit", "poll"} => sent[r] # 0
         /\ pc[r] = "sign" => tx[sent[r]].at = "built"
         /\ pc[r] = "submit" => tx[sent[r]].at \in {"posted", "mempool", "chain", "expired"}
         /\ pc[r] = "poll" => tx[sent[r]].at \in {"mempool", "chain", "expired"}
         /\ pc[r] = "poll" /\ screen[r].shown = "open" => screen[r].hash = sent[r]
         /\ screen[r].hash \in 0 .. Len(tx))'
    BY DEF FlowInv
  <2>1. CASE r = s
    BY <1>1, <1>2, <1>11, <2>1 DEF Inv, FlowInv, n
  <2>2. CASE r # s
    BY <1>2, <1>5, <2>2 DEF Inv, FlowInv
  <2> QED
    BY <2>1, <2>2
<1>8. ShowsTheTruth'
  BY <1>2, <1>6 DEF Inv, ShowsTheTruth
<1>9. LedgerInv'
  BY <1>1, <1>2 DEF Inv, LedgerInv, Accepted
<1>10. SentInv' /\ ViewInv' /\ PaysWhatWasConfirmed'
  BY <1>2 DEF Inv, SentInv, ViewInv, PaysWhatWasConfirmed
<1> QED
  BY <1>4, <1>7, <1>8, <1>9, <1>10 DEF Inv

LEMMA SubmitInv == ASSUME Inv, NEW s \in Screens, Submit(s) PROVE Inv'
<1>1. CASE screen[s].shown = "open"
  <2> DEFINE u == [screen[s] EXCEPT !.status = "submitting"]
  <2>1. u \in Screen /\ u.shown = screen[s].shown /\ u.hash = screen[s].hash
        /\ u.status = "submitting" /\ u.loading = screen[s].loading
    BY Before DEF Screen
  <2>2. SetState(s, u) /\ Move(sent[s], "posted") /\ pc[s] = "sign"
        /\ pc' = [pc EXCEPT ![s] = "submit"]
        /\ UNCHANGED <<form, edits, asked, view, sent, unspent, ever>>
    BY <1>1 DEF Submit
  <2> HIDE DEF u
  <2>3. pc'[s] = "submit" /\ \A t \in Screens \ {s} : pc'[t] = pc[t]
    BY <2>2 DEF Inv, TypeOK
  <2>4. screen[s].loading
    BY <1>1, <2>2 DEF Inv, FlowInv
  <2>5. /\ screen' \in [Screens -> Screen] /\ screen'[s] = u
        /\ \A t \in Screens \ {s} : screen'[t] = screen[t]
    BY <1>1, <2>1, <2>2, Before, SetStateFacts
  <2> QED
    BY <2>1, <2>2, <2>3, <2>4, <2>5, OwnMove
<1>2. CASE screen[s].shown # "open"
  BY <1>2, CatchInv DEF Submit
<1> QED
  BY <1>1, <1>2

LEMMA SubmitFailsInv == ASSUME Inv, NEW s \in Screens, SubmitFails(s) PROVE Inv'
<1>1. pc[s] = "submit" /\ Catch(s)
      /\ UNCHANGED <<form, edits, asked, view, sent, unspent, ever>>
  BY DEF SubmitFails
<1>2. CASE UNCHANGED tx
  BY <1>1, <1>2, CatchInv
<1>3. CASE tx[sent[s]].at = "posted" /\ Move(sent[s], "refused")
  <2>1. PICK u \in Screen : /\ SetState(s, u) /\ pc' = [pc EXCEPT ![s] = "idle"]
                            /\ u.shown = screen[s].shown /\ u.hash = screen[s].hash
                            /\ u.status = "null" /\ ~u.loading
    BY <1>1, CatchFacts
  <2>2. pc'[s] = "idle" /\ \A t \in Screens \ {s} : pc'[t] = pc[t]
    BY <2>1 DEF Inv, TypeOK
  <2>3. /\ screen' \in [Screens -> Screen] /\ screen'[s] \in {u, screen[s]}
        /\ \A t \in Screens \ {s} : screen'[t] = screen[t]
        /\ screen[s].shown = "open" => ~screen'[s].loading
    BY <2>1, Before, SetStateFacts
  <2> QED
    BY <1>1, <1>3, <2>1, <2>2, <2>3, OwnMove
<1> QED
  BY <1>2, <1>3 DEF SubmitFails

-----------------------------------------------------------------------------

\* The inductive invariant.
THEOREM Invariance == Spec => []Inv
<1>1. Inv /\ [Next]_vars => Inv'
  <2> SUFFICES ASSUME Inv, [Next]_vars PROVE Inv'
    OBVIOUS
  <2>1. CASE Chain
    BY <2>1, ChainInv, ReceiveInv DEF Chain
  <2>2. CASE \E s \in Screens : Step(s) \/ PollFails(s)
    BY <2>2, UserInv, FlowInvStep, FetchInv, BuildInv, SubmitInv, SubmitFailsInv DEF Step
  <2>3. CASE \E s \in Screens : User(s)
    BY <2>3, UserInv, PreviewInv, SendInv, FlowInvStep DEF User
  <2>4. CASE UNCHANGED vars
    BY <2>4 DEF vars, Inv, TypeOK, FlowInv, SentInv, LedgerInv, ViewInv, Accepted,
                PaysWhatWasConfirmed, ShowsTheTruth
  <2> QED
    BY <2>1, <2>2, <2>3, <2>4 DEF Next
<1> QED
  BY <1>1, InitInv, PTL DEF Spec

\* No call of a screen starts while another one is running.
THEOREM OneCallAtATime == Spec => []NoOverlap
<1>1. Inv => NoOverlap
  BY TapIdle DEF NoOverlap, Inv, TypeOK, FlowInv, Screen
<1> QED
  BY <1>1, Invariance, PTL

\* A payment pays the recipient and the amount that were confirmed, whatever
\* was typed while it was built.
THEOREM PaysAsConfirmed == Spec => []PaysWhatWasConfirmed
<1>1. Inv => PaysWhatWasConfirmed
  BY DEF Inv
<1> QED
  BY <1>1, Invariance, PTL

\* What a screen says of its transaction is so.
THEOREM TellsTheTruth == Spec => []ShowsTheTruth
<1>1. Inv => ShowsTheTruth
  BY DEF Inv
<1> QED
  BY <1>1, Invariance, PTL

\* Only the screen that built a transaction posts it, and only while it is open:
\* the ledger moves none that was not posted.
LEMMA BuiltStays ==
  ASSUME Inv, Next, NEW s \in Screens, screen[s].shown = "left", sent[s] # 0,
         tx[sent[s]].at = "built"
  PROVE  tx'[sent[s]].at = "built"
<1> DEFINE n == sent[s]
<1>1. TypeOK /\ n \in DOMAIN tx /\ tx[n].at = "built"
  BY IndexFacts DEF Inv
<1>2. ASSUME NEW m \in DOMAIN tx, NEW at \in Ats, Move(m, at), m # n PROVE tx'[n].at = "built"
  BY <1>1, <1>2, MoveFacts
<1>3. CASE UNCHANGED tx
  BY <1>1, <1>3
<1>4. CASE Chain
  <2>1. ASSUME NEW m \in DOMAIN tx, Accept(m) \/ Expire(m) \/ (\E change \in SUBSET Coins : Mint(m, change))
        PROVE  tx'[n].at = "built"
    BY <1>1, <1>2, <2>1 DEF Accept, Expire, Mint, Ats
  <2> QED
    BY <1>3, <1>4, <2>1 DEF Chain, Receive
<1>5. ASSUME NEW t \in Screens, Build(t) PROVE tx'[n].at = "built"
  <2>1. PICK r : tx' = Append(tx, r)
    BY <1>5 DEF Build, Built
  <2>2. tx \in Seq(Tx) /\ n \in 1 .. Len(tx)
    BY <1>1 DEF TypeOK
  <2> HIDE DEF n
  <2>3. tx'[n] = tx[n]
    BY <2>1, <2>2
  <2> QED
    BY <1>1, <2>3
<1>6. ASSUME NEW t \in Screens, Submit(t) PROVE tx'[n].at = "built"
  <2>1. CASE screen[t].shown = "open"
    <3>1. /\ Move(sent[t], "posted") /\ t # s /\ pc[t] = "sign"
      BY <1>6, <2>1 DEF Submit
    <3>2. sent[t] \in DOMAIN tx /\ sent[t] # n
      BY <3>1, IndexFacts DEF Inv, FlowInv, SentInv
    <3> QED
      BY <1>2, <3>1, <3>2 DEF Ats
  <2>2. CASE screen[t].shown # "open"
    BY <1>3, <1>6, <2>2 DEF Submit
  <2> QED
    BY <2>1, <2>2
<1>7. ASSUME NEW t \in Screens, SubmitFails(t) PROVE tx'[n].at = "built"
  <2>1. CASE tx[sent[t]].at = "posted" /\ Move(sent[t], "refused")
    <3>1. sent[t] # n /\ sent[t] \in DOMAIN tx
      BY <1>1, <1>7, <2>1, IndexFacts DEF SubmitFails, Inv, FlowInv
    <3> QED
      BY <1>2, <2>1, <3>1 DEF Ats
  <2> QED
    BY <1>3, <1>7, <2>1 DEF SubmitFails
<1>8. ASSUME NEW t \in Screens,
             \/ PreviewBuild(t) \/ PreviewShown(t) \/ PreviewFails(t) \/ Fetch(t) \/ Fails(t)
             \/ Submitted(t) \/ Confirmed(t) \/ TimesOut(t) \/ PollFails(t) \/ User(t)
      PROVE  UNCHANGED tx
  BY <1>8 DEF PreviewBuild, PreviewShown, PreviewFails, Fetch, Fails, Submitted, Confirmed,
              TimesOut, PollFails, User, Open, Leave, Preview, Send, Rejects, Cancel, Confirm, Edit
<1> QED
  BY <1>3, <1>4, <1>5, <1>6, <1>7, <1>8 DEF Next, Step

\* A payment whose screen is left before it was posted is never posted.
THEOREM LeavingIsFinal == Spec => LeavingCallsOff
<1>1. Inv /\ [Next]_vars =>
        [\A s \in Screens : screen[s].shown = "left" /\ sent[s] # 0 =>
            ~(tx[sent[s]].at = "built" /\ tx'[sent[s]].at # "built")]_vars
  BY BuiltStays
<1> QED
  BY <1>1, Invariance, PTL DEF Spec, LeavingCallsOff

\* Two payments built while the wallet's largest output was the same one are
\* never both accepted.
THEOREM NoDoublePayment == Spec => []OnePaymentPerView
<1>1. Inv => OnePaymentPerView
  <2> SUFFICES ASSUME Inv, NEW n \in DOMAIN tx, NEW m \in DOMAIN tx, NEW c \in Coins,
                      n # m, Accepted(n), Accepted(m),
                      IsLargest(c, tx[n].view), IsLargest(c, tx[m].view)
               PROVE  FALSE
    BY DEF OnePaymentPerView
  <2>1. ASSUME NEW k \in DOMAIN tx, IsLargest(c, tx[k].view) PROVE c \in tx[k].inputs
    <3>1. tx[k].inputs \in LargestFirst(tx[k].view) /\ tx[k].view \subseteq Coins
      BY DEF Inv, LedgerInv, TypeOK
    <3>2. PICK d \in tx[k].inputs : d \in tx[k].view
      <4>1. tx[k].inputs # {} /\ tx[k].inputs \subseteq tx[k].view
        BY <3>1 DEF LargestFirst
      <4> QED
        BY <4>1
    <3>3. d <= c /\ c \in tx[k].view /\ c \in Nat /\ d \in Nat
      BY <2>1, <3>1, <3>2 DEF IsLargest
    <3> QED
      BY <3>1, <3>2, <3>3 DEF LargestFirst
  <2> QED
    BY <2>1 DEF Inv, LedgerInv
<1> QED
  BY <1>1, Invariance, PTL

=============================================================================

----------------------- MODULE BlockfrostSubmitProofs -----------------------
(***************************************************************************)
(* Proofs about BlockfrostSubmit, for any set of calls, any inputs and any *)
(* number of retries: the type invariant, the inductive invariant behind   *)
(* the safety properties, and the implementation of SubmitContract.        *)
(***************************************************************************)
EXTENDS BlockfrostSubmit, TLAPS

(***************************************************************************)
(* Type correctness.                                                       *)
(***************************************************************************)

\* Every verdict is an outcome the application can see.
LEMMA VerdictType ==
    ASSUME NEW s \in Status PROVE Verdict(s) \in Outcomes \ {"pending"}
BY DEF Verdict, Status, Outcomes

TypeInv == TypeOK /\ CountInv

LEMMA InitTypeInv == Init => TypeInv
BY SubmitAssumption
   DEF Init, TypeInv, TypeOK, CountInv, PCs, Status, NoAnswer, Outcomes

LEMMA SendTypeInv ==
    ASSUME TypeInv, NEW c \in Calls, Send(c) PROVE TypeInv'
<1>1. attempt[c] \in 0 .. MaxRetries
    BY SubmitAssumption DEF Send, TypeInv, TypeOK, CountInv
<1>2. TypeOK'
    BY <1>1, SubmitAssumption DEF Send, TypeInv, TypeOK, Attempts, PCs
<1>3. CountInv'
    BY <1>1, SubmitAssumption DEF Send, TypeInv, TypeOK, CountInv
<1>. QED BY <1>2, <1>3 DEF TypeInv

LEMMA WaitEndsTypeInv ==
    ASSUME TypeInv, NEW c \in Calls, Receive(c) \/ Timeout(c) \/ ConnectionError(c)
    PROVE  TypeInv'
<1>1. /\ pc[c] = "waiting"
      /\ attempt' = attempt /\ wire' = wire /\ accepted' = accepted
      /\ answer' = [answer EXCEPT ![c] = NoAnswer]
    BY DEF Receive, Timeout, ConnectionError
<1>2. \/ Backoff(c) /\ CanRetry(c)
      \/ \E o \in Outcomes \ {"pending"} : End(c, o)
    <2>1. CASE Receive(c)
        <3>1. answer[c] \in Status
            BY <2>1 DEF Receive, TypeInv, TypeOK
        <3>. QED BY <2>1, <3>1, VerdictType DEF Receive
    <2>2. CASE Timeout(c)
        BY <2>2 DEF Timeout, Outcomes
    <2>3. CASE ConnectionError(c)
        BY <2>3 DEF ConnectionError, Outcomes
    <2>. QED BY <2>1, <2>2, <2>3
<1>3. TypeOK'
    BY <1>1, <1>2 DEF TypeInv, TypeOK, Backoff, End, PCs
<1>4. CountInv'
    BY <1>1, <1>2, SubmitAssumption
    DEF TypeInv, TypeOK, CountInv, Backoff, End, CanRetry, PCs
<1>. QED BY <1>3, <1>4 DEF TypeInv

\* What any step of the node does, whatever it decides.
LEMMA NodeStep ==
    ASSUME NEW c \in Calls, NEW n \in Attempts, Node(c, n)
    PROVE  /\ UNCHANGED <<pc, attempt, outcome>>
           /\ <<c, n>> \in wire
           /\ wire' = wire \ {<<c, n>>}
           /\ \E s \in Status :
                answer' = IF pc[c] = "waiting" /\ attempt[c] = n
                          THEN [answer EXCEPT ![c] = s] ELSE answer
           /\ accepted' = accepted \/ accepted' = accepted \cup {c}
BY DEF Node, NodeAccepts, NodeRejects, ServiceRefuses, Process, Status

LEMMA NodeTypeInv ==
    ASSUME TypeInv, NEW c \in Calls, NEW n \in Attempts, Node(c, n)
    PROVE  TypeInv'
<1>1. PICK s \in Status :
         answer' = IF pc[c] = "waiting" /\ attempt[c] = n
                   THEN [answer EXCEPT ![c] = s] ELSE answer
    BY NodeStep
<1>2. answer' \in [Calls -> Status \cup {NoAnswer}]
    BY <1>1 DEF TypeInv, TypeOK
<1>3. wire' \subseteq Calls \X Attempts /\ accepted' \subseteq Calls
    BY NodeStep DEF TypeInv, TypeOK
<1>4. TypeOK'
    BY NodeStep, <1>2, <1>3 DEF TypeInv, TypeOK
<1>5. CountInv'
    BY NodeStep DEF TypeInv, CountInv
<1>. QED BY <1>4, <1>5 DEF TypeInv

LEMMA NextTypeInv == TypeInv /\ [Next]_vars => TypeInv'
<1>1. ASSUME TypeInv, NEW c \in Calls, Client(c) PROVE TypeInv'
    BY <1>1, SendTypeInv, WaitEndsTypeInv DEF Client
<1>2. ASSUME TypeInv, NEW c \in Calls, NEW n \in Attempts, Node(c, n)
      PROVE  TypeInv'
    BY <1>2, NodeTypeInv
<1>3. ASSUME TypeInv, UNCHANGED vars PROVE TypeInv'
    BY <1>3 DEF TypeInv, TypeOK, CountInv, vars
<1>. QED BY <1>1, <1>2, <1>3 DEF Next

\* The type invariant of the retry loop; in particular no call makes more than
\* MaxRetries + 1 attempts.
THEOREM TypeCorrect == Spec => []TypeOK
<1>1. TypeInv => TypeOK
    BY DEF TypeInv
<1>. QED BY <1>1, InitTypeInv, NextTypeInv, PTL DEF Spec

(***************************************************************************)
(* The inductive invariant Inv.                                            *)
(***************************************************************************)

LEMMA InitInv == Init => Inv
<1>. SUFFICES ASSUME Init PROVE Inv
    OBVIOUS
<1>1. TypeOK /\ CountInv
    BY InitTypeInv DEF TypeInv
<1>2. /\ WireInv /\ SuccessInv /\ FirstAttemptInv /\ DisjointInv
      /\ FirstRefusalIsFinal /\ ServerErrorAfterRetries
    BY DEF Init, WireInv, SuccessInv, FirstAttemptInv, DisjointInv,
           FirstRefusalIsFinal, ServerErrorAfterRetries, NoAnswer, Refusals,
           Definitive
<1>. QED BY <1>1, <1>2 DEF Inv

LEMMA SendInv ==
    ASSUME Inv, NEW c \in Calls, Send(c) PROVE Inv'
<1>. USE DEF Inv
<1>1. TypeOK' /\ CountInv'
    BY SendTypeInv DEF TypeInv
<1>2. /\ attempt[c] \in Nat
      /\ attempt[c] + 1 \in Attempts
      /\ outcome[c] = "pending"
      /\ pc[c] # "waiting"
    BY SubmitAssumption DEF Send, TypeOK, CountInv, Attempts
<1>3. /\ attempt' = [attempt EXCEPT ![c] = attempt[c] + 1]
      /\ wire' = wire \cup {<<c, attempt[c] + 1>>}
      /\ pc' = [pc EXCEPT ![c] = "waiting"]
      /\ UNCHANGED <<answer, outcome, accepted>>
    BY DEF Send
<1>4. answer[c] = NoAnswer
    BY <1>2 DEF WireInv
<1>5. WireInv'
    <2>. SUFFICES ASSUME NEW d \in Calls
                  PROVE  /\ \A n \in Attempts : <<d, n>> \in wire' => n <= attempt'[d]
                         /\ answer'[d] # NoAnswer =>
                              pc'[d] = "waiting" /\ <<d, attempt'[d]>> \notin wire'
        BY DEF WireInv
    <2>1. CASE d = c
        <3>1. attempt'[c] = attempt[c] + 1
            BY <1>3 DEF TypeOK
        <3>2. ASSUME NEW n \in Attempts, <<c, n>> \in wire' PROVE n <= attempt[c] + 1
            <4>1. <<c, n>> \in wire \/ n = attempt[c] + 1
                BY <3>2, <1>3
            <4>2. n \in Int
                BY SubmitAssumption DEF Attempts
            <4>3. <<c, n>> \in wire => n <= attempt[c]
                BY DEF WireInv
            <4>4. attempt[c] \in Nat
                BY <1>2
            <4>. QED BY <4>1, <4>2, <4>3, <4>4
        <3>. QED BY <2>1, <3>1, <3>2, <1>3, <1>4
    <2>2. CASE d # c
        BY <2>2, <1>3 DEF WireInv, TypeOK
    <2>. QED BY <2>1, <2>2
<1>6. SuccessInv'
    BY <1>3 DEF SuccessInv
<1>7. FirstAttemptInv'
    <2>. SUFFICES ASSUME NEW d \in Calls
                  PROVE  /\ attempt'[d] = 0 => d \notin accepted
                         /\ attempt'[d] = 1 /\ (<<d, 1>> \in wire' \/ answer[d] \in Refusals)
                              => d \notin accepted
        BY <1>3 DEF FirstAttemptInv
    <2>1. CASE d = c
        <3>1. attempt'[c] = attempt[c] + 1
            BY <1>3 DEF TypeOK
        <3>. QED BY <2>1, <3>1, <1>2 DEF FirstAttemptInv
    <2>2. CASE d # c
        BY <2>2, <1>3 DEF FirstAttemptInv, TypeOK
    <2>. QED BY <2>1, <2>2
<1>8. DisjointInv'
    BY <1>3 DEF DisjointInv
<1>9. FirstRefusalIsFinal' /\ ServerErrorAfterRetries'
    BY <1>2, <1>3
    DEF FirstRefusalIsFinal, ServerErrorAfterRetries, TypeOK, Definitive
<1>. QED BY <1>1, <1>5, <1>6, <1>7, <1>8, <1>9

\* What a call may end with, given the answer it read.
LEMMA EndingStep ==
    ASSUME Inv, NEW c \in Calls, Receive(c) \/ Timeout(c) \/ ConnectionError(c)
    PROVE  /\ pc[c] = "waiting"
           /\ UNCHANGED <<attempt, wire, accepted>>
           /\ answer' = [answer EXCEPT ![c] = NoAnswer]
           /\ \/ Backoff(c)
              \/ \E o \in Outcomes \ {"pending"} :
                    /\ End(c, o)
                    /\ o = "hash" => answer[c] = "ok"
                    /\ o \in Definitive => answer[c] \in Refusals
                    /\ o = "ServerError" => attempt[c] = MaxRetries + 1
<1>1. CASE Receive(c)
    <2>1. answer[c] \in Status
        BY <1>1 DEF Receive, Inv, TypeOK
    <2>2. attempt[c] \in 0 .. MaxRetries + 1
        BY DEF Inv, TypeOK
    <2>3. /\ Verdict(answer[c]) \in Outcomes \ {"pending"}
          /\ Verdict(answer[c]) = "hash" => answer[c] = "ok"
          /\ Verdict(answer[c]) \in Definitive => answer[c] \in Refusals
          /\ Verdict(answer[c]) = "ServerError" => answer[c] = "serverError"
        BY <2>1 DEF Verdict, Status, Definitive, Refusals, Outcomes
    <2>4. CASE answer[c] = "serverError" /\ CanRetry(c)
        BY <1>1, <2>4 DEF Receive
    <2>5. CASE ~(answer[c] = "serverError" /\ CanRetry(c))
        <3>1. answer[c] = "serverError" => attempt[c] = MaxRetries + 1
            BY <2>2, <2>5, SubmitAssumption DEF CanRetry
        <3>. QED BY <1>1, <2>3, <2>5, <3>1 DEF Receive
    <2>. QED BY <2>4, <2>5
<1>2. CASE Timeout(c)
    BY <1>2 DEF Timeout, Outcomes, Definitive
<1>3. CASE ConnectionError(c)
    BY <1>3 DEF ConnectionError, Outcomes, Definitive
<1>. QED BY <1>1, <1>2, <1>3

LEMMA EndingInv ==
    ASSUME Inv, NEW c \in Calls, Receive(c) \/ Timeout(c) \/ ConnectionError(c)
    PROVE  Inv'
<1>. USE DEF Inv
<1>1. TypeOK' /\ CountInv'
    BY WaitEndsTypeInv DEF TypeInv
<1>2. /\ pc[c] = "waiting"
      /\ UNCHANGED <<attempt, wire, accepted>>
      /\ answer' = [answer EXCEPT ![c] = NoAnswer]
    BY EndingStep
<1>3. \A d \in Calls : d # c => pc'[d] = pc[d] /\ outcome'[d] = outcome[d]
    BY EndingStep DEF Backoff, End, TypeOK
<1>4. WireInv'
    BY <1>2, <1>3 DEF WireInv, TypeOK
<1>5. /\ outcome[c] = "pending"
      /\ \/ outcome'[c] = "pending"
         \/ /\ outcome'[c] = "hash" => answer[c] = "ok"
            /\ outcome'[c] \in Definitive => answer[c] \in Refusals
            /\ outcome'[c] = "ServerError" => attempt[c] = MaxRetries + 1
    BY EndingStep DEF Backoff, End, TypeOK, CountInv
<1>6. SuccessInv'
    BY <1>2, <1>3, <1>5 DEF SuccessInv, TypeOK, NoAnswer
<1>7. FirstAttemptInv'
    BY <1>2 DEF FirstAttemptInv, TypeOK, NoAnswer, Refusals
<1>8. DisjointInv'
    BY <1>2 DEF DisjointInv
<1>9. FirstRefusalIsFinal'
    <2>. SUFFICES ASSUME NEW d \in Calls,
                         outcome'[d] \in Definitive, attempt'[d] = 1
                  PROVE  d \notin accepted' /\ \A n \in Attempts : <<d, n>> \notin wire'
        BY DEF FirstRefusalIsFinal
    <2>1. CASE d # c
        BY <2>1, <1>2, <1>3 DEF FirstRefusalIsFinal
    <2>2. CASE d = c
        <3>1. answer[c] \in Refusals
            BY <2>2, <1>5 DEF Definitive
        <3>2. c \notin accepted
            BY <2>2, <3>1, <1>2 DEF FirstAttemptInv
        <3>3. <<c, 1>> \notin wire
            BY <2>2, <3>1, <1>2 DEF WireInv, Refusals, NoAnswer
        <3>4. ASSUME NEW n \in Attempts, <<c, n>> \in wire PROVE n = 1
            <4>1. n <= attempt[c] /\ attempt[c] = 1
                BY <2>2, <3>4, <1>2 DEF WireInv
            <4>2. n \in Int /\ 1 <= n
                BY SubmitAssumption DEF Attempts
            <4>. QED BY <4>1, <4>2
        <3>. QED BY <2>2, <3>2, <3>3, <3>4, <1>2
    <2>. QED BY <2>1, <2>2
<1>10. ServerErrorAfterRetries'
    BY <1>2, <1>3, <1>5 DEF ServerErrorAfterRetries
<1>. QED BY <1>1, <1>4, <1>6, <1>7, <1>8, <1>9, <1>10

LEMMA NodeInv ==
    ASSUME Inv, NEW c \in Calls, NEW n \in Attempts, Node(c, n)
    PROVE  Inv'
<1>. USE DEF Inv
<1>1. TypeOK' /\ CountInv'
    BY NodeTypeInv DEF TypeInv
<1>2. PICK s \in Status :
         /\ answer' = IF pc[c] = "waiting" /\ attempt[c] = n
                      THEN [answer EXCEPT ![c] = s] ELSE answer
         /\ \/ accepted' = accepted \cup {c} /\ Applicable(c) /\ s \notin Refusals
            \/ accepted' = accepted /\ s # "ok"
    BY DEF Node, NodeAccepts, NodeRejects, ServiceRefuses, Process, Status, Refusals
<1>3. /\ UNCHANGED <<pc, attempt, outcome>>
      /\ <<c, n>> \in wire
      /\ wire' = wire \ {<<c, n>>}
    BY NodeStep
<1>4. n <= attempt[c]
    BY <1>3 DEF WireInv
<1>5. \A d \in Calls : d # c => answer'[d] = answer[d]
    BY <1>2 DEF TypeOK
<1>6. answer'[c] = answer[c] \/ (pc[c] = "waiting" /\ attempt[c] = n /\ answer'[c] = s)
    BY <1>2 DEF TypeOK
<1>7. WireInv'
    BY <1>3, <1>5, <1>6 DEF WireInv
<1>8. SuccessInv'
    BY <1>2, <1>3, <1>5, <1>6 DEF SuccessInv
<1>9. n \in Nat /\ 1 <= n /\ attempt[c] \in Nat
    BY SubmitAssumption DEF TypeOK, Attempts
<1>10. attempt[c] = 1 => n = 1
    BY <1>4, <1>9
<1>11. FirstAttemptInv'
    <2>. SUFFICES ASSUME NEW d \in Calls
                  PROVE  /\ attempt[d] = 0 => d \notin accepted'
                         /\ attempt[d] = 1 /\ (<<d, 1>> \in wire' \/ answer'[d] \in Refusals)
                              => d \notin accepted'
        BY <1>3 DEF FirstAttemptInv
    <2>1. CASE d # c
        BY <2>1, <1>2, <1>3, <1>5 DEF FirstAttemptInv
    <2>2. CASE d = c
        <3>1. attempt[c] # 0
            BY <1>4, <1>9
        <3>2. attempt[c] = 1 => <<c, 1>> \notin wire' /\ c \notin accepted
            BY <1>3, <1>10 DEF FirstAttemptInv
        <3>3. attempt[c] = 1 /\ answer'[c] \in Refusals => answer'[c] = s
            BY <1>3, <1>6, <1>10 DEF WireInv, Refusals, NoAnswer
        <3>. QED BY <2>2, <3>1, <3>2, <3>3, <1>2
    <2>. QED BY <2>1, <2>2
<1>12. DisjointInv'
    <2>1. CASE accepted' = accepted
        BY <2>1 DEF DisjointInv
    <2>2. CASE accepted' = accepted \cup {c} /\ Applicable(c)
        <3>1. \A d \in accepted : Spends[c] \cap Spends[d] = {}
            BY <2>2 DEF Applicable, Spent
        <3>. QED BY <2>2, <3>1 DEF DisjointInv
    <2>. QED BY <1>2, <2>1, <2>2
<1>13. FirstRefusalIsFinal'
    BY <1>2, <1>3 DEF FirstRefusalIsFinal
<1>14. ServerErrorAfterRetries'
    BY <1>3 DEF ServerErrorAfterRetries
<1>. QED BY <1>1, <1>7, <1>8, <1>11, <1>12, <1>13, <1>14

LEMMA NextInv == Inv /\ [Next]_vars => Inv'
<1>1. ASSUME Inv, NEW c \in Calls, Client(c) PROVE Inv'
    BY <1>1, SendInv, EndingInv DEF Client
<1>2. ASSUME Inv, NEW c \in Calls, NEW n \in Attempts, Node(c, n) PROVE Inv'
    BY <1>2, NodeInv
<1>3. ASSUME Inv, UNCHANGED vars PROVE Inv'
    BY <1>3 DEF vars, Inv, TypeOK, CountInv, WireInv, SuccessInv,
        FirstAttemptInv, DisjointInv, FirstRefusalIsFinal, ServerErrorAfterRetries
<1>. QED BY <1>1, <1>2, <1>3 DEF Next

\* Inv is an invariant: in particular a hash is returned only for a
\* transaction the node took.
THEOREM Invariance == Spec => []Inv
BY InitInv, NextInv, PTL DEF Spec

\* The application may treat a refusal of the first attempt as final.
THEOREM RefusalFinal == Spec => []FirstRefusalIsFinal
<1>1. Inv => FirstRefusalIsFinal
    BY DEF Inv
<1>. QED BY <1>1, Invariance, PTL

\* BlockfrostServerError is only thrown once every retry has been used.
THEOREM RetriesUsed == Spec => []ServerErrorAfterRetries
<1>1. Inv => ServerErrorAfterRetries
    BY DEF Inv
<1>. QED BY <1>1, Invariance, PTL

\* Two submissions that spend a common input are never both reported as sent.
THEOREM NoDoubleSent == Spec => []OneOfConflictingSent
<1>1. Inv => OneOfConflictingSent
    BY DEF Inv, SuccessInv, DisjointInv, OneOfConflictingSent
<1>. QED BY <1>1, Invariance, PTL

(***************************************************************************)
(* BlockfrostSubmit implements SubmitContract.                             *)
(***************************************************************************)

\* The report of a call moves only with its outcome, or with its attempt once
\* the call has ended.
LEMMA ReportUnchanged ==
    ASSUME NEW d \in Calls, outcome'[d] = outcome[d],
           attempt'[d] = attempt[d] \/ outcome[d] = "pending"
    PROVE  ReportOf(d)' = ReportOf(d)
BY DEF ReportOf

LEMMA ContractInit == Init => Contract!Init
BY DEF Init, Contract!Init, ReportOf

LEMMA ContractSend ==
    ASSUME Inv, NEW c \in Calls, Send(c) PROVE UNCHANGED Contract!vars
<1>1. outcome[c] = "pending"
    BY DEF Send, Inv, CountInv
<1>2. \A d \in Calls : ReportOf(d)' = ReportOf(d)
    BY <1>1, ReportUnchanged DEF Send, Inv, TypeOK
<1>. QED BY <1>2 DEF Send, Contract!vars

LEMMA ContractEnding ==
    ASSUME Inv, NEW c \in Calls, Receive(c) \/ Timeout(c) \/ ConnectionError(c)
    PROVE  Contract!Next \/ UNCHANGED Contract!vars
<1>1. \A d \in Calls : d # c => ReportOf(d)' = ReportOf(d)
    BY EndingStep, ReportUnchanged DEF Backoff, End, Inv, TypeOK
<1>2. accepted' = accepted /\ outcome[c] = "pending" /\ ReportOf(c) = "pending"
    BY EndingStep DEF Inv, CountInv, ReportOf, Definitive
<1>3. CASE Backoff(c)
    <2>1. ReportOf(c)' = ReportOf(c)
        BY <1>2, <1>3, ReportUnchanged DEF Backoff
    <2>. QED BY <1>1, <1>2, <2>1 DEF Contract!vars
<1>4. ASSUME NEW o \in Outcomes \ {"pending"}, End(c, o) PROVE Contract!Next
    <2>1. outcome'[c] = o
        BY <1>4 DEF End, Inv, TypeOK
    <2>2. ReportOf(c)' \in {"sent", "failed", "unknown"}
        BY <2>1 DEF ReportOf
    <2>3. Inv'
        BY EndingInv
    <2>4. ReportOf(c)' = "sent" => c \in accepted
        BY <1>2, <2>1, <2>3 DEF ReportOf, Inv, SuccessInv, Outcomes
    <2>5. ReportOf(c)' = "failed" => c \notin accepted
        BY <1>2, <2>1, <2>3 DEF ReportOf, Inv, FirstRefusalIsFinal, Outcomes
    <2>6. [d \in Calls |-> ReportOf(d)]'
             = [[d \in Calls |-> ReportOf(d)] EXCEPT ![c] = ReportOf(c)']
        BY <1>1
    <2>7. Contract!Report(c, ReportOf(c)')
        BY <1>2, <2>4, <2>5, <2>6 DEF Contract!Report
    <2>. QED BY <2>2, <2>7 DEF Contract!Next, Contract!Reports
<1>. QED BY <1>3, <1>4, EndingStep

LEMMA ContractNode ==
    ASSUME Inv, NEW c \in Calls, NEW n \in Attempts, Node(c, n)
    PROVE  Contract!Next \/ UNCHANGED Contract!vars
<1>1. \A d \in Calls : ReportOf(d)' = ReportOf(d)
    BY NodeStep, ReportUnchanged
<1>2. UNCHANGED [d \in Calls |-> ReportOf(d)]
    BY <1>1
<1>3. CASE accepted' = accepted
    BY <1>2, <1>3 DEF Contract!vars
<1>4. CASE accepted' # accepted
    <2>1. accepted' = accepted \cup {c} /\ Applicable(c)
        BY <1>4 DEF Node, NodeAccepts, NodeRejects, ServiceRefuses
    <2>2. ReportOf(c) # "failed"
        BY NodeStep DEF ReportOf, Inv, FirstRefusalIsFinal
    <2>3. Contract!Accept(c)
        BY <1>2, <2>1, <2>2 DEF Contract!Accept, Contract!Spent, Applicable, Spent
    <2>. QED BY <2>3 DEF Contract!Next
<1>. QED BY <1>3, <1>4

\* Every behaviour of the retry loop over any network is a behaviour of the
\* submission contract.
THEOREM Refinement == Spec => ImplementsContract
<1>1. Inv /\ [Next]_vars => [Contract!Next]_(Contract!vars)
    <2>1. ASSUME Inv, NEW c \in Calls, Client(c)
          PROVE  Contract!Next \/ UNCHANGED Contract!vars
        BY <2>1, ContractSend, ContractEnding DEF Client
    <2>2. ASSUME Inv, UNCHANGED vars PROVE UNCHANGED Contract!vars
        BY <2>2 DEF vars, Contract!vars, ReportOf
    <2>. QED BY <2>1, <2>2, ContractNode DEF Next
<1>. QED BY <1>1, ContractInit, Invariance, PTL
         DEF Spec, ImplementsContract, Contract!Spec

=============================================================================

-------------------------- MODULE BlockfrostSubmit --------------------------
(***************************************************************************)
(* BlockfrostProvider.submitTransaction of                                 *)
(* dart/lib/src/providers/blockfrost.dart: the retry loop of _makeRequest, *)
(* the status mapping of _handleResponse, and the decoding of the answer,  *)
(* over a network that loses and delays, in front of a node that takes a   *)
(* transaction when its inputs are unspent.                                *)
(*                                                                         *)
(* Several calls run at the same time: two payments sent from two screens, *)
(* a dApp and a screen, or the user sending again after an error.  Each    *)
(* attempt of a call puts one POST on the wire.  Future.timeout stops the  *)
(* client's wait, it does not take the POST back: the node may process it  *)
(* after the client has retried, or after the call has ended.  A POST or   *)
(* an answer that is lost is one that is never processed or never read.    *)
(***************************************************************************)
EXTENDS Integers, FiniteSets

CONSTANTS
    Calls,       \* the submitTransaction calls of the application
    Inputs,      \* transaction outputs on the ledger
    Spends,      \* Spends[c]: the inputs of the transaction c submits
    Valid,       \* the calls whose transaction the ledger rules accept
    MaxRetries   \* maxRetries of _makeRequest (3)

ASSUME SubmitAssumption ==
    /\ MaxRetries \in Nat
    /\ Valid \subseteq Calls
    /\ Spends \in [Calls -> SUBSET Inputs]
    /\ \A c \in Calls : Spends[c] # {}   \* a transaction has an input

VARIABLES
    pc,        \* where each call is in _makeRequest
    attempt,   \* attemptCount
    wire,      \* POSTs the node has not processed: <<call, attempt>>
    answer,    \* the answer on its way to the attempt the call waits on
    outcome,   \* what submitTransaction returned or threw
    accepted   \* the calls whose POST the node took a transaction from

vars == <<pc, attempt, wire, answer, outcome, accepted>>

Attempts == 1 .. MaxRetries + 1

PCs == {"idle", "waiting", "backoff", "done"}

\* HTTP statuses, as far as the client tells them apart.
Status == {"ok", "badRequest", "unauthorized", "notFound", "rateLimited",
           "serverError", "other"}

NoAnswer == "none"

Outcomes == {"pending", "hash", "BadRequest", "Unauthorized", "RateLimited",
             "ServerError", "NetworkError", "DecodeError"}

\* Mutant of Verdict: a 404 taken for a successful answer.
VerdictLaxNotFound(status) ==
    CASE status \in {"ok", "notFound"} -> "hash"
      [] status = "badRequest"   -> "BadRequest"
      [] status = "unauthorized" -> "Unauthorized"
      [] status = "rateLimited"  -> "RateLimited"
      [] status = "serverError"  -> "ServerError"
      [] status = "other"        -> "NetworkError"

\* What the call ends with on an answer it does not retry.  A 404 comes back
\* from _makeRequest as is, and its body is an object where a hash is decoded.
Verdict(status) ==
    CASE status = "ok"           -> "hash"
      [] status = "badRequest"   -> "BadRequest"
      [] status = "unauthorized" -> "Unauthorized"
      [] status = "notFound"     -> "DecodeError"
      [] status = "rateLimited"  -> "RateLimited"
      [] status = "serverError"  -> "ServerError"
      [] status = "other"        -> "NetworkError"

TypeOK ==
    /\ pc \in [Calls -> PCs]
    /\ attempt \in [Calls -> 0 .. MaxRetries + 1]
    /\ wire \subseteq Calls \X Attempts
    /\ answer \in [Calls -> Status \cup {NoAnswer}]
    /\ outcome \in [Calls -> Outcomes]
    /\ accepted \subseteq Calls

Init ==
    /\ pc = [c \in Calls |-> "idle"]
    /\ attempt = [c \in Calls |-> 0]
    /\ wire = {}
    /\ answer = [c \in Calls |-> NoAnswer]
    /\ outcome = [c \in Calls |-> "pending"]
    /\ accepted = {}

-----------------------------------------------------------------------------
(* The node, behind Blockfrost.                                            *)

Spent == UNION {Spends[d] : d \in accepted}

Applicable(c) == c \in Valid /\ Spends[c] \cap Spent = {}

\* The node or Blockfrost processes one POST.  The answer reaches the call if
\* it still waits on that attempt.
Process(c, n, status) ==
    /\ <<c, n>> \in wire
    /\ wire' = wire \ {<<c, n>>}
    /\ answer' = IF pc[c] = "waiting" /\ attempt[c] = n
                 THEN [answer EXCEPT ![c] = status] ELSE answer
    /\ UNCHANGED <<pc, attempt, outcome>>

\* The transaction enters the mempool; a gateway may still answer 5xx.
NodeAccepts(c, n) ==
    /\ Applicable(c)
    /\ accepted' = accepted \cup {c}
    /\ \E status \in {"ok", "serverError"} : Process(c, n, status)

\* The ledger rules reject it: invalid, or an input is already spent.
NodeRejects(c, n) ==
    /\ ~Applicable(c)
    /\ UNCHANGED accepted
    /\ \E status \in {"badRequest", "serverError"} : Process(c, n, status)

\* Blockfrost answers without asking the node.
ServiceRefuses(c, n) ==
    /\ UNCHANGED accepted
    /\ \E status \in {"unauthorized", "notFound", "rateLimited",
                      "serverError", "other"} : Process(c, n, status)

-----------------------------------------------------------------------------
(* The client: _makeRequest and submitTransaction.                         *)

\* Mutant of CanRetry: `attemptCount <= maxRetries + 1`.
CanRetryOnceMore(c) == attempt[c] <= MaxRetries + 1

\* Mutant of CanRetry: `attemptCount < maxRetries`.
CanRetryOnceLess(c) == attempt[c] < MaxRetries

CanRetry(c) == attempt[c] <= MaxRetries

\* Mutant of Send: the retry is not counted as an attempt.
SendUncounted(c) ==
    /\ pc[c] \in {"idle", "backoff"}
    /\ attempt' = [attempt EXCEPT ![c] = 1]
    /\ wire' = wire \cup {<<c, 1>>}
    /\ pc' = [pc EXCEPT ![c] = "waiting"]
    /\ UNCHANGED <<answer, outcome, accepted>>

\* Top of the loop: the POST of the next attempt leaves.
Send(c) ==
    /\ pc[c] \in {"idle", "backoff"}
    /\ attempt' = [attempt EXCEPT ![c] = @ + 1]
    /\ wire' = wire \cup {<<c, attempt[c] + 1>>}
    /\ pc' = [pc EXCEPT ![c] = "waiting"]
    /\ UNCHANGED <<answer, outcome, accepted>>

End(c, o) ==
    /\ pc' = [pc EXCEPT ![c] = "done"]
    /\ outcome' = [outcome EXCEPT ![c] = o]

\* Future.delayed, then continue.
Backoff(c) ==
    /\ pc' = [pc EXCEPT ![c] = "backoff"]
    /\ UNCHANGED outcome

\* The awaited response completes: return, throw, or retry a 5xx.
Receive(c) ==
    /\ pc[c] = "waiting"
    /\ answer[c] # NoAnswer
    /\ IF answer[c] = "serverError" /\ CanRetry(c)
       THEN Backoff(c)
       ELSE End(c, Verdict(answer[c]))
    /\ answer' = [answer EXCEPT ![c] = NoAnswer]
    /\ UNCHANGED <<attempt, wire, accepted>>

\* Mutant of Timeout: the last attempt is awaited without a timeout.
TimeoutWhileRetrying(c) ==
    /\ pc[c] = "waiting"
    /\ CanRetry(c)
    /\ Backoff(c)
    /\ answer' = [answer EXCEPT ![c] = NoAnswer]
    /\ UNCHANGED <<attempt, wire, accepted>>

\* .timeout(30 s) fires: a late answer finds nobody.
Timeout(c) ==
    /\ pc[c] = "waiting"
    /\ IF CanRetry(c) THEN Backoff(c) ELSE End(c, "NetworkError")
    /\ answer' = [answer EXCEPT ![c] = NoAnswer]
    /\ UNCHANGED <<attempt, wire, accepted>>

\* Any other exception of the HTTP client: no retry.
ConnectionError(c) ==
    /\ pc[c] = "waiting"
    /\ End(c, "NetworkError")
    /\ answer' = [answer EXCEPT ![c] = NoAnswer]
    /\ UNCHANGED <<attempt, wire, accepted>>

Client(c) == Send(c) \/ Receive(c) \/ Timeout(c) \/ ConnectionError(c)

Node(c, n) == NodeAccepts(c, n) \/ NodeRejects(c, n) \/ ServiceRefuses(c, n)

Next == \E c \in Calls : Client(c) \/ \E n \in Attempts : Node(c, n)

Spec == Init /\ [][Next]_vars

\* The event loop runs every timer: the 30 s timeout of an attempt and the
\* delay before a retry.  Nothing is assumed of the network or the node.
FairSpec ==
    /\ Spec
    /\ \A c \in Calls : /\ WF_vars(Timeout(c))
                        /\ WF_vars(pc[c] = "backoff" /\ Send(c))

-----------------------------------------------------------------------------
(* Properties.                                                             *)

\* Two submissions that spend a common input are never both reported as sent,
\* however their attempts interleave, time out and are processed late.
OneOfConflictingSent ==
    \A c, d \in Calls :
        c # d /\ Spends[c] \cap Spends[d] # {}
            => ~(outcome[c] = "hash" /\ outcome[d] = "hash")

\* Errors that say the service read the request and turned it down.
Definitive == {"BadRequest", "Unauthorized", "RateLimited", "DecodeError"}

\* When the first attempt of a call is turned down, that call's transaction
\* was not taken and never will be: nothing of it is left on the wire.  Only
\* then may the application treat the error as "this payment did not happen".
FirstRefusalIsFinal ==
    \A c \in Calls :
        outcome[c] \in Definitive /\ attempt[c] = 1
            => c \notin accepted /\ \A n \in Attempts : <<c, n>> \notin wire

\* BlockfrostServerError is "(5xx) after retries": it is thrown only when
\* maxRetries retries have been made (blockfrost_errors.dart:63-67).
ServerErrorAfterRetries ==
    \A c \in Calls : outcome[c] = "ServerError" => attempt[c] = MaxRetries + 1

\* Every submission ends, even if the network swallows every POST.
EveryCallEnds ==
    \A c \in Calls : pc[c] = "waiting" ~> pc[c] = "done"

\* What a call has told the application, in the terms of the contract.
ReportOf(c) ==
    CASE outcome[c] = "pending" -> "pending"
      [] outcome[c] = "hash" -> "sent"
      [] outcome[c] \in Definitive /\ attempt[c] = 1 -> "failed"
      [] OTHER -> "unknown"

Contract == INSTANCE SubmitContract
                WITH report <- [c \in Calls |-> ReportOf(c)]

\* The retry loop implements the submission contract.
ImplementsContract == Contract!Spec

\* The documentation of submitTransaction (blockfrost.dart:348-350):
\* "Throws [BlockfrostBadRequest] if the transaction is invalid".  The code
\* also throws it when an earlier attempt of the same call was taken.
BadRequestMeansNotTaken ==
    \A c \in Calls : outcome[c] = "BadRequest" => c \notin accepted

-----------------------------------------------------------------------------
(* The inductive invariant.                                                *)

\* The counter: 0 before the first POST, and room for one more in a backoff.
CountInv ==
    \A c \in Calls :
        /\ pc[c] = "idle" <=> attempt[c] = 0
        /\ pc[c] = "backoff" => attempt[c] <= MaxRetries
        /\ pc[c] = "done" <=> outcome[c] # "pending"

\* Only attempts already made are on the wire, and an attempt whose answer is
\* on its way is no longer there.
WireInv ==
    \A c \in Calls :
        /\ \A n \in Attempts : <<c, n>> \in wire => n <= attempt[c]
        /\ answer[c] # NoAnswer => pc[c] = "waiting" /\ <<c, attempt[c]>> \notin wire

\* Success is never invented.
SuccessInv ==
    \A c \in Calls :
        answer[c] = "ok" \/ outcome[c] = "hash" => c \in accepted

\* Answers that say the service read the request and turned it down.
Refusals == {"badRequest", "unauthorized", "notFound", "rateLimited"}

\* Before its first answer, and after a refusal of its first attempt, the
\* transaction of a call has not been taken.
FirstAttemptInv ==
    \A c \in Calls :
        /\ attempt[c] = 0 => c \notin accepted
        /\ attempt[c] = 1 /\ (<<c, 1>> \in wire \/ answer[c] \in Refusals)
                => c \notin accepted

\* The node never takes two transactions that spend a common input.
DisjointInv ==
    \A c, d \in accepted : c # d => Spends[c] \cap Spends[d] = {}

Inv == /\ TypeOK
       /\ CountInv
       /\ WireInv
       /\ SuccessInv
       /\ FirstAttemptInv
       /\ DisjointInv
       /\ FirstRefusalIsFinal
       /\ ServerErrorAfterRetries

=============================================================================

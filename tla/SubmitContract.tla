--------------------------- MODULE SubmitContract ---------------------------
(***************************************************************************)
(* What BlockfrostProvider.submitTransaction promises an application, with *)
(* HTTP, attempts and timeouts hidden.  A submission is reported once, as  *)
(* "sent" (a hash was returned), "failed" (an error from which the         *)
(* application may conclude that this submission never took effect) or     *)
(* "unknown" (an error from which it may conclude nothing).  The node      *)
(* accepts a submission whose inputs are unspent, before or after the      *)
(* report, but never once it has been reported "failed".                   *)
(***************************************************************************)
CONSTANTS Calls,    \* the submitTransaction calls of the application
          Inputs,   \* transaction outputs on the ledger
          Spends    \* Spends[c]: the inputs of the transaction c submits

VARIABLES accepted, \* the calls whose transaction the node took from them
          report    \* what each call told the application

vars == <<accepted, report>>

Reports == {"pending", "sent", "failed", "unknown"}

Spent == UNION {Spends[d] : d \in accepted}

Init == /\ accepted = {}
        /\ report = [c \in Calls |-> "pending"]

\* The node takes c's transaction: its inputs become spent.
Accept(c) ==
    /\ report[c] # "failed"
    /\ Spends[c] \cap Spent = {}
    /\ accepted' = accepted \cup {c}
    /\ UNCHANGED report

Report(c, r) ==
    /\ report[c] = "pending"
    /\ r = "sent" => c \in accepted
    /\ r = "failed" => c \notin accepted
    /\ report' = [report EXCEPT ![c] = r]
    /\ UNCHANGED accepted

Next == \E c \in Calls : \/ Accept(c)
                         \/ \E r \in Reports \ {"pending"} : Report(c, r)

Spec == Init /\ [][Next]_vars
=============================================================================

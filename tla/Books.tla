------------------------------- MODULE Books -------------------------------
(***************************************************************************)
(* What the SDK promises about a wallet's money: a transaction changes it  *)
(* by exactly what the caller asked for and what the SDK reported when it  *)
(* built it, or not at all.                                                *)
(***************************************************************************)
EXTENDS Integers

CONSTANTS Screens, NoReceipt

VARIABLES
    free,     \* lovelace of the wallet: its outputs and its rewards
    deposit,  \* lovelace held as its key deposit
    tokens,   \* each of its tokens
    receipt   \* the transaction each screen has built, as reported

vars == <<free, deposit, tokens, receipt>>

Init == deposit \in Nat /\ receipt = [s \in Screens |-> NoReceipt]

Build(s) ==
    /\ receipt[s] = NoReceipt /\ receipt'[s] # NoReceipt
    /\ receipt' = [receipt EXCEPT ![s] = receipt'[s]]
    /\ UNCHANGED <<free, deposit, tokens>>

Settle(s) ==
    LET r == receipt[s] IN
    /\ r # NoReceipt
    /\ free' = free - r.fee - r.paid + r.deposit_change
    /\ deposit' = deposit - r.deposit_change
    /\ tokens' = [t \in DOMAIN tokens |-> tokens[t] + r.tokens[t]]
    /\ receipt' = [receipt EXCEPT ![s] = NoReceipt]

CallOff(s) ==
    /\ receipt[s] # NoReceipt
    /\ receipt' = [receipt EXCEPT ![s] = NoReceipt]
    /\ UNCHANGED <<free, deposit, tokens>>

Earn == free' > free /\ UNCHANGED <<deposit, tokens, receipt>>

Next == Earn \/ \E s \in Screens : Build(s) \/ Settle(s) \/ CallOff(s)

Spec == Init /\ [][Next]_vars
=============================================================================

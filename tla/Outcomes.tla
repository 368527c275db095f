------------------------------ MODULE Outcomes ------------------------------
(***************************************************************************)
(* Results of the Rust functions: a value, or the kind of the CardanoError *)
(* (error.rs).  A function makes its checks in order and returns the first *)
(* error it meets.                                                         *)
(***************************************************************************)
EXTENDS Naturals, Sequences

Failed(kind) == [err |-> kind]

Ok(value) == [err |-> "None", ok |-> value]

Check(bad, kind) == IF bad THEN kind ELSE "None"

First(checks) ==
    LET bad == {i \in DOMAIN checks : checks[i] # "None"}
    IN IF bad = {} THEN "None" ELSE checks[CHOOSE i \in bad : \A j \in bad : i <= j]

(* The value, unless a check failed. *)
Unless(err, value) == IF err = "None" THEN Ok(value) ELSE Failed(err)
=============================================================================

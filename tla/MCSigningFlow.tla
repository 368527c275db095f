--------------------------- MODULE MCSigningFlow ---------------------------
(* An instance of SigningFlow for TLC. *)
EXTENDS SigningFlow

Says(pays, parts, form) == [pays |-> pays, parts |-> parts, form |-> form]

MCBodies ==
    {Says("soft", {"certs"}, "other"), Says("soft", {"mint", "aux_hash"}, "csl"),
     Says("shared", {"aux_hash"}, "csl"), Says("shared", {}, "other"),
     Says("joint", {"ttl"}, "csl"), Says("joint", {"aux_hash"}, "csl"),
     Says("joint", {"ttl"}, "other"), Says("joint", {"certs"}, "csl"),
     Says("accounts", {}, "csl"), Says("accounts", {"network_id"}, "csl")}

\* The payment path, the payment and the stake path, and paths of two accounts.
MCPathLists == {<< <<0, 0, 0>> >>, << <<0, 0, 0>>, <<0, 2, 0>> >>, << <<0, 0, 0>>, <<1, 0, 0>> >>}

MCPayloads == {Hex("data", "hello"), Hex("data", "bye")}
=============================================================================

----------------------------- MODULE SeedVault -----------------------------
(***************************************************************************)
(* A recovery phrase at rest: the CFS1 container of seed.rs, and the vault *)
(* screen (example/lib/seed_vault_screen.dart) that keeps the container    *)
(* and a wrapping secret under two keys of the platform's secure storage.  *)
(* Each access to the storage is awaited: the user may leave the screen,   *)
(* and open it again, or the app may be killed, between any two.           *)
(*                                                                         *)
(* The text fields stay editable while an operation runs, so they hold     *)
(* whatever the user has typed by the time they are read.                  *)
(***************************************************************************)
EXTENDS Outcomes, Integers, FiniteSets

CONSTANTS
    Screens,      \* instances of the screen: the one on display, earlier ones
    Passwords,
    None,
    MinMem,       \* MIN_MEM_KIB, which Argon2 needs for each lane
    MaxMem,       \* MAX_MEM_KIB,
    MaxIters,     \* MAX_ITERS
    MaxLanes,     \* and MAX_PARALLELISM
    DefaultParams,
    MaxStored     \* bound: containers written

ASSUME SeedVaultAssumption ==
    /\ {MinMem, MaxMem, MaxIters, MaxLanes} \subseteq Nat \ {0}
    /\ DefaultParams \in [mem : MinMem .. MaxMem, iters : 1 .. MaxIters, lanes : 1 .. MaxLanes]
    /\ IsFiniteSet(Screens) /\ MaxStored \in Nat
    /\ None \notin Nat   \* nothing in the storage: neither a secret nor a key
    /\ None \notin [password : Passwords \X Nat, salt : Nat,
                    params : [mem : Nat, iters : Nat, lanes : Nat]]

VARIABLES
    blob,       \* secure storage: cfs_vault_blob
    wrap,       \* and cfs_vault_wrap_secret
    screen,     \* each screen, and what it is doing
    stored,     \* every container written: with what secret, password and wrapping secret
    damaged,    \* the container stored was changed by something else
    overlapped  \* an operation began while one of an earlier screen was running

vars == <<blob, wrap, screen, stored, damaged, overlapped>>

-----------------------------------------------------------------------------
(* seed.rs.  A container has a size (0: less than the fixed prefix, 1: less *)
(* than a header, 2: a ciphertext cut short, 3: whole) and the fields of    *)
(* its header.  Encryption is ideal: it opens with the same key and header.*)

ValidateKdfParams(p) ==
    Check(~(p.mem \in MinMem .. MaxMem /\ p.iters \in 1 .. MaxIters /\ p.lanes \in 1 .. MaxLanes),
          "InvalidParameter")

DefaultKdfParams == DefaultParams

(* What Argon2id itself asks of its parameters; benchmark_kdf asks no more. *)
DeriveKeyCheck(p) ==
    Check(~(p.iters >= 1 /\ p.lanes >= 1 /\ p.mem >= MinMem * p.lanes), "InvalidParameter")

Key(password, salt, p) == [password |-> password, salt |-> salt, params |-> p]

BuildHeader(p, salt) ==
    [magic |-> "CFS1", version |-> 1, kdf |-> 1, params |-> p, salt_len |-> 16, salt |-> salt]

(* salt stands for the salt and the nonce, which are drawn together. *)
EncryptSeedWithParams(secret, password, p, salt) ==
    LET header == BuildHeader(p, salt)
    IN Unless(First(<<ValidateKdfParams(p), DeriveKeyCheck(p)>>),
              [hex |-> TRUE, size |-> 3, header |-> header,
               ciphertext |-> [key |-> Key(password, salt, p), aad |-> header, msg |-> secret]])

EncryptSeed(secret, password, salt) ==
    EncryptSeedWithParams(secret, password, DefaultKdfParams, salt)

BenchmarkKdf(p) == DeriveKeyCheck(p)

HeaderCheck(c) ==
    First(<<Check(~c.hex, "InvalidParameter"), Check(c.size < 1, "InvalidCbor"),
            Check(c.header.magic # "CFS1", "InvalidParameter"),
            Check(c.header.version # 1, "InvalidParameter"),
            Check(c.header.kdf # 1, "InvalidParameter"),
            Check(c.header.salt_len # 16, "InvalidParameter")>>)

(* Mutant: the parameters of the header are not checked. *)
DecryptSeedAnyCost(c, password) ==
    LET p == c.header.params
        before == First(<<HeaderCheck(c), Check(c.size < 2, "InvalidCbor"), DeriveKeyCheck(p)>>)
        sealed == [key |-> Key(password, c.header.salt, p), aad |-> c.header, msg |-> c.ciphertext.msg]
        opens == c.size = 3 /\ c.ciphertext = sealed
    IN [cost |-> IF before = "None" THEN p ELSE None,
        of |-> Unless(First(<<before, Check(~opens, "InvalidKey")>>), c.ciphertext.msg)]

(* The parameters the key was derived with, and the outcome. *)
DecryptSeed(c, password) ==
    LET p == c.header.params
        before == First(<<HeaderCheck(c), ValidateKdfParams(p), Check(c.size < 2, "InvalidCbor"),
                          DeriveKeyCheck(p)>>)
        sealed == [key |-> Key(password, c.header.salt, p), aad |-> c.header, msg |-> c.ciphertext.msg]
        opens == c.size = 3 /\ c.ciphertext = sealed
    IN [cost |-> IF before = "None" THEN p ELSE None,
        of |-> Unless(First(<<before, Check(~opens, "InvalidKey")>>), c.ciphertext.msg)]

(* frb_generated.rs *)
WireDefaultKdfParams == DefaultKdfParams
WireBenchmarkKdf(m) == BenchmarkKdf([mem |-> m[1], iters |-> m[2], lanes |-> m[3]])
WireEncryptSeed(m, salt) == EncryptSeed(m[1], m[2], salt)
WireDecryptSeed(m) == DecryptSeed(m[1], m[2])

-----------------------------------------------------------------------------
(* The screen *)

Closed ==
    [mounted |-> FALSE, looking |-> FALSE, hasVault |-> FALSE, at |-> "idle",
     wrap |-> None, blob |-> None, unlocked |-> None]

Compose(password, w) == <<password, w>>

Init ==
    /\ blob = None /\ wrap = None
    /\ screen = [s \in Screens |-> Closed]
    /\ stored = <<>> /\ damaged = FALSE /\ overlapped = FALSE

Open(s) ==
    /\ screen[s] = Closed /\ \A t \in Screens : ~screen[t].mounted
    /\ screen' = [screen EXCEPT ![s].mounted = TRUE, ![s].looking = TRUE]
    /\ UNCHANGED <<blob, wrap, stored, damaged, overlapped>>

(* dispose: an operation under way goes on. *)
Leave(s) ==
    /\ screen[s].mounted
    /\ screen' = [screen EXCEPT ![s] = IF @.at = "idle" THEN Closed
                                       ELSE [@ EXCEPT !.mounted = FALSE, !.unlocked = None]]
    /\ UNCHANGED <<blob, wrap, stored, damaged, overlapped>>

(* _refreshVaultState when the screen opens. *)
Look(s) ==
    /\ screen[s].looking
    /\ screen' = [screen EXCEPT ![s].looking = FALSE,
                                ![s].hasVault = IF screen[s].mounted THEN blob # None ELSE @]
    /\ UNCHANGED <<blob, wrap, stored, damaged, overlapped>>

Tap(s, at) ==
    /\ screen[s].mounted /\ screen[s].at = "idle"
    /\ screen' = [screen EXCEPT ![s].at = at, ![s].unlocked = None]
    /\ overlapped' = (overlapped \/ \E t \in Screens \ {s} : screen[t].at # "idle")
    /\ UNCHANGED <<blob, wrap, stored, damaged>>

(* The password is not empty when it is tapped. *)
TapEncrypt(s) == Len(stored) < MaxStored /\ Tap(s, "wrap?")

TapUnlock(s) == screen[s].hasVault /\ Tap(s, "blob?")

TapWipe(s) == screen[s].hasVault /\ Tap(s, "delete blob")

(* The operation ends, or goes on to what it does next; an instance that   *)
(* is no longer on display is gone at the end.                             *)
Step(s, at, local) ==
    screen' = [screen EXCEPT ![s] = IF at = "idle" /\ ~local.mounted THEN Closed
                                    ELSE [local EXCEPT !.at = at]]

Done(s, local) == Step(s, "idle", [local EXCEPT !.wrap = None, !.blob = None])

(* Random.secure: one that nothing was ever made with. *)
FreshSecret ==
    LET used == {wrap} \cup {screen[s].wrap : s \in Screens} \cup {stored[i].wrap : i \in DOMAIN stored}
    IN CHOOSE n \in 0 .. Len(stored) + Cardinality(Screens) : n \notin used

(* _getOrCreateWrapSecret *)
ReadWrap(s) ==
    /\ screen[s].at = "wrap?"
    /\ IF wrap # None THEN Step(s, "encrypt", [screen[s] EXCEPT !.wrap = wrap])
       ELSE Step(s, "write wrap", [screen[s] EXCEPT !.wrap = FreshSecret])
    /\ UNCHANGED <<blob, wrap, stored, damaged, overlapped>>

WriteWrap(s) ==
    /\ screen[s].at = "write wrap"
    /\ wrap' = screen[s].wrap
    /\ Step(s, "encrypt", screen[s])
    /\ UNCHANGED <<blob, stored, damaged, overlapped>>

(* The fields are read now: the password may have been cleared meanwhile.  *)
(* The phrase is another one each time.                                    *)
Encrypt(s) ==
    LET p == WireDefaultKdfParams IN
    /\ screen[s].at = "encrypt" /\ WireBenchmarkKdf(<<p.mem, p.iters, p.lanes>>) = "None"
    /\ \E password \in Passwords :
        LET secret == Len(stored)
            enc == WireEncryptSeed(<<secret, Compose(password, screen[s].wrap)>>, Len(stored)) IN
        /\ enc.err = "None"
        /\ stored' = Append(stored, [blob |-> enc.ok, secret |-> secret, password |-> password,
                                     wrap |-> screen[s].wrap])
        /\ Step(s, "write blob", [screen[s] EXCEPT !.blob = enc.ok])
    /\ UNCHANGED <<blob, wrap, damaged, overlapped>>

WriteBlob(s) ==
    /\ screen[s].at = "write blob"
    /\ blob' = screen[s].blob /\ damaged' = FALSE
    /\ IF screen[s].mounted THEN Step(s, "refresh", screen[s]) ELSE Done(s, screen[s])
    /\ UNCHANGED <<wrap, stored, overlapped>>

ReadBlob(s) ==
    /\ screen[s].at = "blob?"
    /\ Step(s, "unlock", [screen[s] EXCEPT !.blob = blob])
    /\ UNCHANGED <<blob, wrap, stored, damaged, overlapped>>

(* The containers written that b is, with this password and the wrapping   *)
(* secret now in the storage.                                              *)
Matching(b, password) ==
    {i \in DOMAIN stored : stored[i].blob = b /\ stored[i].password = password /\ stored[i].wrap = wrap}

(* The wrapping secret is read last; then decryptSeed. *)
Unlock(s) ==
    LET b == screen[s].blob IN
    /\ screen[s].at = "unlock"
    /\ IF b = None \/ wrap = None THEN Done(s, screen[s])
       ELSE \E password \in Passwords :
            Done(s, [screen[s] EXCEPT !.unlocked =
                        IF screen[s].mounted
                        THEN [result |-> WireDecryptSeed(<<b, Compose(password, wrap)>>),
                              meant |-> Matching(b, password)]
                        ELSE None])
    /\ UNCHANGED <<blob, wrap, stored, damaged, overlapped>>

(* Mutant: the wrapping secret is deleted first. *)
DeleteBlobLast(s) ==
    /\ \/ screen[s].at = "delete blob" /\ wrap' = None /\ UNCHANGED blob
          /\ Step(s, "delete wrap", screen[s])
       \/ screen[s].at = "delete wrap" /\ blob' = None /\ UNCHANGED wrap
          /\ Step(s, "refresh", screen[s])
    /\ UNCHANGED <<stored, damaged, overlapped>>

(* The two deletions of _wipe. *)
Wipe(s) ==
    /\ \/ screen[s].at = "delete blob" /\ blob' = None /\ UNCHANGED wrap
          /\ Step(s, "delete wrap", screen[s])
       \/ screen[s].at = "delete wrap" /\ wrap' = None /\ UNCHANGED blob
          /\ Step(s, "refresh", screen[s])
    /\ UNCHANGED <<stored, damaged, overlapped>>

Refresh(s) ==
    /\ screen[s].at = "refresh"
    /\ Done(s, [screen[s] EXCEPT !.hasVault = IF screen[s].mounted THEN blob # None ELSE @])
    /\ UNCHANGED <<blob, wrap, stored, damaged, overlapped>>

(* An access to the storage throws, before it changed anything. *)
StorageFails(s) ==
    /\ screen[s].at \notin {"idle", "encrypt"}
    /\ Done(s, screen[s])
    /\ UNCHANGED <<blob, wrap, stored, damaged, overlapped>>

(* The app is killed: only the storage survives. *)
Crash ==
    /\ screen # [s \in Screens |-> Closed]
    /\ screen' = [s \in Screens |-> Closed]
    /\ UNCHANGED <<blob, wrap, stored, damaged, overlapped>>

(* While no screen is in use, the container stored is cut or changed in     *)
(* some place; a ciphertext that is changed is one of no key.               *)
Damage ==
    /\ blob # None /\ ~damaged /\ screen = [s \in Screens |-> Closed]
    /\ damaged' = TRUE
    /\ \E b \in {[blob EXCEPT !.hex = FALSE]} \cup {[blob EXCEPT !.size = n] : n \in 0 .. 2}
            \cup {[blob EXCEPT !.header.magic = "CFS2"], [blob EXCEPT !.header.version = 2],
                  [blob EXCEPT !.header.kdf = 2], [blob EXCEPT !.header.salt_len = 15],
                  [blob EXCEPT !.header.salt = @ + 1], [blob EXCEPT !.ciphertext.key = None]}
            \cup {[blob EXCEPT !.header.params.mem = n] : n \in {0, MinMem, MaxMem + 1}}
            \cup {[blob EXCEPT !.header.params.iters = n] : n \in {0, MaxIters + 1}}
            \cup {[blob EXCEPT !.header.params.lanes = n] : n \in {0, MaxLanes, MaxLanes + 1}} :
        blob' = b
    /\ UNCHANGED <<wrap, screen, stored, overlapped>>

Next ==
    \/ Crash \/ Damage
    \/ \E s \in Screens :
        \/ Open(s) \/ Leave(s) \/ Look(s)
        \/ TapEncrypt(s) \/ ReadWrap(s) \/ WriteWrap(s) \/ Encrypt(s) \/ WriteBlob(s)
        \/ TapUnlock(s) \/ ReadBlob(s) \/ Unlock(s)
        \/ TapWipe(s) \/ Wipe(s) \/ Refresh(s) \/ StorageFails(s)

Spec == Init /\ [][Next]_vars

-----------------------------------------------------------------------------
(* Properties *)

Params == [mem : Nat, iters : Nat, lanes : Nat]

Headers == [magic : {"CFS1", "CFS2"}, version : {1, 2}, kdf : {1, 2}, params : Params,
            salt_len : {15, 16}, salt : Nat]

Keys == [password : Passwords \X Nat, salt : Nat, params : Params]

Containers == [hex : BOOLEAN, size : 0 .. 3, header : Headers,
               ciphertext : [key : Keys \cup {None}, aad : Headers, msg : Nat]]

Kinds == {"None", "InvalidParameter", "InvalidCbor", "InvalidKey"}

Results == [cost : Params \cup {None}, of : [err : {"None"}, ok : Nat] \cup [err : Kinds]]

Unlocks == [result : Results, meant : SUBSET (DOMAIN stored)]

Instances ==
    [mounted : BOOLEAN, looking : BOOLEAN, hasVault : BOOLEAN,
     at : {"idle", "wrap?", "write wrap", "encrypt", "write blob", "blob?", "unlock",
           "delete blob", "delete wrap", "refresh"},
     wrap : Nat \cup {None}, blob : Containers \cup {None}, unlocked : Unlocks \cup {None}]

TypeOK ==
    /\ blob \in Containers \cup {None} /\ wrap \in Nat \cup {None}
    /\ damaged \in BOOLEAN /\ overlapped \in BOOLEAN
    /\ stored \in Seq([blob : Containers, secret : Nat, password : Passwords, wrap : Nat])
    /\ screen \in [Screens -> Instances]

(* Whatever was interrupted, by the user, by a failing storage or by the   *)
(* app being killed, a container in the storage that nothing else changed  *)
(* opens, to the phrase it was made of, with the password it was made with *)
(* and the wrapping secret now in the storage.  Unless an operation was    *)
(* begun while one of a screen left earlier was still running.             *)
Recoverable ==
    blob # None /\ ~damaged /\ ~overlapped =>
        \E i \in DOMAIN stored :
            /\ stored[i].blob = blob
            /\ WireDecryptSeed(<<blob, Compose(stored[i].password, wrap)>>).of = Ok(stored[i].secret)

(* An unlock shows a phrase exactly when the container is one that was     *)
(* written, unchanged, and the password and the wrapping secret are those  *)
(* it was written with, and it shows that phrase; whatever became of the   *)
(* container, the key derivation stays within its limits.                  *)
UnlockFailsClosed ==
    \A s \in Screens : LET u == screen[s].unlocked IN u # None =>
        /\ u.result.of.err = "None" <=> u.meant # {}
        /\ \A i \in u.meant : u.result.of = Ok(stored[i].secret)
        /\ u.result.cost # None =>
            /\ u.result.cost.mem \in MinMem .. MaxMem
            /\ u.result.cost.iters \in 1 .. MaxIters /\ u.result.cost.lanes \in 1 .. MaxLanes

(* The container written i-th is the encryption, under the i-th salt, of a  *)
(* phrase of its own.                                                      *)
WrittenAsSealed ==
    \A i \in DOMAIN stored : LET c == stored[i] IN
        WireEncryptSeed(<<c.secret, Compose(c.password, c.wrap)>>, i - 1) = Ok(c.blob)

(* A container in use is one that was written, or one that nothing opens.  *)
Written(b, w) == \E i \in DOMAIN stored : stored[i].blob = b /\ stored[i].wrap = w

Genuine(b) == \E i \in DOMAIN stored : stored[i].blob = b

Broken(b) == ~(b.hex /\ b.size = 3 /\ b.ciphertext.aad = b.header /\ b.ciphertext.key \in Keys)

Held(b) == b = None \/ Genuine(b) \/ Broken(b)

ContainersHeld ==
    /\ Held(blob) /\ (~damaged => blob = None \/ Genuine(blob))
    /\ \A s \in Screens :
        /\ Held(screen[s].blob)
        /\ screen[s].at \in {"write wrap", "encrypt", "write blob"} => screen[s].wrap \in Nat
        /\ screen[s].at = "write blob" => Written(screen[s].blob, screen[s].wrap)

(* Unless operations overlapped: the one under way knows the wrapping secret *)
(* of the storage, and the container and the wrapping secret belong together. *)
OneAtATime ==
    ~overlapped =>
        /\ \A s, t \in Screens : s = t \/ screen[s].at = "idle" \/ screen[t].at = "idle"
        /\ \A s \in Screens :
            /\ screen[s].at = "write wrap" => wrap = None
            /\ screen[s].at \in {"encrypt", "write blob"} => wrap = screen[s].wrap
            /\ screen[s].at = "delete wrap" => blob = None
        /\ blob # None /\ ~damaged => Written(blob, wrap)

(* The inductive invariant.                                                *)
Kept == TypeOK /\ WrittenAsSealed /\ ContainersHeld /\ OneAtATime

Inv == Kept /\ Recoverable
=============================================================================

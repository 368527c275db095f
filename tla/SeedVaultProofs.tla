-------------------------- MODULE SeedVaultProofs --------------------------
(***************************************************************************)
(* Proofs about SeedVault for every number of screens and passwords, every *)
(* limit of the key derivation and any number of containers written.       *)
(***************************************************************************)
EXTENDS SeedVault, FiniteSetTheorems, SequenceTheorems, WellFoundedInduction, TLAPS

USE SeedVaultAssumption

(***************************************************************************)
(* Checks, and the fresh secret.                                           *)
(***************************************************************************)

\* A set of numbers has a least one.
LEMMA LeastNumber ==
  ASSUME NEW Q \in SUBSET Nat, Q # {}
  PROVE  \E m \in Q : \A k \in Q : m <= k
<1> DEFINE R == {ss \in Nat \X Nat : ss[1] < ss[2]}
<1>1. IsWellFoundedOn(R, Nat)
  BY NatLessThanWellFounded DEF OpToRel
<1>2. \E m \in Q : \A k \in Q : ~ (<<k, m>> \in R)
  <2> HIDE DEF R
  <2> QED
    BY <1>1, WFMin
<1>3. \A k, m \in Nat : <<k, m>> \in R <=> k < m
  OBVIOUS
<1>4. PICK m \in Q : \A k \in Q : ~ (<<k, m>> \in R)
  BY <1>2
<1> HIDE DEF R
<1>5. ASSUME NEW k \in Q PROVE m <= k
  <2>1. ~(<<k, m>> \in R) /\ k \in Nat /\ m \in Nat
    BY <1>4
  <2>2. ~(k < m)
    BY <1>3, <2>1
  <2> QED
    BY <2>1, <2>2
<1> QED
  BY <1>5

\* The first error of a sequence of checks is "None" when all of them passed.
LEMMA FirstIsNone ==
  ASSUME NEW checks, DOMAIN checks \subseteq Nat
  PROVE  First(checks) = "None" <=> \A i \in DOMAIN checks : checks[i] = "None"
<1> DEFINE bad == {i \in DOMAIN checks : checks[i] # "None"}
<1>1. CASE bad = {}
  BY <1>1 DEF First
<1>2. CASE bad # {}
  <2>1. \E m \in bad : \A k \in bad : m <= k
    <3>1. bad \in SUBSET Nat
      OBVIOUS
    <3> HIDE DEF bad
    <3> QED
      BY <1>2, <3>1, LeastNumber
  <2>2. (CHOOSE i \in bad : \A j \in bad : i <= j) \in bad
    <3> HIDE DEF bad
    <3> QED
      BY <2>1
  <2> QED
    BY <1>2, <2>2 DEF First
<1> QED
  BY <1>1, <1>2

LEMMA FirstIsOne ==
  ASSUME NEW checks, DOMAIN checks \subseteq Nat, First(checks) # "None"
  PROVE  \E i \in DOMAIN checks : First(checks) = checks[i]
<1> DEFINE bad == {i \in DOMAIN checks : checks[i] # "None"}
<1>1. bad \in SUBSET Nat /\ bad # {}
  BY DEF First
<1>2. (CHOOSE i \in bad : \A j \in bad : i <= j) \in bad
  <2> HIDE DEF bad
  <2> QED
    BY <1>1, LeastNumber
<1> QED
  BY <1>1, <1>2 DEF First

\* The sequences of checks that the code makes.
LEMMA FirstOf2 ==
  ASSUME NEW a \in Kinds, NEW b \in Kinds
  PROVE  /\ First(<<a, b>>) = "None" <=> a = "None" /\ b = "None"
         /\ First(<<a, b>>) \in Kinds
<1> DEFINE cs == <<a, b>>
<1>1. DOMAIN cs = {1, 2} /\ cs[1] = a /\ cs[2] = b
  OBVIOUS
<1> HIDE DEF cs
<1>2. First(cs) = "None" <=> a = "None" /\ b = "None"
  BY <1>1, FirstIsNone
<1>3. First(cs) \in Kinds
  <2>1. CASE First(cs) = "None"
    BY <2>1 DEF Kinds
  <2>2. CASE First(cs) # "None"
    <3>1. \E i \in DOMAIN cs : First(cs) = cs[i]
      BY <1>1, <2>2, FirstIsOne
    <3> QED
      BY <1>1, <3>1
  <2> QED
    BY <2>1, <2>2
<1> QED
  BY <1>2, <1>3, Zenon DEF cs

LEMMA FirstOf4 ==
  ASSUME NEW a \in Kinds, NEW b \in Kinds, NEW c \in Kinds, NEW d \in Kinds
  PROVE  /\ First(<<a, b, c, d>>) = "None" <=>
              a = "None" /\ b = "None" /\ c = "None" /\ d = "None"
         /\ First(<<a, b, c, d>>) \in Kinds
<1> DEFINE cs == <<a, b, c, d>>
<1>1. DOMAIN cs = {1, 2, 3, 4} /\ cs[1] = a /\ cs[2] = b /\ cs[3] = c /\ cs[4] = d
  OBVIOUS
<1> HIDE DEF cs
<1>2. First(cs) = "None" <=> a = "None" /\ b = "None" /\ c = "None" /\ d = "None"
  BY <1>1, FirstIsNone
<1>3. First(cs) \in Kinds
  <2>1. CASE First(cs) = "None"
    BY <2>1 DEF Kinds
  <2>2. CASE First(cs) # "None"
    <3>1. \E i \in DOMAIN cs : First(cs) = cs[i]
      BY <1>1, <2>2, FirstIsOne
    <3> QED
      BY <1>1, <3>1
  <2> QED
    BY <2>1, <2>2
<1> QED
  BY <1>2, <1>3, Zenon DEF cs

LEMMA FirstOf6 ==
  ASSUME NEW a \in Kinds, NEW b \in Kinds, NEW c \in Kinds, NEW d \in Kinds,
         NEW e \in Kinds, NEW f \in Kinds
  PROVE  /\ First(<<a, b, c, d, e, f>>) = "None" <=>
              /\ a = "None" /\ b = "None" /\ c = "None" /\ d = "None" /\ e = "None" /\ f = "None"
         /\ First(<<a, b, c, d, e, f>>) \in Kinds
<1> DEFINE cs == <<a, b, c, d, e, f>>
<1>1. /\ DOMAIN cs = {1, 2, 3, 4, 5, 6}
      /\ cs[1] = a /\ cs[2] = b /\ cs[3] = c /\ cs[4] = d /\ cs[5] = e /\ cs[6] = f
  OBVIOUS
<1> HIDE DEF cs
<1>2. First(cs) = "None" <=>
        a = "None" /\ b = "None" /\ c = "None" /\ d = "None" /\ e = "None" /\ f = "None"
  BY <1>1, FirstIsNone
<1>3. First(cs) \in Kinds
  <2>1. CASE First(cs) = "None"
    BY <2>1 DEF Kinds
  <2>2. CASE First(cs) # "None"
    <3>1. \E i \in DOMAIN cs : First(cs) = cs[i]
      BY <1>1, <2>2, FirstIsOne
    <3> QED
      BY <1>1, <3>1
  <2> QED
    BY <2>1, <2>2
<1> QED
  BY <1>2, <1>3, Zenon DEF cs

\* An interval of numbers.
LEMMA IntervalSize ==
  ASSUME NEW n \in Nat
  PROVE  /\ IsFiniteSet(0 .. n) /\ Cardinality(0 .. n) = n + 1
         /\ IsFiniteSet(1 .. n) /\ Cardinality(1 .. n) = n
<1>1. /\ IsFiniteSet(0 .. n) /\ Cardinality(0 .. n) = IF 0 > n THEN 0 ELSE n - 0 + 1
      /\ IsFiniteSet(1 .. n) /\ Cardinality(1 .. n) = IF 1 > n THEN 0 ELSE n - 1 + 1
  <2>1. n \in Int /\ 0 \in Int /\ 1 \in Int
    OBVIOUS
  <2> QED
    BY ONLY <2>1, FS_Interval
<1> QED
  BY <1>1

\* What was written.
LEMMA StoredTyped ==
  ASSUME TypeOK
  PROVE  /\ Len(stored) \in Nat /\ DOMAIN stored = 1 .. Len(stored)
         /\ \A i \in DOMAIN stored :
              /\ stored[i].blob \in Containers /\ stored[i].secret \in Nat
              /\ stored[i].password \in Passwords /\ stored[i].wrap \in Nat
<1> DEFINE Rec == [blob : Containers, secret : Nat, password : Passwords, wrap : Nat]
<1>1. stored \in Seq(Rec)
  BY DEF TypeOK
<1>2. Len(stored) \in Nat /\ DOMAIN stored = 1 .. Len(stored)
  BY <1>1, LenProperties
<1>3. \A i \in DOMAIN stored : stored[i] \in Rec
  <2> HIDE DEF Rec
  <2> QED
    BY <1>1, <1>2, ElementOfSeq
<1> QED
  BY <1>2, <1>3

\* A secret that nothing was made with can always be drawn: fewer are in use
\* than there are to choose from.
LEMMA FreshSecretExists ==
  ASSUME TypeOK, wrap = None PROVE FreshSecret \in Nat
<1>0. \A s \in Screens : screen[s].wrap \in Nat \cup {None}
  BY DEF TypeOK, Instances
<1> DEFINE drawn == {screen[s].wrap : s \in Screens}
           kept == {stored[i].wrap : i \in DOMAIN stored}
           range == 0 .. Len(stored) + Cardinality(Screens)
<1>1. IsFiniteSet(drawn) /\ Cardinality(drawn) <= Cardinality(Screens)
  <2> DEFINE f == [s \in Screens |-> screen[s].wrap]
  <2>1. f \in Surjection(Screens, drawn)
    BY DEF Surjection
  <2> HIDE DEF f, drawn
  <2> QED
    BY <2>1, FS_Surjection
<1>2. IsFiniteSet(kept) /\ Cardinality(kept) <= Len(stored) /\ Len(stored) \in Nat
  <2> DEFINE f == [i \in 1 .. Len(stored) |-> stored[i].wrap]
  <2>1. Len(stored) \in Nat /\ DOMAIN stored = 1 .. Len(stored)
    <3>1. stored \in Seq([blob : Containers, secret : Nat, password : Passwords, wrap : Nat])
      BY DEF TypeOK
    <3> QED
      BY <3>1, LenProperties
  <2>2. f \in Surjection(1 .. Len(stored), kept)
    BY <2>1 DEF Surjection
  <2>3. IsFiniteSet(1 .. Len(stored)) /\ Cardinality(1 .. Len(stored)) = Len(stored)
    BY <2>1, IntervalSize
  <2> HIDE DEF f, kept
  <2>4. IsFiniteSet(kept) /\ Cardinality(kept) <= Cardinality(1 .. Len(stored))
    BY <2>2, <2>3, FS_Surjection
  <2> QED
    BY <2>1, <2>3, <2>4
<1> HIDE DEF drawn, kept
<1>3. Cardinality(Screens) \in Nat
  BY FS_CardinalityType
<1>4. IsFiniteSet(drawn \cup kept) /\ Cardinality(drawn \cup kept) <= Len(stored) + Cardinality(Screens)
  <2>1. /\ Cardinality(drawn \cup kept) = Cardinality(drawn) + Cardinality(kept) - Cardinality(drawn \cap kept)
        /\ IsFiniteSet(drawn \cup kept) /\ IsFiniteSet(drawn \cap kept)
    BY <1>1, <1>2, FS_Union, FS_Intersection
  <2>2. /\ Cardinality(drawn) \in Nat /\ Cardinality(kept) \in Nat
        /\ Cardinality(drawn \cap kept) \in Nat
    BY <1>1, <1>2, <2>1, FS_CardinalityType
  <2> QED
    BY <1>1, <1>2, <1>3, <2>1, <2>2
<1>5. IsFiniteSet(range) /\ Cardinality(range) = Len(stored) + Cardinality(Screens) + 1
  <2>1. Len(stored) + Cardinality(Screens) \in Nat
    BY <1>2, <1>3
  <2> QED
    BY ONLY <2>1, IntervalSize
<1>6. ~(range \subseteq drawn \cup kept)
  <2> HIDE DEF range
  <2> SUFFICES ASSUME range \in SUBSET (drawn \cup kept) PROVE FALSE
    OBVIOUS
  <2>1. Cardinality(range) <= Cardinality(drawn \cup kept)
    BY <1>4, FS_Subset
  <2>2. Cardinality(drawn \cup kept) \in Int
    BY <1>4, FS_CardinalityType
  <2> QED
    BY <1>2, <1>3, <1>4, <1>5, <2>1, <2>2
<1>7. \E n \in range : n \notin {wrap} \cup drawn \cup kept
  BY <1>6, None \notin Nat
<1> QED
  BY <1>7 DEF FreshSecret, drawn, kept

(***************************************************************************)
(* The container: what is sealed opens, and what opens was sealed with the *)
(* same password, wrapping secret and header.                              *)
(***************************************************************************)

Sealed(secret, password, w, salt) ==
    [hex |-> TRUE, size |-> 3, header |-> BuildHeader(DefaultParams, salt),
     ciphertext |-> [key |-> Key(Compose(password, w), salt, DefaultParams),
                     aad |-> BuildHeader(DefaultParams, salt), msg |-> secret]]

Within(p) == p.mem \in MinMem .. MaxMem /\ p.iters \in 1 .. MaxIters /\ p.lanes \in 1 .. MaxLanes

LEMMA ChecksOfParams ==
  ASSUME NEW p
  PROVE  /\ ValidateKdfParams(p) = "None" <=> Within(p)
         /\ ValidateKdfParams(p) \in Kinds /\ DeriveKeyCheck(p) \in Kinds
  BY DEF ValidateKdfParams, DeriveKeyCheck, Check, Within, Kinds

LEMMA DefaultWithin == Within(DefaultParams) /\ DefaultParams \in Params
  BY DEF Within, Params

LEMMA SealedShape ==
  ASSUME NEW secret \in Nat, NEW password \in Passwords, NEW w \in Nat, NEW salt \in Nat
  PROVE  Sealed(secret, password, w, salt) \in Containers
<1>1. BuildHeader(DefaultParams, salt) \in Headers
  BY DefaultWithin DEF BuildHeader, Headers
<1>2. Key(Compose(password, w), salt, DefaultParams) \in Keys
  BY DefaultWithin DEF Key, Keys, Compose
<1>3. Sealed(secret, password, w, salt).ciphertext \in
          [key : Keys \cup {None}, aad : Headers, msg : Nat]
  BY <1>1, <1>2 DEF Sealed
<1> QED
  BY <1>1, <1>3 DEF Sealed, Containers

\* Encryption seals, unless the default parameters are refused.
LEMMA EncryptSeals ==
  ASSUME NEW secret, NEW password, NEW w, NEW salt
  PROVE  LET enc == WireEncryptSeed(<<secret, Compose(password, w)>>, salt) IN
         /\ enc.err = "None" <=> DeriveKeyCheck(DefaultParams) = "None"
         /\ enc.err = "None" => enc = Ok(Sealed(secret, password, w, salt))
<1> DEFINE enc == WireEncryptSeed(<<secret, Compose(password, w)>>, salt)
           err == First(<<ValidateKdfParams(DefaultParams), DeriveKeyCheck(DefaultParams)>>)
<1>1. enc = Unless(err, Sealed(secret, password, w, salt))
  BY DEF WireEncryptSeed, EncryptSeed, EncryptSeedWithParams, DefaultKdfParams, Sealed
<1>2. err = "None" <=> DeriveKeyCheck(DefaultParams) = "None"
  BY ChecksOfParams, DefaultWithin, FirstOf2
<1> HIDE DEF enc, err
<1>3. enc.err = err /\ (err = "None" => enc = Ok(Sealed(secret, password, w, salt)))
  BY <1>1 DEF Unless, Ok, Failed
<1> QED
  BY <1>2, <1>3 DEF enc

\* What decryption returns.
LEMMA DecryptOutcome ==
  ASSUME NEW c \in Containers, NEW password
  PROVE  LET r == WireDecryptSeed(<<c, password>>)
             p == c.header.params
         IN
         /\ r \in Results
         /\ r.cost # None => r.cost = p /\ Within(p)
         /\ r.of.err = "None" <=>
              /\ c.hex /\ c.size = 3
              /\ c.header.magic = "CFS1" /\ c.header.version = 1
              /\ c.header.kdf = 1 /\ c.header.salt_len = 16
              /\ Within(p) /\ DeriveKeyCheck(p) = "None"
              /\ c.ciphertext = [key |-> Key(password, c.header.salt, p), aad |-> c.header,
                                 msg |-> c.ciphertext.msg]
         /\ r.of.err = "None" => r.of = Ok(c.ciphertext.msg)
<1> DEFINE r == WireDecryptSeed(<<c, password>>)
           p == c.header.params
           before == First(<<HeaderCheck(c), ValidateKdfParams(p), Check(c.size < 2, "InvalidCbor"),
                             DeriveKeyCheck(p)>>)
           sealed == [key |-> Key(password, c.header.salt, p), aad |-> c.header,
                      msg |-> c.ciphertext.msg]
           opens == c.size = 3 /\ c.ciphertext = sealed
           err == First(<<before, Check(~opens, "InvalidKey")>>)
<1>1. r = [cost |-> IF before = "None" THEN p ELSE None, of |-> Unless(err, c.ciphertext.msg)]
  BY DEF WireDecryptSeed, DecryptSeed
<1>2. c.size \in 0 .. 3 /\ c.ciphertext.msg \in Nat /\ p \in Params
  BY DEF Containers, Headers
<1>3. /\ HeaderCheck(c) \in Kinds
      /\ HeaderCheck(c) = "None" <=>
           /\ c.hex /\ c.size >= 1
           /\ c.header.magic = "CFS1" /\ c.header.version = 1
           /\ c.header.kdf = 1 /\ c.header.salt_len = 16
  <2> DEFINE a == Check(~c.hex, "InvalidParameter")
             b == Check(c.size < 1, "InvalidCbor")
             d == Check(c.header.magic # "CFS1", "InvalidParameter")
             e == Check(c.header.version # 1, "InvalidParameter")
             f == Check(c.header.kdf # 1, "InvalidParameter")
             g == Check(c.header.salt_len # 16, "InvalidParameter")
  <2>1. /\ a \in Kinds /\ b \in Kinds /\ d \in Kinds
        /\ e \in Kinds /\ f \in Kinds /\ g \in Kinds
    BY DEF Check, Kinds
  <2>2. /\ a = "None" <=> c.hex
        /\ d = "None" <=> c.header.magic = "CFS1"
        /\ e = "None" <=> c.header.version = 1
        /\ f = "None" <=> c.header.kdf = 1
        /\ g = "None" <=> c.header.salt_len = 16
    BY DEF Check, Kinds
  <2>3. b = "None" <=> c.size >= 1
    BY <1>2 DEF Check, Kinds
  <2>4. HeaderCheck(c) = First(<<a, b, d, e, f, g>>)
    BY DEF HeaderCheck
  <2> HIDE DEF a, b, d, e, f, g
  <2> QED
    BY <2>1, <2>2, <2>3, <2>4, FirstOf6
<1>4. /\ before \in Kinds
      /\ before = "None" <=>
           HeaderCheck(c) = "None" /\ Within(p) /\ c.size >= 2 /\ DeriveKeyCheck(p) = "None"
  <2>1. /\ Check(c.size < 2, "InvalidCbor") \in Kinds
        /\ Check(c.size < 2, "InvalidCbor") = "None" <=> c.size >= 2
    BY <1>2 DEF Check, Kinds
  <2> DEFINE a == HeaderCheck(c)
             b == ValidateKdfParams(p)
             d == Check(c.size < 2, "InvalidCbor")
             e == DeriveKeyCheck(p)
  <2>2. a \in Kinds /\ b \in Kinds /\ d \in Kinds /\ e \in Kinds /\ (b = "None" <=> Within(p))
    BY <1>3, <2>1, ChecksOfParams
  <2>3. before = First(<<a, b, d, e>>)
    OBVIOUS
  <2>4. d = "None" <=> c.size >= 2
    BY <2>1
  <2> HIDE DEF before, a, b, d, e, p
  <2>5. /\ before \in Kinds
        /\ before = "None" <=> a = "None" /\ b = "None" /\ d = "None" /\ e = "None"
    BY <2>2, <2>3, FirstOf4
  <2> QED
    BY <2>2, <2>4, <2>5 DEF a, e
<1> HIDE DEF before, p, sealed
<1>5. err \in Kinds /\ (err = "None" <=> before = "None" /\ opens)
  <2>1. /\ Check(~opens, "InvalidKey") \in Kinds
        /\ Check(~opens, "InvalidKey") = "None" <=> opens
    BY DEF Check, Kinds
  <2> DEFINE a == Check(~opens, "InvalidKey")
  <2>2. err = First(<<before, a>>)
    OBVIOUS
  <2> HIDE DEF opens, a, err
  <2>3. a \in Kinds /\ (a = "None" <=> opens)
    BY <2>1 DEF a
  <2> QED
    BY <1>4, <2>2, <2>3, FirstOf2
<1> HIDE DEF err
<1>6. /\ r.cost = (IF before = "None" THEN p ELSE None) /\ r.of = Unless(err, c.ciphertext.msg)
      /\ r = [cost |-> r.cost, of |-> r.of]
  BY <1>1
<1> HIDE DEF r
<1>7. /\ r.of.err = err /\ r.of \in [err : {"None"}, ok : Nat] \cup [err : Kinds]
      /\ err = "None" => r.of = Ok(c.ciphertext.msg)
  BY <1>2, <1>5, <1>6 DEF Unless, Ok, Failed
<1>8. r \in Results
  BY <1>2, <1>6, <1>7 DEF Results
<1>9. r.cost # None => r.cost = p /\ Within(p)
  BY <1>4, <1>6
<1>10. r.of.err = "None" <=>
         /\ c.hex /\ c.size = 3
         /\ c.header.magic = "CFS1" /\ c.header.version = 1
         /\ c.header.kdf = 1 /\ c.header.salt_len = 16
         /\ Within(p) /\ DeriveKeyCheck(p) = "None"
         /\ c.ciphertext = sealed
  BY <1>3, <1>4, <1>5, <1>7
<1> QED
  BY <1>7, <1>8, <1>9, <1>10 DEF r, p, sealed

(***************************************************************************)
(* Steps of a screen.                                                      *)
(***************************************************************************)

Stages == {"idle", "wrap?", "write wrap", "encrypt", "write blob", "blob?", "unlock",
           "delete blob", "delete wrap", "refresh"}

\* What an operation has done so far: all of a screen that the storage depends on.
Doing(r, at, w, b) == r.at = at /\ r.wrap = w /\ r.blob = b

LEMMA ClosedShape == Closed \in Instances /\ Doing(Closed, "idle", None, None)
  BY DEF Closed, Instances, Doing

\* What a step of an operation leaves.
LEMMA StepEffect ==
  ASSUME TypeOK, NEW s \in Screens, NEW at \in Stages, NEW local \in Instances,
         Step(s, at, local), UNCHANGED stored
  PROVE  /\ screen' \in [Screens -> Instances']
         /\ \A t \in Screens \ {s} : screen'[t] = screen[t]
         /\ \/ at = "idle" /\ screen'[s] = Closed
            \/ Doing(screen'[s], at, local.wrap, local.blob) /\ screen'[s].unlocked = local.unlocked
<1>1. Instances' = Instances
  BY DEF Instances, Unlocks
<1> DEFINE new == IF at = "idle" /\ ~local.mounted THEN Closed ELSE [local EXCEPT !.at = at]
<1>2. screen \in [Screens -> Instances] /\ screen' = [screen EXCEPT ![s] = new]
  BY DEF TypeOK, Step
<1>3. new \in Instances
  BY ClosedShape DEF Instances, Stages
<1>4. \/ at = "idle" /\ new = Closed
      \/ Doing(new, at, local.wrap, local.blob) /\ new.unlocked = local.unlocked
  BY DEF Instances, Doing
<1> HIDE DEF new
<1>5. /\ screen' \in [Screens -> Instances] /\ screen'[s] = new
      /\ \A t \in Screens \ {s} : screen'[t] = screen[t]
  BY <1>2, <1>3
<1> QED
  BY <1>1, <1>4, <1>5

\* A step that leaves the storage alone keeps the invariant if the screen it
\* is a step of knows what it should.
LEMMA QuietStep ==
  ASSUME Kept, NEW s \in Screens, UNCHANGED <<blob, wrap, stored, damaged>>,
         screen' \in [Screens -> Instances'],
         \A t \in Screens \ {s} : screen'[t] = screen[t],
         overlapped' \in BOOLEAN,
         NEW at \in Stages, NEW w, NEW b, Doing(screen'[s], at, w, b),
         Held(b),
         at \in {"write wrap", "encrypt", "write blob"} => w \in Nat,
         at = "write blob" => Written(b, w),
         ~overlapped' =>
            /\ ~overlapped
            /\ at = "idle" \/ screen[s].at # "idle" \/ \A t \in Screens \ {s} : screen[t].at = "idle"
            /\ at = "write wrap" => wrap = None
            /\ at \in {"encrypt", "write blob"} => wrap = w
            /\ at = "delete wrap" => blob = None
  PROVE  Kept'
<1>1. TypeOK' /\ WrittenAsSealed'
  BY DEF Kept, TypeOK, WrittenAsSealed, WireEncryptSeed
<1>2. /\ \A c : Held(c)' <=> Held(c)
      /\ \A c, v : Written(c, v)' <=> Written(c, v)
      /\ \A c : Genuine(c)' <=> Genuine(c)
  BY DEF Held, Written, Genuine
<1>3. screen'[s].at = at /\ screen'[s].wrap = w /\ screen'[s].blob = b
  BY DEF Doing
<1>4. ContainersHeld'
  <2>1. Held(blob)' /\ (~damaged' => blob' = None \/ Genuine(blob)')
    BY <1>2 DEF Kept, ContainersHeld
  <2>2. ASSUME NEW t \in Screens
        PROVE  /\ Held(screen'[t].blob)
               /\ screen'[t].at \in {"write wrap", "encrypt", "write blob"} => screen'[t].wrap \in Nat
               /\ screen'[t].at = "write blob" => Written(screen'[t].blob, screen'[t].wrap)
    <3>1. CASE t = s
      BY <1>3, <3>1
    <3>2. CASE t # s
      BY <3>2 DEF Kept, ContainersHeld
    <3> QED
      BY <3>1, <3>2
  <2> QED
    BY <1>2, <2>1, <2>2 DEF ContainersHeld
<1>5. OneAtATime'
  <2> SUFFICES ASSUME ~overlapped' PROVE OneAtATime'
    BY DEF OneAtATime
  <2>1. OneAtATime /\ ~overlapped
    BY DEF Kept
  <2>2. ASSUME NEW t \in Screens, NEW u \in Screens
        PROVE  t = u \/ screen'[t].at = "idle" \/ screen'[u].at = "idle"
    <3>1. \A p, q \in Screens : p = q \/ screen[p].at = "idle" \/ screen[q].at = "idle"
      BY <2>1 DEF OneAtATime
    <3>2. ASSUME NEW x \in Screens \ {s} PROVE at = "idle" \/ screen'[x].at = "idle"
      <4>1. screen'[x] = screen[x]
        OBVIOUS
      <4>2. CASE screen[s].at # "idle"
        BY <3>1, <4>1, <4>2
      <4>3. CASE screen[s].at = "idle"
        BY <4>1, <4>3
      <4> QED
        BY <4>2, <4>3
    <3>3. CASE t = s
      BY <1>3, <3>2, <3>3
    <3>4. CASE u = s
      BY <1>3, <3>2, <3>4
    <3>5. CASE t # s /\ u # s
      <4>1. screen'[t] = screen[t] /\ screen'[u] = screen[u]
        BY <3>5
      <4> QED
        BY <3>1, <4>1
    <3> QED
      BY <3>3, <3>4, <3>5
  <2>3. ASSUME NEW t \in Screens
        PROVE  /\ screen'[t].at = "write wrap" => wrap = None
               /\ screen'[t].at \in {"encrypt", "write blob"} => wrap = screen'[t].wrap
               /\ screen'[t].at = "delete wrap" => blob = None
    <3>1. CASE t = s
      BY <1>3, <3>1
    <3>2. CASE t # s
      BY <2>1, <3>2 DEF OneAtATime
    <3> QED
      BY <3>1, <3>2
  <2>4. blob # None /\ ~damaged => Written(blob, wrap)
    BY <2>1 DEF OneAtATime
  <2> QED
    BY <1>2, <2>2, <2>3, <2>4 DEF OneAtATime
<1> QED
  BY <1>1, <1>4, <1>5 DEF Kept

LEMMA OthersIdle ==
  ASSUME Kept, ~overlapped, NEW s \in Screens, screen[s].at # "idle"
  PROVE  \A t \in Screens \ {s} : screen[t].at = "idle"
  BY DEF Kept, OneAtATime

\* A step of an operation that writes to the storage, or reads it.
LEMMA StorageStep ==
  ASSUME Kept, NEW s \in Screens, screen[s].at # "idle", UNCHANGED <<stored, overlapped>>,
         screen' \in [Screens -> Instances'],
         \A t \in Screens \ {s} : screen'[t] = screen[t],
         NEW at \in Stages, NEW w, NEW b, Doing(screen'[s], at, w, b),
         Held(b),
         at \in {"write wrap", "encrypt", "write blob"} => w \in Nat,
         at = "write blob" => Written(b, w),
         blob' \in Containers \cup {None}, wrap' \in Nat \cup {None}, damaged' \in BOOLEAN,
         Held(blob'), ~damaged' => blob' = None \/ Genuine(blob'),
         ~overlapped =>
            /\ at = "write wrap" => wrap' = None
            /\ at \in {"encrypt", "write blob"} => wrap' = w
            /\ at = "delete wrap" => blob' = None
            /\ blob' # None /\ ~damaged' => Written(blob', wrap')
  PROVE  Kept'
<1>1. TypeOK' /\ WrittenAsSealed'
  BY DEF Kept, TypeOK, WrittenAsSealed, WireEncryptSeed
<1>2. /\ Held(blob)' <=> Held(blob')
      /\ Genuine(blob)' <=> Genuine(blob')
      /\ Written(blob, wrap)' <=> Written(blob', wrap')
      /\ \A t \in Screens : /\ Held(screen[t].blob)' <=> Held(screen'[t].blob)
                            /\ Written(screen[t].blob, screen[t].wrap)' <=>
                                   Written(screen'[t].blob, screen'[t].wrap)
  BY DEF Held, Written, Genuine
<1>3. screen'[s].at = at /\ screen'[s].wrap = w /\ screen'[s].blob = b
  BY DEF Doing
<1>4. ContainersHeld'
  <2>1. ASSUME NEW t \in Screens
        PROVE  /\ Held(screen'[t].blob)
               /\ screen'[t].at \in {"write wrap", "encrypt", "write blob"} => screen'[t].wrap \in Nat
               /\ screen'[t].at = "write blob" => Written(screen'[t].blob, screen'[t].wrap)
    <3>1. CASE t = s
      BY <1>3, <3>1
    <3>2. CASE t # s
      BY <3>2 DEF Kept, ContainersHeld
    <3> QED
      BY <3>1, <3>2
  <2> QED
    BY <1>2, <2>1 DEF ContainersHeld
<1>5. OneAtATime'
  <2> SUFFICES ASSUME ~overlapped PROVE OneAtATime'
    BY DEF OneAtATime
  <2>1. ASSUME NEW t \in Screens \ {s} PROVE screen'[t].at = "idle"
    BY OthersIdle
  <2>2. ASSUME NEW t \in Screens
        PROVE  /\ screen'[t].at = "write wrap" => wrap' = None
               /\ screen'[t].at \in {"encrypt", "write blob"} => wrap' = screen'[t].wrap
               /\ screen'[t].at = "delete wrap" => blob' = None
    <3>1. CASE t = s
      BY <1>3, <3>1
    <3>2. CASE t # s
      <4>1. screen'[t].at = "idle"
        BY <2>1, <3>2
      <4> QED
        BY ONLY <4>1
    <3> QED
      BY <3>1, <3>2
  <2> QED
    BY <1>2, <2>1, <2>2 DEF OneAtATime
<1> QED
  BY <1>1, <1>4, <1>5 DEF Kept

\* An unlock shown stays as it is, or is gone.
Unlocked == \A t \in Screens : screen'[t].unlocked \in {None, screen[t].unlocked}

LEMMA OpenKeeps ==
  ASSUME Kept, NEW s \in Screens, Open(s) PROVE Kept' /\ Unlocked
<1>1. Instances' = Instances
  BY DEF Open, Instances, Unlocks
<1>2. screen \in [Screens -> Instances] /\ overlapped \in BOOLEAN
  BY DEF Kept, TypeOK
<1> DEFINE new == [Closed EXCEPT !.mounted = TRUE, !.looking = TRUE]
<1>3. screen' = [screen EXCEPT ![s] = new]
  BY <1>2 DEF Open
<1>4. new \in Instances /\ Doing(new, "idle", None, None) /\ new.unlocked = None
  BY DEF Closed, Instances, Doing
<1> HIDE DEF new
<1>5. /\ screen' \in [Screens -> Instances'] /\ screen'[s] = new
      /\ \A t \in Screens \ {s} : screen'[t] = screen[t]
  BY <1>1, <1>2, <1>3, <1>4
<1>6. "idle" \in Stages /\ Held(None)
  BY DEF Stages, Held
<1>7. UNCHANGED <<blob, wrap, stored, damaged, overlapped>>
  BY DEF Open
<1>8. Doing(screen'[s], "idle", None, None)
  BY <1>4, <1>5
<1>9. Kept'
  BY ONLY Kept, <1>2, <1>5, <1>6, <1>7, <1>8, QuietStep
<1> QED
  BY <1>4, <1>5, <1>9 DEF Unlocked

LEMMA LeaveKeeps ==
  ASSUME Kept, NEW s \in Screens, Leave(s) PROVE Kept' /\ Unlocked
<1>1. Instances' = Instances
  BY DEF Leave, Instances, Unlocks
<1>2. screen \in [Screens -> Instances] /\ overlapped \in BOOLEAN /\ screen[s] \in Instances
  BY DEF Kept, TypeOK
<1> DEFINE new == IF screen[s].at = "idle" THEN Closed
                  ELSE [screen[s] EXCEPT !.mounted = FALSE, !.unlocked = None]
<1>3. screen' = [screen EXCEPT ![s] = new]
  BY <1>2 DEF Leave
<1>4. new \in Instances /\ new.unlocked = None
  BY <1>2, ClosedShape DEF Instances, Closed
<1>5. \/ Doing(new, "idle", None, None)
      \/ screen[s].at # "idle" /\ Doing(new, screen[s].at, screen[s].wrap, screen[s].blob)
  BY <1>2, ClosedShape DEF Instances, Doing
<1> HIDE DEF new
<1>6. /\ screen' \in [Screens -> Instances'] /\ screen'[s] = new
      /\ \A t \in Screens \ {s} : screen'[t] = screen[t]
  BY <1>1, <1>2, <1>3, <1>4
<1>7. "idle" \in Stages /\ Held(None) /\ screen[s].at \in Stages
  BY <1>2 DEF Stages, Held, Instances
<1>8. Kept'
  <2>1. CASE Doing(new, "idle", None, None)
    BY <1>2, <1>6, <1>7, <2>1, QuietStep DEF Leave
  <2>2. CASE screen[s].at # "idle" /\ Doing(new, screen[s].at, screen[s].wrap, screen[s].blob)
    <3> DEFINE at == screen[s].at
               w == screen[s].wrap
               b == screen[s].blob
    <3>1. /\ Held(b) /\ at \in Stages
          /\ at \in {"write wrap", "encrypt", "write blob"} => w \in Nat
          /\ at = "write blob" => Written(b, w)
      BY <1>7 DEF Kept, ContainersHeld
    <3>2. ~overlapped => /\ at = "write wrap" => wrap = None
                         /\ at \in {"encrypt", "write blob"} => wrap = w
                         /\ at = "delete wrap" => blob = None
      BY DEF Kept, OneAtATime
    <3>3. Doing(screen'[s], at, w, b) /\ screen[s].at # "idle"
      BY <1>6, <2>2
    <3>4. UNCHANGED <<blob, wrap, stored, damaged, overlapped>>
      BY DEF Leave
    <3> HIDE DEF at, w, b
    <3> QED
      BY <1>2, <1>6, <3>1, <3>2, <3>3, <3>4, QuietStep
  <2> QED
    BY <1>5, <2>1, <2>2
<1> QED
  BY <1>4, <1>6, <1>8 DEF Unlocked

LEMMA LookKeeps ==
  ASSUME Kept, NEW s \in Screens, Look(s) PROVE Kept' /\ Unlocked
<1>1. Instances' = Instances
  BY DEF Look, Instances, Unlocks
<1>2. screen \in [Screens -> Instances] /\ overlapped \in BOOLEAN /\ screen[s] \in Instances
  BY DEF Kept, TypeOK
<1> DEFINE seen == IF screen[s].mounted THEN blob # None ELSE screen[s].hasVault
           new == [screen[s] EXCEPT !.looking = FALSE, !.hasVault = seen]
<1>3. screen' = [screen EXCEPT ![s] = new]
  BY <1>2 DEF Look
<1>4. new \in Instances /\ new.unlocked = screen[s].unlocked
  <2>1. seen \in BOOLEAN
    BY <1>2 DEF Instances
  <2> HIDE DEF seen
  <2> QED
    BY <1>2, <2>1 DEF Instances
<1>5. Doing(new, screen[s].at, screen[s].wrap, screen[s].blob)
  BY <1>2 DEF Instances, Doing
<1> HIDE DEF new
<1>6. /\ screen' \in [Screens -> Instances'] /\ screen'[s] = new
      /\ \A t \in Screens \ {s} : screen'[t] = screen[t]
  BY <1>1, <1>2, <1>3, <1>4
<1> DEFINE at == screen[s].at
           w == screen[s].wrap
           b == screen[s].blob
<1>7. /\ Held(b) /\ at \in Stages
      /\ at \in {"write wrap", "encrypt", "write blob"} => w \in Nat
      /\ at = "write blob" => Written(b, w)
  BY <1>2 DEF Kept, ContainersHeld, Stages, Instances
<1>8. ~overlapped => /\ at = "write wrap" => wrap = None
                     /\ at \in {"encrypt", "write blob"} => wrap = w
                     /\ at = "delete wrap" => blob = None
  BY DEF Kept, OneAtATime
<1>9. Doing(screen'[s], at, w, b) /\ (at = "idle" \/ screen[s].at # "idle")
  BY <1>5, <1>6
<1>10. UNCHANGED <<blob, wrap, stored, damaged, overlapped>>
  BY DEF Look
<1> HIDE DEF at, w, b
<1>11. Kept'
  BY <1>2, <1>6, <1>7, <1>8, <1>9, <1>10, QuietStep
<1> QED
  BY <1>4, <1>6, <1>11 DEF Unlocked

LEMMA TapKeeps ==
  ASSUME Kept, NEW s \in Screens, NEW at \in {"wrap?", "blob?", "delete blob"}, Tap(s, at)
  PROVE  Kept' /\ Unlocked
<1>1. Instances' = Instances
  BY DEF Tap, Instances, Unlocks
<1>2. screen \in [Screens -> Instances] /\ overlapped \in BOOLEAN /\ screen[s] \in Instances
  BY DEF Kept, TypeOK
<1> DEFINE new == [screen[s] EXCEPT !.at = at, !.unlocked = None]
<1>3. screen' = [screen EXCEPT ![s] = new]
  BY <1>2 DEF Tap
<1>4. /\ new \in Instances /\ new.unlocked = None
      /\ Doing(new, at, screen[s].wrap, screen[s].blob)
  BY <1>2 DEF Instances, Doing
<1> HIDE DEF new
<1>5. /\ screen' \in [Screens -> Instances'] /\ screen'[s] = new
      /\ \A t \in Screens \ {s} : screen'[t] = screen[t]
  BY <1>1, <1>2, <1>3, <1>4
<1>6. Held(screen[s].blob) /\ at \in Stages
  BY DEF Kept, ContainersHeld, Stages
<1>7. /\ overlapped' \in BOOLEAN
      /\ ~overlapped' => ~overlapped /\ \A t \in Screens \ {s} : screen[t].at = "idle"
  BY <1>2 DEF Tap
<1>8. Doing(screen'[s], at, screen[s].wrap, screen[s].blob)
  BY <1>4, <1>5
<1>9. UNCHANGED <<blob, wrap, stored, damaged>>
  BY DEF Tap
<1>10. Kept'
  BY <1>5, <1>6, <1>7, <1>8, <1>9, QuietStep
<1> QED
  BY <1>4, <1>5, <1>10 DEF Unlocked

\* An operation goes on, or ends, with what it knows.
LEMMA OperationStep ==
  ASSUME Kept, NEW s \in Screens, screen[s].at # "idle", UNCHANGED <<stored, overlapped>>,
         NEW at \in Stages, NEW local \in Instances, Step(s, at, local),
         Held(local.blob),
         at \in {"write wrap", "encrypt", "write blob"} => local.wrap \in Nat,
         at = "write blob" => Written(local.blob, local.wrap),
         blob' \in Containers \cup {None}, wrap' \in Nat \cup {None}, damaged' \in BOOLEAN,
         Held(blob'), ~damaged' => blob' = None \/ Genuine(blob'),
         ~overlapped =>
            /\ at = "write wrap" => wrap' = None
            /\ at \in {"encrypt", "write blob"} => wrap' = local.wrap
            /\ at = "delete wrap" => blob' = None
            /\ blob' # None /\ ~damaged' => Written(blob', wrap')
  PROVE  /\ Kept'
         /\ \A t \in Screens \ {s} : screen'[t] = screen[t]
         /\ screen'[s].unlocked \in {None, local.unlocked}
<1>1. /\ screen' \in [Screens -> Instances']
      /\ \A t \in Screens \ {s} : screen'[t] = screen[t]
      /\ \/ at = "idle" /\ screen'[s] = Closed
         \/ Doing(screen'[s], at, local.wrap, local.blob) /\ screen'[s].unlocked = local.unlocked
  BY StepEffect DEF Kept
<1>2. CASE at = "idle" /\ screen'[s] = Closed
  <2>1. Doing(screen'[s], at, None, None) /\ Held(None) /\ screen'[s].unlocked = None
    BY <1>2, ClosedShape DEF Held, Closed
  <2>2. ~overlapped => (blob' # None /\ ~damaged' => Written(blob', wrap'))
    OBVIOUS
  <2>3. at \notin {"write wrap", "encrypt", "write blob", "delete wrap"}
    BY <1>2
  <2>4. Kept'
    BY <1>1, <2>1, <2>2, <2>3, StorageStep
  <2> QED
    BY <1>1, <2>1, <2>4
<1>3. CASE Doing(screen'[s], at, local.wrap, local.blob) /\ screen'[s].unlocked = local.unlocked
  <2> DEFINE w == local.wrap
             b == local.blob
  <2>1. /\ Held(b) /\ Doing(screen'[s], at, w, b)
        /\ at \in {"write wrap", "encrypt", "write blob"} => w \in Nat
        /\ at = "write blob" => Written(b, w)
    BY <1>3
  <2>2. ~overlapped =>
            /\ at = "write wrap" => wrap' = None
            /\ at \in {"encrypt", "write blob"} => wrap' = w
            /\ at = "delete wrap" => blob' = None
            /\ blob' # None /\ ~damaged' => Written(blob', wrap')
    OBVIOUS
  <2> HIDE DEF w, b
  <2>3. Kept'
    BY <1>1, <2>1, <2>2, StorageStep
  <2> QED
    BY <1>1, <1>3, <2>3
<1> QED
  BY <1>1, <1>2, <1>3

\* The storage as it was.
LEMMA StorageAsItWas ==
  ASSUME Kept, UNCHANGED <<blob, wrap, stored, damaged>>
  PROVE  /\ blob' \in Containers \cup {None} /\ wrap' \in Nat \cup {None} /\ damaged' \in BOOLEAN
         /\ Held(blob') /\ (~damaged' => blob' = None \/ Genuine(blob'))
         /\ ~overlapped => (blob' # None /\ ~damaged' => Written(blob', wrap'))
  BY DEF Kept, TypeOK, ContainersHeld, OneAtATime

LEMMA UnlockedStays ==
  ASSUME NEW s \in Screens, \A t \in Screens \ {s} : screen'[t] = screen[t],
         screen'[s].unlocked \in {None, screen[s].unlocked}
  PROVE  Unlocked
  BY DEF Unlocked

\* What the invariant says of a screen.
LEMMA ScreenHolds ==
  ASSUME Kept, NEW s \in Screens
  PROVE  /\ screen[s] \in Instances /\ Held(screen[s].blob)
         /\ screen[s].at \in {"write wrap", "encrypt", "write blob"} => screen[s].wrap \in Nat
         /\ screen[s].at = "write blob" => Written(screen[s].blob, screen[s].wrap)
         /\ ~overlapped =>
              /\ screen[s].at = "write wrap" => wrap = None
              /\ screen[s].at \in {"encrypt", "write blob"} => wrap = screen[s].wrap
              /\ screen[s].at = "delete wrap" => blob = None
  BY DEF Kept, TypeOK, ContainersHeld, OneAtATime

\* The operation ends: nothing more is asked of what it knew.
LEMMA DoneKeeps ==
  ASSUME Kept, NEW s \in Screens, screen[s].at # "idle", NEW local \in Instances,
         Done(s, local), UNCHANGED <<blob, wrap, stored, damaged, overlapped>>
  PROVE  /\ Kept'
         /\ \A t \in Screens \ {s} : screen'[t] = screen[t]
         /\ screen'[s].unlocked \in {None, local.unlocked}
<1> DEFINE over == [local EXCEPT !.wrap = None, !.blob = None]
<1>1. /\ over \in Instances /\ over.blob = None /\ over.wrap = None
      /\ over.unlocked = local.unlocked
  BY DEF Instances
<1>2. Step(s, "idle", over)
  BY DEF Done
<1> HIDE DEF over
<1>3. "idle" \in Stages /\ Held(over.blob)
  BY <1>1 DEF Stages, Held
<1>4. "idle" \notin {"write wrap", "encrypt", "write blob", "delete wrap"}
  OBVIOUS
<1> QED
  BY <1>1, <1>2, <1>3, <1>4, StorageAsItWas, OperationStep

LEMMA ReadWrapKeeps ==
  ASSUME Kept, NEW s \in Screens, ReadWrap(s) PROVE Kept' /\ Unlocked
<1>1. /\ screen[s] \in Instances /\ Held(screen[s].blob) /\ screen[s].at # "idle"
      /\ wrap \in Nat \cup {None}
  BY ScreenHolds DEF ReadWrap, Kept, TypeOK
<1>2. UNCHANGED <<blob, wrap, stored, damaged, overlapped>>
  BY DEF ReadWrap
<1>3. CASE wrap # None
  <2> DEFINE local == [screen[s] EXCEPT !.wrap = wrap]
  <2>1. /\ local \in Instances /\ local.blob = screen[s].blob /\ local.wrap = wrap
        /\ local.unlocked = screen[s].unlocked /\ wrap \in Nat
    BY <1>1, <1>3 DEF Instances
  <2>2. Step(s, "encrypt", local) /\ "encrypt" \in Stages
    BY <1>3 DEF ReadWrap, Stages
  <2> HIDE DEF local
  <2>3. /\ Kept'
        /\ \A t \in Screens \ {s} : screen'[t] = screen[t]
        /\ screen'[s].unlocked \in {None, local.unlocked}
    BY <1>1, <1>2, <2>1, <2>2, StorageAsItWas, OperationStep
  <2> QED
    BY <2>1, <2>3, UnlockedStays
<1>4. CASE wrap = None
  <2> DEFINE local == [screen[s] EXCEPT !.wrap = FreshSecret]
  <2>1. FreshSecret \in Nat
    BY <1>4, FreshSecretExists DEF Kept
  <2>2. /\ local \in Instances /\ local.blob = screen[s].blob /\ local.wrap \in Nat
        /\ local.unlocked = screen[s].unlocked
    BY <1>1, <2>1 DEF Instances
  <2>3. Step(s, "write wrap", local) /\ "write wrap" \in Stages
    BY <1>4 DEF ReadWrap, Stages
  <2> HIDE DEF local
  <2>4. /\ Kept'
        /\ \A t \in Screens \ {s} : screen'[t] = screen[t]
        /\ screen'[s].unlocked \in {None, local.unlocked}
    BY <1>1, <1>2, <1>4, <2>2, <2>3, StorageAsItWas, OperationStep
  <2> QED
    BY <2>2, <2>4, UnlockedStays
<1> QED
  BY <1>3, <1>4

LEMMA ReadBlobKeeps ==
  ASSUME Kept, NEW s \in Screens, ReadBlob(s) PROVE Kept' /\ Unlocked
<1>1. /\ screen[s] \in Instances /\ Held(blob) /\ screen[s].at # "idle"
      /\ blob \in Containers \cup {None}
  BY ScreenHolds DEF ReadBlob, Kept, TypeOK, ContainersHeld
<1>2. UNCHANGED <<blob, wrap, stored, damaged, overlapped>>
  BY DEF ReadBlob
<1> DEFINE local == [screen[s] EXCEPT !.blob = blob]
<1>3. /\ local \in Instances /\ local.blob = blob
      /\ local.unlocked = screen[s].unlocked
  BY <1>1 DEF Instances
<1>4. Step(s, "unlock", local) /\ "unlock" \in Stages
  BY DEF ReadBlob, Stages
<1> HIDE DEF local
<1>5. /\ Kept'
      /\ \A t \in Screens \ {s} : screen'[t] = screen[t]
      /\ screen'[s].unlocked \in {None, local.unlocked}
  BY <1>1, <1>2, <1>3, <1>4, StorageAsItWas, OperationStep
<1> QED
  BY <1>3, <1>5, UnlockedStays

LEMMA RefreshKeeps ==
  ASSUME Kept, NEW s \in Screens, Refresh(s) PROVE Kept' /\ Unlocked
<1>1. screen[s] \in Instances /\ screen[s].at # "idle"
  BY ScreenHolds DEF Refresh
<1>2. UNCHANGED <<blob, wrap, stored, damaged, overlapped>>
  BY DEF Refresh
<1> DEFINE seen == IF screen[s].mounted THEN blob # None ELSE screen[s].hasVault
           local == [screen[s] EXCEPT !.hasVault = seen]
<1>3. local \in Instances /\ local.unlocked = screen[s].unlocked
  <2>1. seen \in BOOLEAN
    BY <1>1 DEF Instances
  <2> HIDE DEF seen
  <2> QED
    BY <1>1, <2>1 DEF Instances
<1>4. Done(s, local)
  <2>1. [screen[s] EXCEPT !.hasVault = IF screen[s].mounted THEN blob # None ELSE @] = local
    OBVIOUS
  <2> HIDE DEF local
  <2> QED
    BY <2>1 DEF Refresh
<1> HIDE DEF local
<1>5. /\ Kept'
      /\ \A t \in Screens \ {s} : screen'[t] = screen[t]
      /\ screen'[s].unlocked \in {None, local.unlocked}
  BY <1>1, <1>2, <1>3, <1>4, DoneKeeps
<1> QED
  BY <1>3, <1>5, UnlockedStays

LEMMA StorageFailsKeeps ==
  ASSUME Kept, NEW s \in Screens, StorageFails(s) PROVE Kept' /\ Unlocked
<1>1. screen[s] \in Instances /\ screen[s].at # "idle"
  BY ScreenHolds DEF StorageFails
<1>2. UNCHANGED <<blob, wrap, stored, damaged, overlapped>> /\ Done(s, screen[s])
  BY DEF StorageFails
<1> QED
  BY <1>1, <1>2, DoneKeeps, UnlockedStays

LEMMA WriteWrapKeeps ==
  ASSUME Kept, NEW s \in Screens, WriteWrap(s) PROVE Kept' /\ Unlocked
<1>1. /\ screen[s] \in Instances /\ Held(screen[s].blob) /\ screen[s].at = "write wrap"
      /\ screen[s].wrap \in Nat
  BY ScreenHolds DEF WriteWrap
<1>2. UNCHANGED <<blob, stored, damaged, overlapped>> /\ wrap' = screen[s].wrap
  BY DEF WriteWrap
<1>3. /\ blob' \in Containers \cup {None} /\ wrap' \in Nat \cup {None} /\ damaged' \in BOOLEAN
      /\ Held(blob') /\ (~damaged' => blob' = None \/ Genuine(blob'))
  BY <1>1, <1>2 DEF Kept, TypeOK, ContainersHeld
<1>4. ~overlapped => ~(blob' # None /\ ~damaged')
  <2>1. ~overlapped => wrap = None /\ (blob # None /\ ~damaged => Written(blob, wrap))
    BY <1>1 DEF Kept, OneAtATime
  <2>2. ~Written(blob, None)
    <3>1. \A i \in DOMAIN stored : stored[i].wrap \in Nat
      BY StoredTyped DEF Kept
    <3> QED
      BY <3>1 DEF Written
  <2> QED
    BY <1>2, <2>1, <2>2
<1>5. Step(s, "encrypt", screen[s]) /\ "encrypt" \in Stages
  BY DEF WriteWrap, Stages
<1> DEFINE local == screen[s]
<1>6. /\ local \in Instances /\ Held(local.blob) /\ local.wrap \in Nat /\ wrap' = local.wrap
      /\ Step(s, "encrypt", local) /\ screen[s].at # "idle" /\ local.unlocked = screen[s].unlocked
  BY <1>1, <1>2, <1>5
<1> HIDE DEF local
<1>7. /\ Kept'
      /\ \A t \in Screens \ {s} : screen'[t] = screen[t]
      /\ screen'[s].unlocked \in {None, local.unlocked}
  BY <1>2, <1>3, <1>4, <1>5, <1>6, OperationStep
<1> QED
  BY <1>6, <1>7, UnlockedStays

LEMMA WriteBlobKeeps ==
  ASSUME Kept, NEW s \in Screens, WriteBlob(s) PROVE Kept' /\ Unlocked
<1>1. /\ screen[s] \in Instances /\ screen[s].at = "write blob"
      /\ Written(screen[s].blob, screen[s].wrap)
      /\ ~overlapped => wrap = screen[s].wrap
  BY ScreenHolds DEF WriteBlob
<1>2. UNCHANGED <<wrap, stored, overlapped>> /\ blob' = screen[s].blob /\ damaged' = FALSE
  BY DEF WriteBlob
<1>3. Genuine(blob') /\ Held(blob') /\ (~overlapped => Written(blob', wrap'))
  BY <1>1, <1>2 DEF Genuine, Held, Written
<1>4. blob' \in Containers \cup {None} /\ wrap' \in Nat \cup {None} /\ damaged' \in BOOLEAN
  BY <1>1, <1>2 DEF Kept, TypeOK, Instances
<1> DEFINE local == IF screen[s].mounted THEN screen[s]
                    ELSE [screen[s] EXCEPT !.wrap = None, !.blob = None]
           at == IF screen[s].mounted THEN "refresh" ELSE "idle"
<1>5. local \in Instances /\ local.unlocked = screen[s].unlocked
  BY <1>1 DEF Instances
<1>6. Held(local.blob)
  BY <1>1, ScreenHolds DEF Instances, Held
<1>7. Step(s, at, local)
  BY DEF WriteBlob, Done
<1>8. at \in Stages /\ at \notin {"write wrap", "encrypt", "write blob", "delete wrap"}
  BY DEF Stages
<1>9. screen[s].at # "idle"
  BY <1>1
<1> HIDE DEF local, at
<1>10. /\ Kept'
       /\ \A t \in Screens \ {s} : screen'[t] = screen[t]
       /\ screen'[s].unlocked \in {None, local.unlocked}
  BY <1>2, <1>3, <1>4, <1>5, <1>6, <1>7, <1>8, <1>9, OperationStep
<1> QED
  BY <1>5, <1>10, UnlockedStays

LEMMA WipeKeeps ==
  ASSUME Kept, NEW s \in Screens, Wipe(s) PROVE Kept' /\ Unlocked
<1>1. /\ screen[s] \in Instances /\ Held(screen[s].blob) /\ screen[s].at # "idle"
      /\ ~overlapped => (screen[s].at = "delete wrap" => blob = None)
  BY ScreenHolds DEF Wipe
<1>2. UNCHANGED <<stored, damaged, overlapped>>
  BY DEF Wipe
<1>3. /\ blob \in Containers \cup {None} /\ wrap \in Nat \cup {None} /\ damaged \in BOOLEAN
      /\ Held(blob) /\ (~damaged => blob = None \/ Genuine(blob)) /\ Held(None)
  BY DEF Kept, TypeOK, ContainersHeld, Held
<1> DEFINE local == screen[s]
<1>4. local \in Instances /\ Held(local.blob) /\ local.unlocked = screen[s].unlocked
  BY <1>1
<1>5. CASE blob' = None /\ wrap' = wrap /\ Step(s, "delete wrap", local)
  <2>1. "delete wrap" \in Stages /\ "delete wrap" \notin {"write wrap", "encrypt", "write blob"}
    BY DEF Stages
  <2> HIDE DEF local
  <2>2. /\ Kept'
        /\ \A t \in Screens \ {s} : screen'[t] = screen[t]
        /\ screen'[s].unlocked \in {None, local.unlocked}
    BY <1>1, <1>2, <1>3, <1>4, <1>5, <2>1, OperationStep
  <2> QED
    BY <1>4, <2>2, UnlockedStays
<1>6. CASE screen[s].at = "delete wrap" /\ wrap' = None /\ blob' = blob /\ Step(s, "refresh", local)
  <2>1. "refresh" \in Stages /\ "refresh" \notin {"write wrap", "encrypt", "write blob", "delete wrap"}
    BY DEF Stages
  <2>2. ~overlapped => blob = None
    BY <1>1, <1>6
  <2> HIDE DEF local
  <2>3. /\ Kept'
        /\ \A t \in Screens \ {s} : screen'[t] = screen[t]
        /\ screen'[s].unlocked \in {None, local.unlocked}
    BY <1>1, <1>2, <1>3, <1>4, <1>6, <2>1, <2>2, OperationStep
  <2> QED
    BY <1>4, <2>3, UnlockedStays
<1> QED
  BY <1>5, <1>6 DEF Wipe

(***************************************************************************)
(* The container that is written, and the one that is damaged.             *)
(***************************************************************************)

\* What was written is sealed, and opens.
LEMMA SealedOpens ==
  ASSUME Kept, NEW i \in DOMAIN stored
  PROVE  LET c == stored[i] IN
         /\ c.blob = Sealed(c.secret, c.password, c.wrap, i - 1)
         /\ WireDecryptSeed(<<c.blob, Compose(c.password, c.wrap)>>).of = Ok(c.secret)
<1> DEFINE secret == stored[i].secret
           password == stored[i].password
           w == stored[i].wrap
           b == stored[i].blob
           enc == WireEncryptSeed(<<secret, Compose(password, w)>>, i - 1)
<1>1. /\ b \in Containers /\ secret \in Nat /\ password \in Passwords /\ w \in Nat
      /\ i - 1 \in Nat
  BY StoredTyped DEF Kept
<1>2. enc = Ok(b)
  BY DEF Kept, WrittenAsSealed
<1>3. enc.err = "None" /\ enc.ok = b
  <2> HIDE DEF enc
  <2> QED
    BY <1>2 DEF Ok
<1>4. b = Sealed(secret, password, w, i - 1) /\ DeriveKeyCheck(DefaultParams) = "None"
  <2>1. /\ enc.err = "None" <=> DeriveKeyCheck(DefaultParams) = "None"
        /\ enc.err = "None" => enc = Ok(Sealed(secret, password, w, i - 1))
    BY EncryptSeals
  <2> HIDE DEF enc, b, secret, password, w
  <2>2. enc = Ok(Sealed(secret, password, w, i - 1))
    BY <1>3, <2>1
  <2>3. enc.ok = Sealed(secret, password, w, i - 1)
    BY <2>2 DEF Ok
  <2> QED
    BY <1>3, <2>1, <2>3
<1> HIDE DEF enc, b, secret, password, w
<1>5. /\ b.hex /\ b.size = 3
      /\ b.header = BuildHeader(DefaultParams, i - 1)
      /\ b.ciphertext = [key |-> Key(Compose(password, w), i - 1, DefaultParams),
                         aad |-> BuildHeader(DefaultParams, i - 1), msg |-> secret]
  BY <1>4 DEF Sealed
<1>6. /\ b.header.magic = "CFS1" /\ b.header.version = 1 /\ b.header.kdf = 1
      /\ b.header.salt_len = 16 /\ b.header.salt = i - 1 /\ b.header.params = DefaultParams
      /\ b.ciphertext.msg = secret
  BY <1>5 DEF BuildHeader
<1>7. b.ciphertext = [key |-> Key(Compose(password, w), b.header.salt, b.header.params),
                      aad |-> b.header, msg |-> b.ciphertext.msg]
  BY <1>5, <1>6
<1>8. WireDecryptSeed(<<b, Compose(password, w)>>).of = Ok(secret)
  BY <1>1, <1>4, <1>5, <1>6, <1>7, DefaultWithin, DecryptOutcome
<1> QED
  BY <1>4, <1>8 DEF b, secret, password, w

\* Encryption.
LEMMA EncryptKeeps ==
  ASSUME Kept, NEW s \in Screens, Encrypt(s)
  PROVE  /\ Kept' /\ Unlocked
         /\ \A i \in DOMAIN stored : i \in DOMAIN stored' /\ stored'[i] = stored[i]
<1> DEFINE n == Len(stored)
           w == screen[s].wrap
           Rec == [blob : Containers, secret : Nat, password : Passwords, wrap : Nat]
<1>1. PICK password \in Passwords :
        LET enc == WireEncryptSeed(<<n, Compose(password, w)>>, n) IN
        /\ enc.err = "None"
        /\ stored' = Append(stored, [blob |-> enc.ok, secret |-> n, password |-> password, wrap |-> w])
        /\ Step(s, "write blob", [screen[s] EXCEPT !.blob = enc.ok])
  BY DEF Encrypt
<1> DEFINE enc == WireEncryptSeed(<<n, Compose(password, w)>>, n)
           b == Sealed(n, password, w, n)
           rec == [blob |-> b, secret |-> n, password |-> password, wrap |-> w]
           new == [screen[s] EXCEPT !.blob = b, !.at = "write blob"]
<1>2. enc = Ok(b) /\ enc.ok = b
  <2>1. enc = Ok(b)
    BY <1>1, EncryptSeals
  <2> HIDE DEF enc, b
  <2> QED
    BY <2>1 DEF Ok
<1>3. /\ screen[s] \in Instances /\ screen[s].at = "encrypt" /\ w \in Nat
      /\ ~overlapped => wrap = w
      /\ n \in Nat /\ DOMAIN stored = 1 .. n
  BY ScreenHolds, StoredTyped DEF Encrypt, Kept
<1>4. b \in Containers /\ rec \in Rec
  BY <1>3, SealedShape
<1>5. UNCHANGED <<blob, wrap, damaged, overlapped>>
  BY DEF Encrypt
<1>6. stored' = Append(stored, rec)
  BY <1>1, <1>2
<1> HIDE DEF b, rec
<1>7. screen' = [screen EXCEPT ![s] = new]
  <2>1. Step(s, "write blob", [screen[s] EXCEPT !.blob = b])
    BY <1>1, <1>2
  <2>2. [[screen[s] EXCEPT !.blob = b] EXCEPT !.at = "write blob"] = new
    BY <1>3 DEF Instances
  <2> QED
    BY <2>1, <2>2 DEF Step
<1>8. /\ stored' \in Seq(Rec) /\ DOMAIN stored' = 1 .. n + 1
      /\ stored'[n + 1] = rec /\ \A i \in DOMAIN stored : stored'[i] = stored[i]
  <2>1. stored \in Seq(Rec)
    BY DEF Kept, TypeOK
  <2> HIDE DEF Rec, n
  <2>2. /\ Append(stored, rec) \in Seq(Rec) /\ Len(Append(stored, rec)) = Len(stored) + 1
        /\ Append(stored, rec)[Len(stored) + 1] = rec
        /\ \A i \in 1 .. Len(stored) : Append(stored, rec)[i] = stored[i]
    BY <1>4, <2>1, AppendProperties
  <2>3. DOMAIN Append(stored, rec) = 1 .. Len(Append(stored, rec))
    BY <2>2, LenProperties
  <2> QED
    BY <1>3, <1>6, <2>2, <2>3 DEF n
<1>9. \A i \in DOMAIN stored : i \in DOMAIN stored' /\ stored'[i] = stored[i]
  BY <1>3, <1>8
<1>10. n + 1 \in DOMAIN stored'
  BY <1>3, <1>8
<1>11. Instances \subseteq Instances'
  <2>1. SUBSET DOMAIN stored \subseteq SUBSET DOMAIN stored'
    BY <1>9
  <2>2. Unlocks \subseteq Unlocks'
    BY <2>1 DEF Unlocks, Results
  <2> QED
    BY <2>2 DEF Instances
<1>12. /\ new \in Instances /\ new.blob = b /\ new.wrap = w /\ new.at = "write blob"
       /\ new.unlocked = screen[s].unlocked
  BY <1>3, <1>4 DEF Instances
<1> HIDE DEF new
<1>13. /\ screen' \in [Screens -> Instances'] /\ screen'[s] = new
       /\ \A t \in Screens \ {s} : screen'[t] = screen[t]
  <2>1. screen \in [Screens -> Instances]
    BY DEF Kept, TypeOK
  <2>2. screen' \in [Screens -> Instances]
    BY <1>7, <1>12, <2>1
  <2> QED
    BY <1>7, <1>11, <2>1, <2>2
<1>14. TypeOK'
  <2>1. (stored \in Seq([blob : Containers, secret : Nat, password : Passwords, wrap : Nat]))'
    BY <1>8 DEF Containers, Headers, Keys, Params
  <2> QED
    BY <1>5, <1>13, <2>1 DEF Kept, TypeOK
<1>15. WrittenAsSealed'
  <2>1. ASSUME NEW i \in DOMAIN stored'
        PROVE  WireEncryptSeed(<<stored'[i].secret, Compose(stored'[i].password, stored'[i].wrap)>>, i - 1)
                   = Ok(stored'[i].blob)
    <3>1. CASE i \in DOMAIN stored
      BY <1>9, <3>1 DEF Kept, WrittenAsSealed
    <3>2. CASE i \notin DOMAIN stored
      <4>1. i = n + 1 /\ i - 1 = n
        BY <1>3, <1>8, <3>2
      <4>2. /\ stored'[i].secret = n /\ stored'[i].password = password /\ stored'[i].wrap = w
            /\ stored'[i].blob = b
        BY <1>8, <4>1 DEF rec
      <4> HIDE DEF n, w
      <4> QED
        BY <1>2, <4>1, <4>2
    <3> QED
      BY <3>1, <3>2
  <2> QED
    BY <2>1 DEF WrittenAsSealed, WireEncryptSeed
<1>16. /\ \A c : Genuine(c) => \E i \in DOMAIN stored' : stored'[i].blob = c
       /\ \A c, v : Written(c, v) => \E i \in DOMAIN stored' : stored'[i].blob = c /\ stored'[i].wrap = v
       /\ \E i \in DOMAIN stored' : stored'[i].blob = b /\ stored'[i].wrap = w
  <2>1. stored'[n + 1].blob = b /\ stored'[n + 1].wrap = w
    BY <1>8 DEF rec
  <2> QED
    BY <1>9, <1>10, <2>1 DEF Genuine, Written
<1>17. ContainersHeld'
  <2>1. Held(blob)' /\ (~damaged' => blob' = None \/ Genuine(blob)')
    BY <1>5, <1>16 DEF Kept, ContainersHeld, Held, Genuine
  <2>2. ASSUME NEW t \in Screens
        PROVE  /\ Held(screen[t].blob)'
               /\ screen'[t].at \in {"write wrap", "encrypt", "write blob"} => screen'[t].wrap \in Nat
               /\ screen'[t].at = "write blob" => Written(screen[t].blob, screen[t].wrap)'
    <3>1. CASE t = s
      BY <1>3, <1>12, <1>13, <1>16, <3>1 DEF Held, Genuine, Written
    <3>2. CASE t # s
      <4>1. screen'[t] = screen[t]
        BY <1>13, <3>2
      <4>2. Held(screen[t].blob)'
        <5>1. Held(screen[t].blob)
          BY ScreenHolds
        <5> QED
          BY <1>16, <4>1, <5>1 DEF Held, Genuine
      <4>3. screen'[t].at \in {"write wrap", "encrypt", "write blob"} => screen'[t].wrap \in Nat
        BY <4>1, ScreenHolds
      <4>4. ASSUME screen'[t].at = "write blob" PROVE Written(screen[t].blob, screen[t].wrap)'
        <5>1. PICK i \in DOMAIN stored : stored[i].blob = screen[t].blob /\ stored[i].wrap = screen[t].wrap
          BY <4>1, <4>4, ScreenHolds DEF Written
        <5> QED
          BY <1>9, <4>1, <5>1 DEF Written
      <4> QED
        BY <4>2, <4>3, <4>4
    <3> QED
      BY <3>1, <3>2
  <2> QED
    BY <2>1, <2>2 DEF ContainersHeld
<1>18. OneAtATime'
  <2> SUFFICES ASSUME ~overlapped PROVE OneAtATime'
    BY <1>5 DEF OneAtATime
  <2>1. ASSUME NEW t \in Screens \ {s} PROVE screen'[t].at = "idle"
    BY <1>3, <1>13, OthersIdle
  <2>2. ASSUME NEW t \in Screens
        PROVE  /\ screen'[t].at = "write wrap" => wrap' = None
               /\ screen'[t].at \in {"encrypt", "write blob"} => wrap' = screen'[t].wrap
               /\ screen'[t].at = "delete wrap" => blob' = None
    <3>1. CASE t = s
      BY <1>3, <1>5, <1>12, <1>13, <3>1
    <3>2. CASE t # s
      <4>1. screen'[t].at = "idle"
        BY <2>1, <3>2
      <4> QED
        BY ONLY <4>1
    <3> QED
      BY <3>1, <3>2
  <2>3. ASSUME blob' # None, ~damaged' PROVE Written(blob, wrap)'
    <3>1. PICK i \in DOMAIN stored : stored[i].blob = blob /\ stored[i].wrap = wrap
      BY <1>5, <2>3 DEF Kept, OneAtATime, Written
    <3> QED
      BY <1>5, <1>9, <3>1 DEF Written
  <2> QED
    BY <2>1, <2>2, <2>3 DEF OneAtATime
<1>19. Unlocked
  BY <1>12, <1>13, UnlockedStays
<1> QED
  BY <1>9, <1>14, <1>15, <1>17, <1>18, <1>19 DEF Kept

\* The app is killed.
LEMMA CrashKeeps ==
  ASSUME Kept, Crash PROVE Kept' /\ Unlocked
<1>1. \A s \in Screens : screen'[s] = Closed
  BY DEF Crash
<1>2. /\ Closed \in Instances /\ Closed.at = "idle" /\ Closed.blob = None
      /\ Closed.unlocked = None
  BY ClosedShape DEF Doing, Closed
<1>3. UNCHANGED <<blob, wrap, stored, damaged, overlapped>> /\ Instances' = Instances
  BY DEF Crash, Instances, Unlocks
<1>4. screen' \in [Screens -> Instances']
  BY <1>2, <1>3 DEF Crash
<1>5. TypeOK' /\ WrittenAsSealed'
  BY <1>3, <1>4 DEF Kept, TypeOK, WrittenAsSealed, WireEncryptSeed
<1>6. ContainersHeld'
  BY <1>1, <1>2, <1>3 DEF Kept, ContainersHeld, Held, Genuine, Written
<1>7. OneAtATime'
  BY <1>1, <1>2, <1>3 DEF Kept, OneAtATime, Written
<1>8. Unlocked
  BY <1>1, <1>2 DEF Unlocked
<1> QED
  BY <1>5, <1>6, <1>7, <1>8 DEF Kept

\* The container that something else changed is one that nothing opens,
\* unless it is still the one that was written.
LEMMA DamageBreaks ==
  ASSUME Kept, Damage
  PROVE  blob' \in Containers /\ (blob' = blob \/ Broken(blob'))
<1>1. blob \in Containers /\ Genuine(blob)
  BY DEF Kept, TypeOK, ContainersHeld, Damage
<1>2. blob.ciphertext.aad = blob.header
  <2>1. PICK i \in DOMAIN stored : stored[i].blob = blob
    BY <1>1 DEF Genuine
  <2>2. blob = Sealed(stored[i].secret, stored[i].password, stored[i].wrap, i - 1)
    BY <2>1, SealedOpens
  <2> QED
    BY <2>2 DEF Sealed
<1>3. /\ blob.header \in Headers /\ blob.header.params \in Params
      /\ blob.ciphertext \in [key : Keys \cup {None}, aad : Headers, msg : Nat]
      /\ None \notin Keys
  BY <1>1 DEF Containers, Headers, Keys, Params
<1>4. ASSUME NEW h \in Headers
      PROVE  LET c == [blob EXCEPT !.header = h] IN c \in Containers /\ (c = blob \/ Broken(c))
  <2> DEFINE c == [blob EXCEPT !.header = h]
  <2>1. c \in Containers /\ c.header = h /\ c.ciphertext = blob.ciphertext
    BY <1>1 DEF Containers
  <2>2. h = blob.header => c = blob
    BY <1>1 DEF Containers
  <2> HIDE DEF c
  <2>3. h # blob.header => Broken(c)
    BY <1>2, <2>1 DEF Broken
  <2> QED
    BY <2>1, <2>2, <2>3 DEF c
<1>5. ASSUME NEW q \in Params
      PROVE  [blob.header EXCEPT !.params = q] \in Headers
  BY <1>3 DEF Headers
<1>6. CASE blob' = [blob EXCEPT !.hex = FALSE]
  BY <1>1, <1>6 DEF Containers, Broken
<1>7. CASE \E n \in 0 .. 2 : blob' = [blob EXCEPT !.size = n]
  <2>1. PICK n \in 0 .. 2 : blob' = [blob EXCEPT !.size = n]
    BY <1>7
  <2>2. blob' \in Containers /\ blob'.size = n
    BY <1>1, <2>1 DEF Containers
  <2> QED
    BY <2>2 DEF Broken
<1>8. CASE blob' = [blob EXCEPT !.ciphertext.key = None]
  <2> DEFINE t == [blob.ciphertext EXCEPT !.key = None]
  <2>1. t \in [key : Keys \cup {None}, aad : Headers, msg : Nat] /\ t.key = None
    BY <1>3
  <2>2. blob' = [blob EXCEPT !.ciphertext = t]
    BY <1>1, <1>8 DEF Containers
  <2> HIDE DEF t
  <2>3. blob' \in Containers /\ blob'.ciphertext = t
    BY <1>1, <2>1, <2>2 DEF Containers
  <2> QED
    BY <1>3, <2>1, <2>3 DEF Broken
<1>9. CASE \E h \in Headers : blob' = [blob EXCEPT !.header = h]
  BY <1>4, <1>9
<1>10. CASE blob' \in {[blob EXCEPT !.header.magic = "CFS2"], [blob EXCEPT !.header.version = 2],
                       [blob EXCEPT !.header.kdf = 2], [blob EXCEPT !.header.salt_len = 15],
                       [blob EXCEPT !.header.salt = @ + 1]}
  <2> DEFINE h1 == [blob.header EXCEPT !.magic = "CFS2"]
             h2 == [blob.header EXCEPT !.version = 2]
             h3 == [blob.header EXCEPT !.kdf = 2]
             h4 == [blob.header EXCEPT !.salt_len = 15]
             h5 == [blob.header EXCEPT !.salt = blob.header.salt + 1]
  <2>1. h1 \in Headers /\ h2 \in Headers /\ h3 \in Headers /\ h4 \in Headers /\ h5 \in Headers
    BY <1>3 DEF Headers
  <2>2. \/ blob' = [blob EXCEPT !.header = h1] \/ blob' = [blob EXCEPT !.header = h2]
        \/ blob' = [blob EXCEPT !.header = h3] \/ blob' = [blob EXCEPT !.header = h4]
        \/ blob' = [blob EXCEPT !.header = h5]
    BY <1>10
  <2> HIDE DEF h1, h2, h3, h4, h5
  <2> QED
    BY <1>9, <2>1, <2>2
<1>11. CASE \E n \in Nat : \/ blob' = [blob EXCEPT !.header.params.mem = n]
                           \/ blob' = [blob EXCEPT !.header.params.iters = n]
                           \/ blob' = [blob EXCEPT !.header.params.lanes = n]
  <2>1. PICK n \in Nat : \/ blob' = [blob EXCEPT !.header.params.mem = n]
                         \/ blob' = [blob EXCEPT !.header.params.iters = n]
                         \/ blob' = [blob EXCEPT !.header.params.lanes = n]
    BY <1>11
  <2> DEFINE p == blob.header.params
             p1 == [p EXCEPT !.mem = n]
             p2 == [p EXCEPT !.iters = n]
             p3 == [p EXCEPT !.lanes = n]
             h1 == [blob.header EXCEPT !.params = p1]
             h2 == [blob.header EXCEPT !.params = p2]
             h3 == [blob.header EXCEPT !.params = p3]
  <2>2. p1 \in Params /\ p2 \in Params /\ p3 \in Params
    BY <1>3 DEF Params
  <2>3. h1 \in Headers /\ h2 \in Headers /\ h3 \in Headers
    <3> HIDE DEF p1, p2, p3
    <3> QED
      BY <1>5, <2>2
  <2>4. \/ blob' = [blob EXCEPT !.header = h1] \/ blob' = [blob EXCEPT !.header = h2]
        \/ blob' = [blob EXCEPT !.header = h3]
    BY <2>1
  <2> HIDE DEF h1, h2, h3
  <2> QED
    BY <1>9, <2>3, <2>4
<1>12. /\ 0 \in Nat /\ MinMem \in Nat /\ MaxMem + 1 \in Nat /\ MaxIters + 1 \in Nat
       /\ MaxLanes \in Nat /\ MaxLanes + 1 \in Nat
  OBVIOUS
<1> QED
  BY <1>6, <1>7, <1>8, <1>10, <1>11, <1>12 DEF Damage

LEMMA DamageKeeps ==
  ASSUME Kept, Damage PROVE Kept' /\ Unlocked
<1>1. /\ blob' \in Containers /\ (blob' = blob \/ Broken(blob'))
      /\ damaged' = TRUE /\ UNCHANGED <<wrap, screen, stored, overlapped>>
  BY DamageBreaks DEF Damage
<1>2. Instances' = Instances
  BY <1>1 DEF Instances, Unlocks
<1>3. TypeOK' /\ WrittenAsSealed'
  BY <1>1, <1>2 DEF Kept, TypeOK, WrittenAsSealed, WireEncryptSeed
<1>4. Held(blob)'
  BY <1>1 DEF Kept, ContainersHeld, Held, Genuine, Broken
<1>5. ContainersHeld'
  BY <1>1, <1>4 DEF Kept, ContainersHeld, Held, Genuine, Broken, Written
<1>6. OneAtATime'
  <2>1. \A s \in Screens : screen[s].at = "idle"
    BY ClosedShape DEF Damage, Doing
  <2> QED
    BY <1>1, <2>1 DEF OneAtATime
<1>7. Unlocked
  BY <1>1 DEF Unlocked
<1> QED
  BY <1>3, <1>5, <1>6, <1>7 DEF Kept

(***************************************************************************)
(* What an unlock shows.                                                   *)
(***************************************************************************)

Faithful(u) ==
    /\ u.result.of.err = "None" <=> u.meant # {}
    /\ \A i \in u.meant : u.result.of = Ok(stored[i].secret)
    /\ u.result.cost # None => Within(u.result.cost)

LEMMA FaithfulUnlocks ==
  UnlockFailsClosed <=>
    \A s \in Screens : screen[s].unlocked # None => Faithful(screen[s].unlocked)
  BY DEF UnlockFailsClosed, Faithful, Within

\* What was shown stays true: no container that was written changes.
LEMMA ShownStays ==
  ASSUME Kept, UnlockFailsClosed, Unlocked,
         \A i \in DOMAIN stored : i \in DOMAIN stored' /\ stored'[i] = stored[i]
  PROVE  UnlockFailsClosed'
<1>1. \A s \in Screens : screen[s].unlocked # None =>
         screen[s].unlocked.meant \subseteq DOMAIN stored /\ Faithful(screen[s].unlocked)
  <2>1. \A s \in Screens : screen[s].unlocked \in Unlocks \cup {None}
    BY DEF Kept, TypeOK, Instances
  <2> QED
    BY <2>1, FaithfulUnlocks DEF Unlocks
<1>2. ASSUME NEW s \in Screens, screen'[s].unlocked # None PROVE Faithful(screen[s].unlocked)'
  <2>1. screen'[s].unlocked = screen[s].unlocked /\ screen[s].unlocked # None
    BY <1>2 DEF Unlocked
  <2> DEFINE u == screen[s].unlocked
  <2>2. u.meant \subseteq DOMAIN stored /\ Faithful(u) /\ screen'[s].unlocked = u
    BY <1>1, <2>1
  <2> HIDE DEF u
  <2>3. \A i \in u.meant : stored'[i] = stored[i]
    BY <2>2
  <2> QED
    BY <2>2, <2>3 DEF Faithful, Within
<1> QED
  BY <1>2 DEF UnlockFailsClosed, Faithful, Within

\* Decryption tells the containers that were written from all others.
LEMMA UnlockIsFaithful ==
  ASSUME Kept, NEW b \in Containers, b # None, Held(b), wrap \in Nat, NEW password \in Passwords
  PROVE  LET u == [result |-> WireDecryptSeed(<<b, Compose(password, wrap)>>),
                   meant |-> Matching(b, password)]
         IN u \in Unlocks /\ Faithful(u)
<1> DEFINE r == WireDecryptSeed(<<b, Compose(password, wrap)>>)
           meant == Matching(b, password)
           p == b.header.params
<1>1. /\ r \in Results
      /\ r.cost # None => Within(r.cost)
      /\ r.of.err = "None" =>
           /\ b.hex /\ b.size = 3
           /\ b.ciphertext = [key |-> Key(Compose(password, wrap), b.header.salt, p),
                              aad |-> b.header, msg |-> b.ciphertext.msg]
  BY DecryptOutcome
<1>2. b.header.salt \in Nat /\ p \in Params
  BY DEF Containers, Headers
<1>3. \A i \in meant : r.of = Ok(stored[i].secret)
  <2>1. ASSUME NEW i \in meant PROVE r.of = Ok(stored[i].secret)
    <3>1. /\ i \in DOMAIN stored /\ stored[i].blob = b /\ stored[i].password = password
          /\ stored[i].wrap = wrap
      BY DEF Matching
    <3> QED
      BY <3>1, SealedOpens
  <2> QED
    BY <2>1
<1>4. ASSUME meant # {} PROVE r.of.err = "None"
  <2>1. \E v : r.of = Ok(v)
    BY <1>3, <1>4
  <2> HIDE DEF r
  <2> QED
    BY <2>1 DEF Ok
<1>5. ASSUME r.of.err = "None" PROVE meant # {}
  <2> DEFINE k == Key(Compose(password, wrap), b.header.salt, p)
  <2>1. k \in Keys
    BY <1>2 DEF Key, Keys, Compose
  <2>2. b.hex /\ b.size = 3 /\ b.ciphertext.key = k /\ b.ciphertext.aad = b.header
    BY <1>1, <1>5
  <2> HIDE DEF k
  <2>3. Genuine(b)
    BY <2>1, <2>2 DEF Held, Broken
  <2>4. PICK i \in DOMAIN stored : stored[i].blob = b
    BY <2>3 DEF Genuine
  <2> DEFINE pw == stored[i].password
             w == stored[i].wrap
  <2>5. b = Sealed(stored[i].secret, pw, w, i - 1)
    BY <2>4, SealedOpens
  <2> HIDE DEF pw, w
  <2>6. b.ciphertext.key = Key(Compose(pw, w), i - 1, DefaultParams)
    BY <2>5 DEF Sealed
  <2>7. Compose(pw, w) = Compose(password, wrap)
    BY <2>2, <2>6 DEF Key, k
  <2>8. pw = password /\ w = wrap
    BY <2>7 DEF Compose
  <2> QED
    BY <2>4, <2>8 DEF Matching, pw, w
<1>6. meant \in SUBSET (DOMAIN stored)
  BY DEF Matching
<1> HIDE DEF r, meant
<1>7. [result |-> r, meant |-> meant] \in Unlocks
  BY <1>1, <1>6 DEF Unlocks
<1>8. Faithful([result |-> r, meant |-> meant])
  BY <1>1, <1>3, <1>4, <1>5 DEF Faithful
<1> QED
  BY <1>7, <1>8 DEF r, meant

LEMMA UnlockKeeps ==
  ASSUME Kept, NEW s \in Screens, Unlock(s)
  PROVE  Kept' /\ (UnlockFailsClosed => UnlockFailsClosed')
<1> DEFINE b == screen[s].blob
<1>1. /\ screen[s] \in Instances /\ Held(b) /\ screen[s].at # "idle"
      /\ wrap \in Nat \cup {None} /\ b \in Containers \cup {None}
  BY ScreenHolds DEF Unlock, Kept, TypeOK, Instances
<1>2. UNCHANGED <<blob, wrap, stored, damaged, overlapped>>
  BY DEF Unlock
<1>3. PICK local \in Instances :
        Done(s, local) /\ (local.unlocked # None => local.unlocked = screen[s].unlocked \/ Faithful(local.unlocked))
  <2>1. CASE b = None \/ wrap = None
    BY <1>1, <2>1 DEF Unlock
  <2>2. CASE b # None /\ wrap # None
    <3>1. PICK password \in Passwords :
            Done(s, [screen[s] EXCEPT !.unlocked =
                        IF screen[s].mounted
                        THEN [result |-> WireDecryptSeed(<<b, Compose(password, wrap)>>),
                              meant |-> Matching(b, password)]
                        ELSE None])
      BY <2>2 DEF Unlock
    <3> DEFINE shown == [result |-> WireDecryptSeed(<<b, Compose(password, wrap)>>),
                         meant |-> Matching(b, password)]
               u == IF screen[s].mounted THEN shown ELSE None
               local == [screen[s] EXCEPT !.unlocked = u]
    <3>2. shown \in Unlocks /\ Faithful(shown)
      BY <1>1, <2>2, UnlockIsFaithful
    <3>3. Done(s, local)
      BY <3>1
    <3> HIDE DEF shown
    <3>4. u \in Unlocks \cup {None} /\ (u # None => Faithful(u))
      BY <3>2
    <3> HIDE DEF u
    <3>5. local \in Instances /\ local.unlocked = u
      BY <1>1, <3>4 DEF Instances
    <3> HIDE DEF local
    <3> QED
      BY <3>3, <3>4, <3>5
  <2> QED
    BY <2>1, <2>2
<1>4. /\ Kept'
      /\ \A t \in Screens \ {s} : screen'[t] = screen[t]
      /\ screen'[s].unlocked \in {None, local.unlocked}
  BY <1>1, <1>2, <1>3, DoneKeeps
<1>5. ASSUME UnlockFailsClosed PROVE UnlockFailsClosed'
  <2>1. \A t \in Screens : screen[t].unlocked # None => Faithful(screen[t].unlocked)
    BY <1>5, FaithfulUnlocks
  <2>2. ASSUME NEW t \in Screens, screen'[t].unlocked # None PROVE Faithful(screen'[t].unlocked)
    <3>1. CASE t = s
      BY <1>3, <1>4, <2>1, <2>2, <3>1
    <3>2. CASE t # s
      BY <1>4, <2>1, <2>2, <3>2
    <3> QED
      BY <3>1, <3>2
  <2>3. \A t \in Screens : screen'[t].unlocked # None => Faithful(screen[t].unlocked)'
    BY <1>2, <2>2 DEF Faithful
  <2> QED
    BY <2>3 DEF UnlockFailsClosed, Faithful, Within
<1> QED
  BY <1>4, <1>5

(***************************************************************************)
(* The theorems.                                                           *)
(***************************************************************************)

LEMMA InitKept == Init => Kept /\ UnlockFailsClosed
<1> SUFFICES ASSUME Init PROVE Kept /\ UnlockFailsClosed
  OBVIOUS
<1>1. \A s \in Screens : screen[s] = Closed
  BY DEF Init
<1>2. /\ Closed \in Instances /\ Closed.at = "idle" /\ Closed.blob = None
      /\ Closed.unlocked = None
  BY ClosedShape DEF Doing, Closed
<1>3. TypeOK
  <2>1. stored \in Seq([blob : Containers, secret : Nat, password : Passwords, wrap : Nat])
    BY DEF Init
  <2> QED
    BY <1>2, <2>1 DEF Init, TypeOK
<1>4. WrittenAsSealed
  BY DEF Init, WrittenAsSealed
<1>5. ContainersHeld
  BY <1>1, <1>2 DEF Init, ContainersHeld, Held
<1>6. OneAtATime
  BY <1>1, <1>2 DEF Init, OneAtATime
<1>7. UnlockFailsClosed
  BY <1>1, <1>2 DEF UnlockFailsClosed
<1> QED
  BY <1>3, <1>4, <1>5, <1>6, <1>7 DEF Kept

LEMMA StutterKeeps ==
  ASSUME Kept, UNCHANGED vars PROVE Kept' /\ Unlocked
  BY DEF vars, Kept, TypeOK, Instances, Unlocks, WrittenAsSealed, WireEncryptSeed,
         ContainersHeld, OneAtATime, Held, Genuine, Written, Unlocked

LEMMA StepKeeps ==
  ASSUME Kept, [Next]_vars PROVE Kept' /\ (UnlockFailsClosed => UnlockFailsClosed')
<1>1. ASSUME UNCHANGED stored, Unlocked PROVE UnlockFailsClosed => UnlockFailsClosed'
  BY <1>1, ShownStays
<1>2. CASE UNCHANGED vars
  BY <1>1, <1>2, StutterKeeps DEF vars
<1>3. CASE Crash
  BY <1>1, <1>3, CrashKeeps DEF Crash
<1>4. CASE Damage
  BY <1>1, <1>4, DamageKeeps DEF Damage
<1>5. ASSUME NEW s \in Screens,
             \/ Open(s) \/ Leave(s) \/ Look(s)
             \/ TapEncrypt(s) \/ ReadWrap(s) \/ WriteWrap(s) \/ Encrypt(s) \/ WriteBlob(s)
             \/ TapUnlock(s) \/ ReadBlob(s) \/ Unlock(s)
             \/ TapWipe(s) \/ Wipe(s) \/ Refresh(s) \/ StorageFails(s)
      PROVE  Kept' /\ (UnlockFailsClosed => UnlockFailsClosed')
  <2>1. CASE Open(s)
    BY <1>1, <2>1, OpenKeeps DEF Open
  <2>2. CASE Leave(s)
    BY <1>1, <2>2, LeaveKeeps DEF Leave
  <2>3. CASE Look(s)
    BY <1>1, <2>3, LookKeeps DEF Look
  <2>4. ASSUME NEW at \in {"wrap?", "blob?", "delete blob"}, Tap(s, at)
        PROVE  Kept' /\ (UnlockFailsClosed => UnlockFailsClosed')
    BY <1>1, <2>4, TapKeeps DEF Tap
  <2>5. CASE TapEncrypt(s)
    BY <2>4, <2>5 DEF TapEncrypt
  <2>6. CASE ReadWrap(s)
    BY <1>1, <2>6, ReadWrapKeeps DEF ReadWrap
  <2>7. CASE WriteWrap(s)
    BY <1>1, <2>7, WriteWrapKeeps DEF WriteWrap
  <2>8. CASE Encrypt(s)
    BY <2>8, EncryptKeeps, ShownStays
  <2>9. CASE WriteBlob(s)
    BY <1>1, <2>9, WriteBlobKeeps DEF WriteBlob
  <2>10. CASE TapUnlock(s)
    BY <2>4, <2>10 DEF TapUnlock
  <2>11. CASE ReadBlob(s)
    BY <1>1, <2>11, ReadBlobKeeps DEF ReadBlob
  <2>12. CASE Unlock(s)
    BY <2>12, UnlockKeeps
  <2>13. CASE TapWipe(s)
    BY <2>4, <2>13 DEF TapWipe
  <2>14. CASE Wipe(s)
    BY <1>1, <2>14, WipeKeeps DEF Wipe
  <2>15. CASE Refresh(s)
    BY <1>1, <2>15, RefreshKeeps DEF Refresh
  <2>16. CASE StorageFails(s)
    BY <1>1, <2>16, StorageFailsKeeps DEF StorageFails
  <2> QED
    BY <1>5, <2>1, <2>2, <2>3, <2>5, <2>6, <2>7, <2>8, <2>9, <2>10, <2>11, <2>12,
       <2>13, <2>14, <2>15, <2>16
<1> QED
  BY <1>2, <1>3, <1>4, <1>5 DEF Next

\* What the screens and the storage keep to is enough for recovery.
LEMMA KeptRecovers == Kept => Recoverable
<1> SUFFICES ASSUME Kept, blob # None, ~damaged, ~overlapped
             PROVE  \E i \in DOMAIN stored :
                      /\ stored[i].blob = blob
                      /\ WireDecryptSeed(<<blob, Compose(stored[i].password, wrap)>>).of = Ok(stored[i].secret)
  BY DEF Recoverable
<1>1. PICK i \in DOMAIN stored : stored[i].blob = blob /\ stored[i].wrap = wrap
  BY DEF Kept, OneAtATime, Written
<1> QED
  BY <1>1, SealedOpens

\* The inductive invariant: containers are as sealed, those in use are written
\* ones or broken ones, and, while no two operations overlap, the container in
\* the storage and the wrapping secret beside it belong together.
THEOREM Invariance == Spec => []Inv
<1>1. Init => Kept
  BY InitKept
<1>2. Kept /\ [Next]_vars => Kept'
  BY StepKeeps
<1>3. Kept => Inv
  BY KeptRecovers DEF Inv
<1> QED
  BY <1>1, <1>2, <1>3, PTL DEF Spec

\* Every state of the vault is typed: the container in the storage, those held
\* by the screens and the results of the unlocks.
THEOREM TypeCorrect == Spec => []TypeOK
<1>1. Inv => TypeOK
  BY DEF Inv, Kept
<1> QED
  BY <1>1, Invariance, PTL

\* Wherever the work of the screen was cut off, a container that nothing else
\* changed opens to the phrase it was made of.
THEOREM WhatIsStoredOpens == Spec => []Recoverable
<1>1. Inv => Recoverable
  BY DEF Inv
<1> QED
  BY <1>1, Invariance, PTL

\* An unlock shows a phrase exactly for the container, the password and the
\* wrapping secret it was written with, at a bounded cost.
THEOREM UnlocksFailClosed == Spec => []UnlockFailsClosed
<1>1. Init => Kept /\ UnlockFailsClosed
  BY InitKept
<1>2. Kept /\ UnlockFailsClosed /\ [Next]_vars => Kept' /\ UnlockFailsClosed'
  BY StepKeeps
<1> QED
  BY <1>1, <1>2, PTL DEF Spec
=============================================================================

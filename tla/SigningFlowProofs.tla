-------------------------- MODULE SigningFlowProofs --------------------------
(***************************************************************************)
(* Proofs about SigningFlow for any devices, accounts, paths, bodies and    *)
(* payloads, and any number of signatures.                                 *)
(***************************************************************************)
EXTENDS SigningFlow, FiniteSetTheorems, SequenceTheorems, WellFoundedInduction, TLAPS

(***************************************************************************)
(* Checks in order.                                                        *)
(***************************************************************************)

LEMMA FirstOfNone ==
  ASSUME NEW checks, \A i \in DOMAIN checks : checks[i] = "None"
  PROVE  First(checks) = "None"
  BY DEF First

\* The error of the first check that fails.
LEMMA FirstAt ==
  ASSUME NEW checks, DOMAIN checks \subseteq Nat, NEW n \in DOMAIN checks, checks[n] # "None",
         \A i \in DOMAIN checks : i < n => checks[i] = "None"
  PROVE  First(checks) = checks[n]
<1> DEFINE bad == {i \in DOMAIN checks : checks[i] # "None"}
           least == CHOOSE i \in bad : \A j \in bad : i <= j
<1>1. n \in bad /\ bad \subseteq Nat
  OBVIOUS
<1>2. \A j \in bad : n <= j
  OBVIOUS
<1>3. First(checks) = IF bad = {} THEN "None" ELSE checks[least]
  BY DEF First
<1> HIDE DEF bad
<1>4. least \in bad /\ least <= n
  BY <1>1, <1>2
<1>5. least = n
  <2> HIDE DEF least
  <2> QED
    BY <1>1, <1>2, <1>4
<1> HIDE DEF least
<1> QED
  BY <1>1, <1>3, <1>5

LEMMA FirstOf2 ==
  ASSUME NEW a, NEW b
  PROVE  First(<<a, b>>) = IF a # "None" THEN a ELSE b
<1> DEFINE cs == <<a, b>>
<1>1. DOMAIN cs = {1, 2} /\ cs[1] = a /\ cs[2] = b
  OBVIOUS
<1> HIDE DEF cs
<1>2. CASE a # "None"
  <2>1. \A i \in DOMAIN cs : i < 1 => cs[i] = "None"
    BY <1>1
  <2> QED
    BY <1>1, <1>2, <2>1, FirstAt DEF cs
<1>3. CASE a = "None" /\ b # "None"
  <2>1. \A i \in DOMAIN cs : i < 2 => cs[i] = "None"
    BY <1>1, <1>3
  <2> QED
    BY <1>1, <1>3, <2>1, FirstAt DEF cs
<1>4. CASE a = "None" /\ b = "None"
  BY <1>1, <1>4, FirstOfNone DEF cs
<1> QED
  BY <1>2, <1>3, <1>4

\* A list of checks fails with the first of them, or as the others do.
LEMMA FirstOfLast4 ==
  ASSUME NEW a, NEW b, NEW c, NEW d
  PROVE  First(<<a, b, c, d>>) =
           IF a # "None" THEN a ELSE IF b # "None" THEN b ELSE IF c # "None" THEN c ELSE d
<1> DEFINE cs == <<a, b, c, d>>
<1>1. DOMAIN cs = {1, 2, 3, 4} /\ cs[1] = a /\ cs[2] = b /\ cs[3] = c /\ cs[4] = d
  OBVIOUS
<1>2. First(cs) = First(<<a, b, c, d>>)
  OBVIOUS
<1> HIDE DEF cs
<1>3. ASSUME NEW n \in {1, 2, 3, 4}, cs[n] # "None", \A i \in {1, 2, 3, 4} : i < n => cs[i] = "None"
      PROVE  First(cs) = cs[n]
  BY <1>1, <1>3, FirstAt
<1>4. CASE a # "None"
  BY <1>1, <1>3, <1>4, <1>2
<1>5. CASE a = "None" /\ b # "None"
  BY <1>1, <1>3, <1>5, <1>2
<1>6. CASE a = "None" /\ b = "None" /\ c # "None"
  BY <1>1, <1>3, <1>6, <1>2
<1>7. CASE a = "None" /\ b = "None" /\ c = "None" /\ d # "None"
  BY <1>1, <1>3, <1>7, <1>2
<1>8. CASE a = "None" /\ b = "None" /\ c = "None" /\ d = "None"
  BY <1>1, <1>8, FirstOfNone, <1>2
<1> QED
  BY <1>4, <1>5, <1>6, <1>7, <1>8

(***************************************************************************)
(* Keys and addresses: what the derivations come to.                       *)
(***************************************************************************)

Pay(words) == Key(<<words, "">>, 0, 0)
Stake(words) == Key(<<words, "">>, 0, 2)
BaseOf(words) == Bech32("address", BaseAddress(0, Pay(words), Stake(words)))
RewardOf(words) == Bech32("address", RewardAddress(0, Stake(words)))
Secret(key) == Bech32("xprv", key)

LEMMA SeededKeys ==
  ASSUME NEW words
  PROVE  /\ Seeded(words).err = "None"
         /\ Seeded(words).ok.account_key = Secret(AccountKey(<<words, "">>, Harden(0)))
         /\ Seeded(words).ok.payment_key = Bech32("xpub", Pay(words))
         /\ Seeded(words).ok.payment_signing_key = Secret(Pay(words))
         /\ Seeded(words).ok.stake_signing_key = Secret(Stake(words))
         /\ Seeded(words).ok.payment_key_hash = Hex("key hash", Pay(words))
         /\ Seeded(words).ok.stake_key_hash = Hex("key hash", Stake(words))
  BY DEF Seeded, WireDeriveKeysFromMnemonic, DeriveKeysFromMnemonic, Unless, Check, Ok, Secret,
         Pay, Stake, Key

LEMMA HashDecodes ==
  ASSUME NEW kind, NEW x, NEW err
  PROVE  Decoded(Hex(kind, x), kind, err) = "None"
<1>1. HexToBytes(Hex(kind, x)) = "None" /\ Check(~IsHex(Hex(kind, x), kind), err) = "None"
  BY DEF HexToBytes, Check, IsHex, Hex
<1> QED
  BY <1>1, FirstOf2 DEF Decoded

LEMMA BaseComputed ==
  ASSUME NEW p, NEW s
  PROVE  WireComputeBaseAddress(<<Hex("key hash", p), Hex("key hash", s), Net>>).ok
           = Bech32("address", BaseAddress(0, p, s))
<1>1. First(<<Decoded(Hex("key hash", p), "key hash", "CslError"),
              Decoded(Hex("key hash", s), "key hash", "CslError")>>) = "None"
  <2>1. /\ Decoded(Hex("key hash", p), "key hash", "CslError") = "None"
        /\ Decoded(Hex("key hash", s), "key hash", "CslError") = "None"
    BY HashDecodes
  <2>2. First(<<"None", "None">>) = "None"
    BY FirstOf2
  <2> QED
    BY <2>1, <2>2
<1> QED
  BY <1>1 DEF WireComputeBaseAddress, ComputeBaseAddress, Unless, Ok, Hex, Net

LEMMA SoftWalletIs ==
  /\ SoftWallet.keys = Seeded("soft").ok
  /\ SoftWallet.base = BaseOf("soft")
  /\ SoftWallet.reward = RewardOf("soft")
<1>1. SoftWallet.keys = Seeded("soft").ok
  BY DEF SoftWallet
<1>2. SoftWallet.base = BaseOf("soft")
  BY SeededKeys, BaseComputed DEF SoftWallet, BaseOf
<1>3. SoftWallet.reward = RewardOf("soft")
  <2>1. WireComputeStakeAddress(<<Hex("key hash", Stake("soft")), Net = 0>>).ok = RewardOf("soft")
    <3>1. Decoded(Hex("key hash", Stake("soft")), "key hash", "CslError") = "None"
      BY HashDecodes
    <3> QED
      BY <3>1 DEF WireComputeStakeAddress, ComputeStakeAddress, Unless, Ok, Hex, Net, RewardOf
  <2> QED
    BY <2>1, SeededKeys DEF SoftWallet
<1> QED
  BY <1>1, <1>2, <1>3

LEMMA FriendIs ==
  /\ Friend.payment_signing_key = Secret(Pay("friend"))
  /\ Friend.stake_signing_key = Secret(Stake("friend"))
  /\ Friend.account_key = Secret(AccountKey(<<"friend", "">>, Harden(0)))
  /\ FriendAddress = BaseOf("friend")
  BY SeededKeys, BaseComputed DEF Friend, FriendAddress, BaseOf

LEMMA RangeOf2 == ASSUME NEW a, NEW b PROVE Range(<<a, b>>) = {a, b}
<1> DEFINE s == <<a, b>>
<1>1. DOMAIN s = {1, 2} /\ s[1] = a /\ s[2] = b
  OBVIOUS
<1> HIDE DEF s
<1>2. Range(s) = {a, b}
  BY <1>1 DEF Range
<1> QED
  BY <1>2 DEF s

LEMMA FriendKeysAre ==
  /\ FriendKeys = <<Secret(Pay("friend")), Secret(Stake("friend"))>>
  /\ Range(FriendKeys) = {Secret(Pay("friend")), Secret(Stake("friend"))}
<1>1. FriendKeys = <<Secret(Pay("friend")), Secret(Stake("friend"))>>
  BY FriendIs DEF FriendKeys
<1> QED
  BY <1>1, RangeOf2

(***************************************************************************)
(* Witness sets: taken apart and put together, nothing is lost.  The list   *)
(* of the witnesses of a set is a recursive function on its subsets.        *)
(***************************************************************************)

AsText(w) == [vkey |-> Hex("public key", w.vkey), signature |-> Hex("signature", w.signature)]

Pick(s) == CHOOSE x \in s : TRUE

Body(g, s) == IF s = {} THEN <<>> ELSE Append(g[s \ {Pick(s)}], AsText(Pick(s)))

IsTable(T, g) == g = [s \in SUBSET T |-> Body(g, s)]

Table(T) == CHOOSE g : g = [s \in SUBSET T |-> Body(g, s)]

Listed(T) == Table(T)[T]

\* A set of subsets of a finite set has a smallest one.
LEMMA LeastSet ==
  ASSUME NEW S, IsFiniteSet(S), NEW Q \in SUBSET (SUBSET S), Q # {}
  PROVE  \E T \in Q : \A U \in Q : ~(U \subseteq T /\ U # T)
<1>1. IsWellFoundedOn(StrictSubsetOrdering(S), SUBSET S)
  BY FS_StrictSubsetOrderingWellFounded, FS_FiniteSubsetsOfFinite
<1>2. \E T \in Q : \A U \in Q : ~ (<<U, T>> \in StrictSubsetOrdering(S))
  BY <1>1, WFMin
<1> QED
  BY <1>2 DEF StrictSubsetOrdering

LEMMA PickIn == ASSUME NEW s, s # {} PROVE Pick(s) \in s
  BY DEF Pick

LEMMA ExtractIsListed ==
  ASSUME NEW set
  PROVE  WireExtractVkeyWitnesses(<<Hex("witnesses", set)>>).ok = Listed(set.vkeys)
<1>1. Decoded(Hex("witnesses", set), "witnesses", "InvalidCbor") = "None"
  BY HashDecodes
<1>2. FoldSet(LAMBDA w, list : Append(list, [vkey |-> Hex("public key", w.vkey),
                                             signature |-> Hex("signature", w.signature)]),
              <<>>, set.vkeys) = Listed(set.vkeys)
  BY Zenon DEF FoldSet, MapThenFoldSet, Listed, Table, Body, Pick, AsText
<1>3. Hex("witnesses", set).of = set
  BY DEF Hex
<1> QED
  BY <1>1, <1>2, <1>3 DEF WireExtractVkeyWitnesses, ExtractVkeyWitnesses, Unless, Ok
\* The functions of two nested sets agree on the smaller one.
LEMMA TablesAgree ==
  ASSUME NEW T, IsFiniteSet(T), NEW r, r \subseteq T,
         NEW g, IsTable(T, g), NEW h, IsTable(r, h)
  PROVE  g[r] = h[r]
<1> DEFINE Bad == {s \in SUBSET r : g[s] # h[s]}
<1>1. SUFFICES ASSUME Bad # {} PROVE FALSE
  OBVIOUS
<1>2. PICK s \in Bad : \A u \in Bad : ~(u \subseteq s /\ u # s)
  <2>1. Bad \in SUBSET (SUBSET T)
    OBVIOUS
  <2> HIDE DEF Bad
  <2> QED
    BY <1>1, <2>1, LeastSet
<1>3. g[s] = Body(g, s) /\ h[s] = Body(h, s)
  BY <1>2 DEF IsTable
<1>4. CASE s = {}
  BY <1>2, <1>3, <1>4 DEF Body
<1>5. CASE s # {}
  <2>1. s \ {Pick(s)} \notin Bad
    BY <1>2, <1>5, PickIn
  <2>2. g[s \ {Pick(s)}] = h[s \ {Pick(s)}]
    BY <1>2, <2>1
  <2> QED
    BY <1>2, <1>3, <2>2 DEF Body
<1> QED
  BY <1>4, <1>5

\* There is such a function: extend those of the strict subsets.
LEMMA TableExists ==
  ASSUME NEW S, IsFiniteSet(S)
  PROVE  \E g : IsTable(S, g)
<1> DEFINE Tab(T) == CHOOSE g : IsTable(T, g)
           Bad == {T \in SUBSET S : ~ \E g : IsTable(T, g)}
<1>1. SUFFICES ASSUME Bad # {} PROVE FALSE
  OBVIOUS
<1>2. PICK T \in Bad : \A u \in Bad : ~(u \subseteq T /\ u # T)
  <2>1. Bad \in SUBSET (SUBSET S)
    OBVIOUS
  <2> HIDE DEF Bad
  <2> QED
    BY <1>1, <2>1, LeastSet
<1>3. \A U \in SUBSET T : U # T => IsTable(U, Tab(U))
  BY <1>2
<1> DEFINE low == [s \in SUBSET T |-> Tab(s)[s]]
           h == [s \in SUBSET T |-> IF s = T THEN Body(low, T) ELSE Tab(s)[s]]
<1>4. ASSUME NEW s \in SUBSET T PROVE h[s] = Body(h, s)
  <2>1. CASE s = {}
    <3>1. CASE s = T
      BY <2>1, <3>1 DEF Body
    <3>2. CASE s # T
      <4>1. IsTable(s, Tab(s))
        BY <1>3, <3>2
      <4>2. Tab(s)[s] = Body(Tab(s), s)
        BY <4>1 DEF IsTable
      <4> QED
        BY <2>1, <3>2, <4>2 DEF Body
    <3> QED
      BY <3>1, <3>2
  <2>2. CASE s # {}
    <3> DEFINE r == s \ {Pick(s)}
    <3>1. r \in SUBSET T /\ r # T /\ r # s /\ r \subseteq s
      BY <2>2, PickIn
    <3>2. h[r] = Tab(r)[r] /\ low[r] = Tab(r)[r]
      BY <3>1
    <3>3. CASE s = T
      BY <2>2, <3>2, <3>3 DEF Body
    <3>4. CASE s # T
      <4>1. IsTable(s, Tab(s)) /\ IsTable(r, Tab(r))
        BY <1>3, <3>1, <3>4
      <4>2. Tab(s)[s] = Body(Tab(s), s)
        BY <4>1 DEF IsTable
      <4>3. Tab(s)[r] = Tab(r)[r]
        <5>1. IsFiniteSet(s) /\ r \subseteq s
          BY <1>2, <3>1, FS_Subset
        <5> HIDE DEF Tab, r, h, low
        <5> QED
          BY <4>1, <5>1, TablesAgree
      <4>4. h[s] = Tab(s)[s]
        BY <3>4
      <4> HIDE DEF h, Tab, low
      <4> QED
        BY <2>2, <3>2, <4>2, <4>3, <4>4 DEF Body
    <3> QED
      BY <3>3, <3>4
  <2> QED
    BY <2>1, <2>2
<1>5. h = [s \in SUBSET T |-> Body(h, s)]
  <2> DEFINE k == [s \in SUBSET T |-> Body(h, s)]
  <2>1. DOMAIN h = SUBSET T /\ DOMAIN k = SUBSET T
    OBVIOUS
  <2>2. \A s \in SUBSET T : h[s] = k[s]
    BY <1>4
  <2>3. h = [s \in SUBSET T |-> h[s]]
    OBVIOUS
  <2>4. [s \in SUBSET T |-> h[s]] = k
    <3> HIDE DEF h
    <3> QED
      BY <1>4
  <2> QED
    BY <2>3, <2>4
<1>6. IsTable(T, h)
  <2> HIDE DEF h
  <2> QED
    BY <1>5 DEF IsTable
<1> QED
  BY <1>2, <1>6


LEMMA RangeOfAppend ==
  ASSUME NEW X, NEW s \in Seq(X), NEW e \in X
  PROVE  Append(s, e) \in Seq(X) /\ Range(Append(s, e)) = Range(s) \cup {e}
<1>1. Append(s, e) \in Seq(X) /\ Append(s, e) = s \o <<e>>
  BY AppendProperties, AppendIsConcat
<1>2. <<e>> \in Seq(X) /\ Range(<<e>>) = {e}
  BY DEF Range
<1>3. Range(s \o <<e>>) = Range(s) \cup Range(<<e>>)
  BY <1>2, RangeConcatenation
<1> QED
  BY <1>1, <1>2, <1>3, Zenon

\* The list holds the witnesses of the set, each as a text, and no others.
LEMMA ListedHolds ==
  ASSUME NEW T, IsFiniteSet(T)
  PROVE  Listed(T) \in Seq({AsText(w) : w \in T}) /\ Range(Listed(T)) = {AsText(w) : w \in T}
<1> DEFINE X == {AsText(w) : w \in T}
           g == Table(T)
           Good(U) == g[U] \in Seq(X) /\ Range(g[U]) = {AsText(w) : w \in U}
           Bad == {U \in SUBSET T : ~Good(U)}
<1>1. IsTable(T, g)
  <2>1. \E f : IsTable(T, f)
    BY TableExists
  <2> QED
    BY <2>1 DEF Table, IsTable
<1>2. \A U \in SUBSET T : g[U] = Body(g, U)
  <2> HIDE DEF g
  <2> QED
    BY <1>1 DEF IsTable
<1> HIDE DEF g
<1>3. SUFFICES ASSUME Bad # {} PROVE FALSE
  BY DEF Listed, g
<1>4. PICK U \in Bad : \A u \in Bad : ~(u \subseteq U /\ u # U)
  <2>1. Bad \in SUBSET (SUBSET T)
    OBVIOUS
  <2> HIDE DEF Bad
  <2> QED
    BY <1>3, <2>1, LeastSet
<1>5. CASE U = {}
  <2>1. g[U] = <<>>
    BY <1>2, <1>4, <1>5 DEF Body
  <2>2. <<>> \in Seq(X) /\ Range(<<>>) = {}
    BY DEF Range
  <2> QED
    BY <1>4, <1>5, <2>1, <2>2
<1>6. CASE U # {}
  <2> DEFINE p == Pick(U)
             R == U \ {p}
  <2>1. p \in U /\ U \subseteq T
    BY <1>4, <1>6, PickIn
  <2>2. Good(R)
    <3>1. R \subseteq U /\ R # U /\ R \in SUBSET T
      BY <2>1
    <3> HIDE DEF Good, R
    <3> QED
      BY <1>4, <3>1
  <2>3. g[U] = Append(g[R], AsText(p))
    BY <1>2, <1>4, <1>6 DEF Body
  <2>4. AsText(p) \in X
    BY <2>1
  <2> HIDE DEF X, R
  <2>5. g[U] \in Seq(X) /\ Range(g[U]) = Range(g[R]) \cup {AsText(p)}
    <3>1. g[R] \in Seq(X)
      BY <2>2
    <3> QED
      BY <2>3, <2>4, <3>1, RangeOfAppend
  <2>6. {AsText(w) : w \in U} = {AsText(w) : w \in R} \cup {AsText(p)}
    BY <2>1 DEF R
  <2> QED
    BY <1>4, <2>2, <2>5, <2>6
<1> QED
  BY <1>5, <1>6

LEMMA UnlessNone ==
  ASSUME NEW e, NEW v, e = "None"
  PROVE  Unless(e, v).ok = v /\ Unless(e, v).err = "None"
  BY DEF Unless, Ok

LEMMA VkeysPut ==
  ASSUME NEW v
  PROVE  [EmptyWitnessSet EXCEPT !.vkeys = v] = [vkeys |-> v, scripts |-> {}]
  BY DEF EmptyWitnessSet

\* A sequence of texts of witnesses becomes the set of these witnesses.
LEMMA Assembles ==
  ASSUME NEW X, \A w \in X : w.vkey = Hex("public key", w.vkey.of)
                             /\ w.signature = Hex("signature", w.signature.of),
         NEW s \in Seq(X)
  PROVE  WireAssembleVkeyWitnessSet(<<s>>).ok =
           Hex("witnesses", [vkeys |-> {[vkey |-> w.vkey.of, signature |-> w.signature.of] : w \in Range(s)},
                             scripts |-> {}])
<1> DEFINE check(w) == First(<<Decoded(w.vkey, "public key", "CslError"),
                               Decoded(w.signature, "signature", "CslError")>>)
           checks == [i \in DOMAIN s |-> check(s[i])]
<1>1. \A w \in X : check(w) = "None"
  <2> TAKE w \in X
  <2>1. Decoded(w.vkey, "public key", "CslError") = "None"
    BY HashDecodes
  <2>2. Decoded(w.signature, "signature", "CslError") = "None"
    BY HashDecodes
  <2>3. First(<<"None", "None">>) = "None"
    BY FirstOf2
  <2> QED
    BY <2>1, <2>2, <2>3
<1>2. \A i \in DOMAIN s : s[i] \in X
  BY ElementOfSeq, LenProperties
<1> HIDE DEF check
<1>3. \A i \in DOMAIN checks : checks[i] = "None"
  BY <1>1, <1>2
<1>4. First(checks) = "None"
  BY <1>3, FirstOfNone
<1>5. WireAssembleVkeyWitnessSet(<<s>>) =
        Unless(First(checks),
               Hex("witnesses", [EmptyWitnessSet EXCEPT
                      !.vkeys = {[vkey |-> w.vkey.of, signature |-> w.signature.of] : w \in Range(s)}]))
  BY DEF WireAssembleVkeyWitnessSet, AssembleVkeyWitnessSet, check
<1> DEFINE v == {[vkey |-> w.vkey.of, signature |-> w.signature.of] : w \in Range(s)}
<1>6. [EmptyWitnessSet EXCEPT !.vkeys = v] = [vkeys |-> v, scripts |-> {}]
  BY VkeysPut
<1>7. WireAssembleVkeyWitnessSet(<<s>>).ok = Hex("witnesses", [EmptyWitnessSet EXCEPT !.vkeys = v])
  <2> DEFINE V == Hex("witnesses", [EmptyWitnessSet EXCEPT !.vkeys = v])
  <2>1. WireAssembleVkeyWitnessSet(<<s>>) = Unless(First(checks), V)
    BY <1>5
  <2> HIDE DEF checks, V
  <2>2. Unless(First(checks), V).ok = V
    BY <1>4, UnlessNone
  <2> QED
    BY <2>1, <2>2 DEF V
<1> QED
  BY <1>6, <1>7

Shaped(set) == \A w \in set : w = [vkey |-> w.vkey, signature |-> w.signature]

\* Merging witness sets keeps every key witness of both, and nothing else.
LEMMA Merged ==
  ASSUME NEW A, NEW B, IsFiniteSet(A.vkeys), IsFiniteSet(B.vkeys), Shaped(A.vkeys), Shaped(B.vkeys)
  PROVE  Merge(Hex("witnesses", A), Hex("witnesses", B))
           = Hex("witnesses", [vkeys |-> A.vkeys \cup B.vkeys, scripts |-> {}])
<1> DEFINE a == A.vkeys
           b == B.vkeys
           texts(T) == {AsText(w) : w \in T}
           X == texts(a \cup b)
           both == Listed(a) \o Listed(b)
<1>1. /\ WireExtractVkeyWitnesses(<<Hex("witnesses", A)>>).ok = Listed(a)
      /\ WireExtractVkeyWitnesses(<<Hex("witnesses", B)>>).ok = Listed(b)
  BY ExtractIsListed
<1>2. Listed(a) \in Seq(texts(a)) /\ Range(Listed(a)) = texts(a)
  BY ListedHolds
<1>3. Listed(b) \in Seq(texts(b)) /\ Range(Listed(b)) = texts(b)
  BY ListedHolds
<1>4. Listed(a) \in Seq(X) /\ Listed(b) \in Seq(X)
  <2>1. texts(a) \subseteq X /\ texts(b) \subseteq X
    OBVIOUS
  <2> HIDE DEF X, texts
  <2> QED
    BY <1>2, <1>3, <2>1, SeqMonotonic
<1>5. both \in Seq(X) /\ Range(both) = texts(a) \cup texts(b)
  <2> HIDE DEF X, texts
  <2>1. both \in Seq(X)
    BY <1>4, ConcatProperties
  <2>2. Range(both) = Range(Listed(a)) \cup Range(Listed(b))
    BY <1>4, RangeConcatenation
  <2> QED
    BY <1>2, <1>3, <2>1, <2>2
<1>6. \A w \in X : w.vkey = Hex("public key", w.vkey.of) /\ w.signature = Hex("signature", w.signature.of)
  <2>1. \A u : /\ AsText(u).vkey = Hex("public key", AsText(u).vkey.of)
              /\ AsText(u).signature = Hex("signature", AsText(u).signature.of)
    BY DEF AsText, Hex
  <2> QED
    BY <2>1
<1>7. WireAssembleVkeyWitnessSet(<<both>>).ok =
        Hex("witnesses", [vkeys |-> {[vkey |-> w.vkey.of, signature |-> w.signature.of] : w \in Range(both)},
                          scripts |-> {}])
  <2> HIDE DEF X, both
  <2> QED
    BY <1>5, <1>6, Assembles
<1>8. {[vkey |-> w.vkey.of, signature |-> w.signature.of] : w \in Range(both)} = a \cup b
  <2>1. \A w \in a \cup b : /\ AsText(w) \in texts(a) \cup texts(b)
                            /\ w = [vkey |-> AsText(w).vkey.of, signature |-> AsText(w).signature.of]
    BY DEF Shaped, AsText, Hex
  <2>2. \A x \in texts(a) \cup texts(b) : \E w \in a \cup b : x = AsText(w)
    OBVIOUS
  <2> HIDE DEF texts, a, b, both
  <2> QED
    BY <1>5, <2>1, <2>2
<1> QED
  BY <1>1, <1>7, <1>8 DEF Merge

(***************************************************************************)
(* The device: the public derivation of the adapter agrees with the private *)
(* one of the device, on every path that is asked for.                     *)
(***************************************************************************)

LEMMA PathsTyped ==
  ASSUME NEW p \in Paths
  PROVE  /\ p[1] \in Accounts /\ p[1] \in 0 .. Half - 1
         /\ p[2] \in 0 .. Half - 1 /\ p[3] \in 0 .. Half - 1
<1>1. PICK l \in PathLists : p \in Range(l)
  BY DEF Paths
<1> DEFINE Path == Accounts \X (0 .. Half - 1) \X (0 .. Half - 1)
<1>2. l \in Seq(Path)
  BY FlowAssumption
<1>3. p \in Path
  <2> HIDE DEF Path
  <2> QED
    BY <1>1, <1>2, RangeOfSeq
<1> QED
  BY <1>3, FlowAssumption

LEMMA HardenedAccount ==
  ASSUME NEW i \in 0 .. Half - 1
  PROVE  Harden(i) = i + Half /\ Harden(i) % Half = i
<1>1. Half \in Nat /\ i \in Nat /\ i < Half
  BY SigningAssumption
<1>2. Harden(i) = i + Half
  BY <1>1 DEF Harden
<1>3. (i + Half) % Half = i
  BY <1>1
<1> QED
  BY <1>2, <1>3

LEMMA XpubAgrees ==
  ASSUME NEW d, NEW a, NEW r \in 0 .. Half - 1, NEW i \in 0 .. Half - 1
  PROVE  WireXpubDerivePublicKey(<<Xpub(d, a), r, i>>).ok
           = Hex("public key", Derive(AccountKey(DeviceSeed(d), Harden(a)), r, i))
<1> DEFINE k == AccountKey(DeviceSeed(d), Harden(a))
           c1 == Decoded(Hex("xpub", k), "xpub", "InvalidKey")
           c2 == Check(r >= Half \/ i >= Half, "CslError")
           v == Hex("public key", Derive(k, r, i))
<1>1. c1 = "None"
  BY HashDecodes
<1>2. c2 = "None"
  BY SigningAssumption DEF Check
<1>3. First(<<c1, c2>>) = "None"
  BY <1>1, <1>2, FirstOf2
<1>4. WireXpubDerivePublicKey(<<Hex("xpub", k), r, i>>) = Unless(First(<<c1, c2>>), v)
  BY DEF WireXpubDerivePublicKey, XpubDerivePublicKey, Hex
<1> HIDE DEF c1, c2, v
<1>5. Unless(First(<<c1, c2>>), v).ok = v
  BY <1>3, UnlessNone
<1> QED
  BY <1>4, <1>5 DEF Xpub, v

LEMMA AccountAgrees ==
  ASSUME NEW d
  PROVE  WireXpubToAccount(<<Xpub(d, 0), Net>>).ok.base_address
           = Bech32("address", BaseAddress(0, Key(DeviceSeed(d), 0, 0), Key(DeviceSeed(d), 0, 2)))
<1> DEFINE k == AccountKey(DeviceSeed(d), Harden(0))
           c == Decoded(Hex("xpub", k), "xpub", "InvalidKey")
           v == [base_address |-> Bech32("address", BaseAddress(0, Derive(k, 0, 0), Derive(k, 2, 0))),
                 reward_address |-> Bech32("address", RewardAddress(0, Derive(k, 2, 0))),
                 payment_key_hash |-> Hex("key hash", Derive(k, 0, 0)),
                 stake_key_hash |-> Hex("key hash", Derive(k, 2, 0))]
<1>1. c = "None"
  BY HashDecodes
<1>2. WireXpubToAccount(<<Hex("xpub", k), Net>>) = Unless(c, v)
  BY DEF WireXpubToAccount, XpubToAccount, Hex, Net
<1>3. v.base_address = Bech32("address", BaseAddress(0, Derive(k, 0, 0), Derive(k, 2, 0)))
  OBVIOUS
<1> HIDE DEF c, v
<1>4. Unless(c, v).ok = v
  BY <1>1, UnlessNone
<1> QED
  BY <1>2, <1>3, <1>4 DEF Xpub, Key

(***************************************************************************)
(* The types.                                                              *)
(***************************************************************************)

Questions == {Asked(p) : p \in Paths}
Accountings(s) == {WireXpubToAccount(<<Xpub(d, 0), Net>>).ok : d \in s}

\* Steps that leave the adapter and its device alone, but for the connection.
LEMMA TypesGrow ==
  ASSUME TypeOK, seen \subseteq seen', seen' \subseteq Devices, UNCHANGED <<cache, call, hard, body>>,
         soft' \in {None, SoftWallet}, conn' \in seen' \cup {None}, body = None => conn' = None
  PROVE  TypeOK'
<1>1. ShownBody' = ShownBody
  BY DEF ShownBody
<1>2. Answers \subseteq Answers' /\ Rebuilt \subseteq Rebuilt'
  <2> DEFINE A(d, p) == DeviceSignature(d, Asked(p), ShownBody)
             R(d, e, p) == RebuiltOf(d, e, p)
  <2>1. /\ Answers = {A(d, p) : d \in seen, p \in Paths}
        /\ Rebuilt = {R(d, e, p) : d, e \in seen, p \in Paths}
    BY DEF Answers, Rebuilt
  <2>2. /\ Answers' = {A(d, p) : d \in seen', p \in Paths}
        /\ Rebuilt' = {R(d, e, p) : d, e \in seen', p \in Paths}
    BY <1>1 DEF Answers, Rebuilt, RebuiltOf
  <2> HIDE DEF A, R
  <2> QED
    BY <2>1, <2>2
<1>3. /\ Seq(Answers) \subseteq Seq(Answers') /\ Seq(Rebuilt) \subseteq Seq(Rebuilt')
  BY <1>2, SeqMonotonic
<1>4. /\ cache' \in [Accounts -> {NoText} \cup {Xpub(d, a) : d \in seen', a \in Accounts}]
      /\ \A a \in Accounts : cache'[a] \in {NoText} \cup {Xpub(d, a) : d \in seen'}
  BY DEF TypeOK
<1>5. hard' \in {None} \cup Accountings(seen')
  BY DEF TypeOK, Accountings
<1>6. body' \in {None} \cup {Hex("body", b) : b \in Bodies} /\ (body' = None => call' = Idle /\ conn' = None)
  BY DEF TypeOK
<1>7. /\ call'.at = "idle" => call' = Idle
      /\ call'.at \in {"opening", "reading", "signing"} => call'.conn \in seen'
      /\ call'.at = "opening" => call'.account = 0
      /\ call'.at = "signing" => call'.left \in Seq(Questions)
  BY DEF TypeOK, Questions
<1>8. /\ call'.at \in {"rebuilding", "reading"} => call'.left \in Seq(Answers')
  BY <1>3 DEF TypeOK
<1>9. call' \in [at : {"idle", "opening", "signing", "rebuilding", "reading"},
                 conn : seen' \cup {None}, account : Accounts,
                 left : Seq(Questions) \cup Seq(Answers'), done : Seq(Rebuilt')]
  <2>1. call \in [at : {"idle", "opening", "signing", "rebuilding", "reading"},
                  conn : seen \cup {None}, account : Accounts,
                  left : Seq(Questions) \cup Seq(Answers), done : Seq(Rebuilt)]
    BY DEF TypeOK, Questions
  <2> QED
    BY <1>3, <2>1
<1> QED
  BY <1>4, <1>5, <1>6, <1>7, <1>8, <1>9 DEF TypeOK, Questions, Accountings

\* Steps of the adapter: who is seen, and what is signed, stays.
LEMMA SetsStay ==
  ASSUME UNCHANGED <<seen, body>>
  PROVE  ShownBody' = ShownBody /\ Answers' = Answers /\ Rebuilt' = Rebuilt
<1>1. ShownBody' = ShownBody
  BY DEF ShownBody
<1> QED
  BY <1>1 DEF Answers, Rebuilt, RebuiltOf

CallTyped(c) ==
  /\ c \in [at : {"idle", "opening", "signing", "rebuilding", "reading"},
            conn : seen \cup {None}, account : Accounts,
            left : Seq(Questions) \cup Seq(Answers), done : Seq(Rebuilt)]
  /\ c.at = "idle" => c = Idle
  /\ c.at \in {"opening", "reading", "signing"} => c.conn \in seen
  /\ c.at = "opening" => c.account = 0
  /\ c.at = "signing" => c.left \in Seq(Questions)
  /\ c.at \in {"rebuilding", "reading"} => c.left \in Seq(Answers)

LEMMA CallIsTyped == TypeOK => CallTyped(call)
  BY DEF TypeOK, CallTyped, Questions

LEMMA IdleTyped == CallTyped(Idle)
<1>1. <<>> \in Seq(Questions) /\ <<>> \in Seq(Rebuilt) /\ 0 \in Accounts
  BY FlowAssumption
<1> QED
  BY <1>1 DEF CallTyped, Idle

LEMMA AdapterStep ==
  ASSUME TypeOK, UNCHANGED <<conn, seen, soft, body>>, body # None, CallTyped(call'),
         \/ UNCHANGED hard
         \/ hard' \in Accountings(seen),
         \/ UNCHANGED cache
         \/ \E a \in Accounts, d \in seen : cache' = [cache EXCEPT ![a] = Xpub(d, a)]
  PROVE  TypeOK'
<1>1. Answers' = Answers /\ Rebuilt' = Rebuilt
  BY SetsStay
<1>2. /\ cache' \in [Accounts -> {NoText} \cup {Xpub(d, a) : d \in seen, a \in Accounts}]
      /\ \A a \in Accounts : cache'[a] \in {NoText} \cup {Xpub(d, a) : d \in seen}
  <2> DEFINE Xpubs == {Xpub(d, a) : d \in seen, a \in Accounts}
             Of(a) == {Xpub(d, a) : d \in seen}
  <2>1. /\ cache \in [Accounts -> {NoText} \cup Xpubs]
        /\ \A a \in Accounts : cache[a] \in {NoText} \cup Of(a)
    BY DEF TypeOK
  <2>2. CASE UNCHANGED cache
    BY <2>1, <2>2
  <2>3. ASSUME NEW a \in Accounts, NEW d \in seen, cache' = [cache EXCEPT ![a] = Xpub(d, a)]
        PROVE  /\ cache' \in [Accounts -> {NoText} \cup Xpubs]
               /\ \A e \in Accounts : cache'[e] \in {NoText} \cup Of(e)
    <3>1. Xpub(d, a) \in Xpubs /\ Xpub(d, a) \in Of(a)
      OBVIOUS
    <3> HIDE DEF Xpubs, Of
    <3> QED
      BY <2>1, <2>3, <3>1
  <2> QED
    BY <2>2, <2>3
<1>3. hard' \in {None} \cup Accountings(seen)
  BY DEF TypeOK, Accountings
<1>4. /\ conn' \in seen' \cup {None} /\ seen' \subseteq Devices
      /\ soft' \in {None, SoftWallet} /\ body' \in {None} \cup {Hex("body", b) : b \in Bodies}
      /\ body' # None /\ seen' = seen
  BY DEF TypeOK
<1>5. /\ call' \in [at : {"idle", "opening", "signing", "rebuilding", "reading"},
                 conn : seen' \cup {None}, account : Accounts,
                 left : Seq(Questions) \cup Seq(Answers'), done : Seq(Rebuilt')]
      /\ call'.at = "idle" => call' = Idle
      /\ call'.at \in {"opening", "reading", "signing"} => call'.conn \in seen'
      /\ call'.at = "opening" => call'.account = 0
      /\ call'.at = "signing" => call'.left \in Seq(Questions)
      /\ call'.at \in {"rebuilding", "reading"} => call'.left \in Seq(Answers')
  BY <1>1 DEF CallTyped
<1> QED
  BY <1>2, <1>3, <1>4, <1>5 DEF TypeOK, Questions, Accountings

LEMMA InUse ==
  ASSUME TypeOK, conn # None \/ call.at # "idle"
  PROVE  body # None
  BY DEF TypeOK, Idle

LEMMA OpenHardTyped == ASSUME TypeOK, OpenHard PROVE TypeOK'
<1>1. UNCHANGED <<conn, cache, seen, soft, body>> /\ body # None
  BY DEF OpenHard
<1>2. CASE cache[0] # NoText /\ hard' = WireXpubToAccount(<<cache[0], Net>>).ok /\ UNCHANGED call
  <2>1. cache[0] \in {Xpub(d, 0) : d \in seen}
    BY <1>2, FlowAssumption DEF TypeOK
  <2>2. hard' \in Accountings(seen)
    BY <1>2, <2>1 DEF Accountings
  <2>3. CallTyped(call')
    BY <1>2, CallIsTyped
  <2> QED
    BY <1>1, <2>2, <2>3, AdapterStep
<1>3. CASE /\ conn # None /\ UNCHANGED hard
           /\ call' = [Idle EXCEPT !.at = "opening", !.conn = conn]
  <2>1. conn \in seen
    BY <1>3 DEF TypeOK
  <2>2. CallTyped(call')
    <3>1. <<>> \in Seq(Questions) /\ <<>> \in Seq(Rebuilt) /\ 0 \in Accounts
      BY FlowAssumption
    <3>2. call' = [at |-> "opening", conn |-> conn, account |-> 0, left |-> <<>>, done |-> <<>>]
      BY <1>3 DEF Idle
    <3> QED
      BY <2>1, <3>1, <3>2 DEF CallTyped
  <2> QED
    BY <1>1, <1>3, <2>2, AdapterStep
<1> QED
  BY <1>2, <1>3 DEF OpenHard

LEMMA XpubAnswerTyped == ASSUME TypeOK, XpubAnswer PROVE TypeOK'
<1>1. UNCHANGED <<conn, seen, soft, body>> /\ body # None
  BY InUse DEF XpubAnswer
<1>2. CallTyped(call) /\ call.conn \in seen /\ call.account \in Accounts
  BY CallIsTyped DEF XpubAnswer, CallTyped
<1> DEFINE xpub == Xpub(call.conn, call.account)
<1>3. CASE /\ cache' = [cache EXCEPT ![call.account] = xpub]
           /\ call.at = "opening" /\ call' = Idle
           /\ hard' = WireXpubToAccount(<<xpub, Net>>).ok
  <2>1. hard' \in Accountings(seen)
    BY <1>2, <1>3 DEF Accountings, CallTyped
  <2>2. CallTyped(call')
    BY <1>3, IdleTyped
  <2>3. \E a \in Accounts, d \in seen : cache' = [cache EXCEPT ![a] = Xpub(d, a)]
    BY <1>2, <1>3
  <2> QED
    BY <1>1, <2>1, <2>2, <2>3, AdapterStep
<1>4. CASE /\ cache' = [cache EXCEPT ![call.account] = xpub]
           /\ call.at = "reading" /\ call' = [call EXCEPT !.at = "rebuilding"] /\ UNCHANGED hard
  <2>1. CallTyped(call')
    BY <1>2, <1>4 DEF CallTyped
  <2>2. \E a \in Accounts, d \in seen : cache' = [cache EXCEPT ![a] = Xpub(d, a)]
    BY <1>2, <1>4
  <2> QED
    BY <1>1, <1>4, <2>1, <2>2, AdapterStep
<1>5. CASE call' = Idle /\ UNCHANGED <<cache, hard>>
  BY <1>1, <1>5, IdleTyped, AdapterStep
<1> QED
  BY <1>3, <1>4, <1>5 DEF XpubAnswer

LEMMA AskDeviceTyped == ASSUME TypeOK, AskDevice PROVE TypeOK'
<1>1. UNCHANGED <<conn, cache, seen, hard, soft, body>> /\ body # None /\ conn \in seen
  BY InUse DEF AskDevice, TypeOK
<1>2. PICK paths \in PathLists :
        call' = [Idle EXCEPT !.at = "signing", !.conn = conn,
                    !.left = [i \in DOMAIN paths |-> <<Harden(paths[i][1]), paths[i][2], paths[i][3]>>]]
  BY DEF AskDevice
<1> DEFINE left == [i \in DOMAIN paths |-> <<Harden(paths[i][1]), paths[i][2], paths[i][3]>>]
<1>3. left \in Seq(Questions)
  <2>1. paths \in Seq(Accounts \X (0 .. Half - 1) \X (0 .. Half - 1))
    BY FlowAssumption
  <2>2. DOMAIN paths = 1 .. Len(paths) /\ Len(paths) \in Nat
    BY <2>1, LenProperties
  <2>3. \A i \in DOMAIN paths : left[i] \in Questions
    <3> TAKE i \in DOMAIN paths
    <3>1. paths[i] \in Paths
      BY DEF Paths, Range
    <3> QED
      BY <3>1 DEF Questions, Asked
  <2>4. DOMAIN left = DOMAIN paths
    OBVIOUS
  <2>5. left = [i \in 1 .. Len(paths) |-> left[i]]
    BY <2>2
  <2>6. \A i \in 1 .. Len(paths) : left[i] \in Questions
    BY <2>2, <2>3, Zenon
  <2> HIDE DEF left
  <2>7. [i \in 1 .. Len(paths) |-> left[i]] \in Seq(Questions)
    BY <2>2, <2>6, IsASeq
  <2> QED
    BY <2>5, <2>7, Zenon
<1>4. CallTyped(call')
  <2>1. call' = [at |-> "signing", conn |-> conn, account |-> 0, left |-> left, done |-> <<>>]
    BY <1>2 DEF Idle
  <2>2. <<>> \in Seq(Rebuilt) /\ 0 \in Accounts
    BY FlowAssumption
  <2> HIDE DEF left
  <2> QED
    BY <1>1, <1>3, <2>1, <2>2 DEF CallTyped
<1> QED
  BY <1>1, <1>4, AdapterStep

LEMMA DeviceAnswerTyped == ASSUME TypeOK, DeviceAnswer PROVE TypeOK'
<1>1. UNCHANGED <<conn, cache, seen, hard, soft, body>> /\ body # None
  BY InUse DEF DeviceAnswer
<1>2. CallTyped(call) /\ call.conn \in seen /\ call.left \in Seq(Questions)
  BY CallIsTyped DEF DeviceAnswer, CallTyped
<1> DEFINE left == [i \in DOMAIN call.left |-> DeviceSignature(call.conn, call.left[i], ShownBody)]
<1>3. CASE call' = [call EXCEPT !.at = "rebuilding", !.conn = None, !.left = left]
  <2>1. DOMAIN call.left = 1 .. Len(call.left) /\ Len(call.left) \in Nat
    BY <1>2, LenProperties
  <2>2. \A i \in 1 .. Len(call.left) : left[i] \in Answers
    <3> TAKE i \in 1 .. Len(call.left)
    <3>1. call.left[i] \in Questions
      BY <1>2, ElementOfSeq
    <3>2. left[i] = DeviceSignature(call.conn, call.left[i], ShownBody)
      BY <2>1
    <3> QED
      BY <1>2, <3>1, <3>2 DEF Questions, Answers
  <2>3. left = [i \in 1 .. Len(call.left) |-> left[i]]
    BY <2>1
  <2> HIDE DEF left
  <2>4. [i \in 1 .. Len(call.left) |-> left[i]] \in Seq(Answers)
    BY <2>1, <2>2, IsASeq
  <2>5. left \in Seq(Answers)
    BY <2>3, <2>4, Zenon
  <2>6. CallTyped(call')
    BY <1>2, <1>3, <2>5 DEF CallTyped
  <2> QED
    BY <1>1, <2>6, AdapterStep
<1>4. CASE call' = Idle
  BY <1>1, <1>4, IdleTyped, AdapterStep
<1> QED
  BY <1>3, <1>4 DEF DeviceAnswer, ShownBody

\* The next answer to be given its public key.
LEMMA NextAnswer ==
  ASSUME TypeOK, call.at = "rebuilding", call.left # <<>>
  PROVE  \E d \in seen, p \in Paths :
            /\ Head(call.left) = DeviceSignature(d, Asked(p), ShownBody)
            /\ Head(call.left).path[1] % Half = p[1]
            /\ Head(call.left).path[2] = p[2] /\ Head(call.left).path[3] = p[3]
            /\ Head(call.left).signature = Hex("signature", Sign(DeviceKey(d, p), Blake2b(ShownBody)))
<1>1. call.left \in Seq(Answers)
  BY CallIsTyped DEF CallTyped
<1>2. Head(call.left) \in Answers
  BY <1>1, HeadTailProperties
<1>3. PICK d \in seen, p \in Paths : Head(call.left) = DeviceSignature(d, Asked(p), ShownBody)
  BY <1>2 DEF Answers
<1>4. /\ Head(call.left).path = <<Harden(p[1]), p[2], p[3]>>
      /\ Head(call.left).signature = Hex("signature", Sign(DeviceKey(d, p), Blake2b(ShownBody)))
  BY <1>3 DEF DeviceSignature, Asked, DeviceKey
<1>5. Harden(p[1]) % Half = p[1]
  BY PathsTyped, HardenedAccount
<1> QED
  BY <1>3, <1>4, <1>5

LEMMA RebuildWitnessTyped == ASSUME TypeOK, RebuildWitness PROVE TypeOK'
<1>1. UNCHANGED <<conn, cache, seen, hard, soft, body>> /\ body # None
  BY InUse DEF RebuildWitness
<1> DEFINE s == Head(call.left)
           account == s.path[1] % Half
           w == [vkey |-> WireXpubDerivePublicKey(<<cache[account], s.path[2], s.path[3]>>).ok,
                 signature |-> s.signature]
<1>2. CallTyped(call) /\ call.left \in Seq(Answers) /\ call.left # <<>> /\ call.at = "rebuilding"
  BY CallIsTyped DEF RebuildWitness, CallTyped
<1>3. PICK d \in seen, p \in Paths :
        /\ account = p[1] /\ s.path[2] = p[2] /\ s.path[3] = p[3]
        /\ s.signature = Hex("signature", Sign(DeviceKey(d, p), Blake2b(ShownBody)))
  BY <1>2, NextAnswer
<1> HIDE DEF s, account
<1>4. account \in Accounts
  BY <1>3, PathsTyped
<1>5. CASE cache[account] # NoText /\ call' = [call EXCEPT !.left = Tail(@), !.done = Append(@, w)]
  <2>1. PICK e \in seen : cache[account] = Xpub(e, account)
    BY <1>4, <1>5 DEF TypeOK
  <2>2. w.vkey = Hex("public key", DeviceKey(e, p))
    <3>1. w.vkey = WireXpubDerivePublicKey(<<Xpub(e, p[1]), p[2], p[3]>>).ok
      BY <1>3, <2>1
    <3>2. p[2] \in 0 .. Half - 1 /\ p[3] \in 0 .. Half - 1
      BY PathsTyped
    <3>3. \A a, r, i : r \in 0 .. Half - 1 /\ i \in 0 .. Half - 1 =>
            WireXpubDerivePublicKey(<<Xpub(e, a), r, i>>).ok
              = Hex("public key", Derive(AccountKey(DeviceSeed(e), Harden(a)), r, i))
      BY XpubAgrees
    <3>4. WireXpubDerivePublicKey(<<Xpub(e, p[1]), p[2], p[3]>>).ok
            = Hex("public key", Derive(AccountKey(DeviceSeed(e), Harden(p[1])), p[2], p[3]))
      BY <3>2, <3>3, Zenon
    <3> QED
      BY <3>1, <3>4, Zenon DEF DeviceKey
  <2>3. w = [vkey |-> Hex("public key", DeviceKey(e, p)),
             signature |-> Hex("signature", Sign(DeviceKey(d, p), Blake2b(ShownBody)))]
    BY <1>3, <2>2
  <2>4. w \in Rebuilt
    <3>1. w = RebuiltOf(e, d, p)
      BY <2>3 DEF RebuiltOf
    <3> HIDE DEF w
    <3> QED
      BY <3>1 DEF Rebuilt
  <2> HIDE DEF w
  <2>5. Append(call.done, w) \in Seq(Rebuilt) /\ Tail(call.left) \in Seq(Answers)
    <3>1. call.done \in Seq(Rebuilt)
      BY <1>2 DEF CallTyped
    <3> QED
      BY <1>2, <2>4, <3>1, AppendProperties, HeadTailProperties
  <2>6. CallTyped(call')
    BY <1>2, <1>5, <2>5 DEF CallTyped
  <2> QED
    BY <1>1, <2>6, AdapterStep
<1>6. CASE call' = Idle
  BY <1>1, <1>6, IdleTyped, AdapterStep
<1>7. CASE conn # None /\ call' = [call EXCEPT !.at = "reading", !.conn = conn, !.account = account]
  <2>1. conn \in seen
    BY <1>7 DEF TypeOK
  <2>2. CallTyped(call')
    BY <1>2, <1>4, <1>7, <2>1 DEF CallTyped
  <2> QED
    BY <1>1, <2>2, AdapterStep
<1> QED
  BY <1>5, <1>6, <1>7 DEF RebuildWitness, s, account

LEMMA HardSignedTyped == ASSUME TypeOK, HardSigned PROVE TypeOK'
<1>1. UNCHANGED <<conn, cache, seen, hard, soft, body>> /\ body # None /\ call' = Idle
  BY InUse DEF HardSigned
<1> QED
  BY <1>1, IdleTyped, AdapterStep

(***************************************************************************)
(* Witnesses.                                                              *)
(***************************************************************************)

LEMMA OneSeen ==
  ASSUME TypeOK, Cardinality(seen) <= 1, NEW d \in seen, NEW e \in seen
  PROVE  d = e
<1>1. IsFiniteSet(seen)
  BY FlowAssumption, FS_Subset DEF TypeOK
<1>2. Cardinality(seen) \in Nat /\ (Cardinality(seen) = 0 <=> seen = {})
  BY <1>1, FS_EmptySet, FS_CardinalityType
<1>3. Cardinality(seen) = 1
  BY <1>2
<1>4. \E x : seen = {x}
  BY <1>1, <1>3, FS_Singleton
<1> QED
  BY <1>4

LEMMA DeviceStays ==
  ASSUME seen \subseteq seen', UNCHANGED body, NEW w, OfDevice(w)
  PROVE  OfDevice(w)'
<1>1. ShownBody' = ShownBody
  BY DEF ShownBody
<1>2. Rebuilt \subseteq Rebuilt'
  <2> DEFINE R(d, e, p) == RebuiltOf(d, e, p)
  <2>1. Rebuilt = {R(d, e, p) : d, e \in seen, p \in Paths}
    BY DEF Rebuilt
  <2>2. Rebuilt' = {R(d, e, p) : d, e \in seen', p \in Paths}
    BY <1>1 DEF Rebuilt, RebuiltOf
  <2> HIDE DEF R
  <2> QED
    BY <2>1, <2>2
<1> QED
  BY <1>2 DEF OfDevice

LEMMA KnownStays ==
  ASSUME signed \subseteq signed', seen \subseteq seen', UNCHANGED body, NEW w, Known(w)
  PROVE  Known(w)'
<1>1. CASE OfDevice(w)
  BY <1>1, DeviceStays DEF Known
<1>2. CASE OfSoft(w)
  BY <1>2 DEF Known, OfSoft
<1> QED
  BY <1>1, <1>2 DEF Known

LEMMA RebuiltIs ==
  ASSUME NEW x \in Rebuilt
  PROVE  \E d, e \in seen, p \in Paths : x = RebuiltOf(d, e, p)
  BY DEF Rebuilt

\* Whose a witness is, and what it signs.
LEMMA WitnessIs ==
  ASSUME NEW w, OfDevice(w) \/ OfSoft(w)
  PROVE  /\ w = [vkey |-> w.vkey, signature |-> w.signature]
         /\ \/ \E words \in {"soft", "friend"} :
                  \E k \in {Pay(words), Stake(words)} : w = Witness(k, body.of)
            \/ \E d, e \in seen, p \in Paths :
                  /\ w.vkey = DeviceKey(d, p)
                  /\ w.signature = Sign(DeviceKey(e, p), Blake2b(ShownBody))
<1>1. CASE OfSoft(w)
  <2>1. PICK k \in {SoftWallet.keys.payment_signing_key, SoftWallet.keys.stake_signing_key}
                       \cup Range(FriendKeys) : w = Witness(k.of, body.of)
    BY <1>1 DEF OfSoft
  <2>2. k \in {Secret(Pay("soft")), Secret(Stake("soft")), Secret(Pay("friend")), Secret(Stake("friend"))}
    BY <2>1, SoftWalletIs, SeededKeys, FriendKeysAre
  <2>3. k.of \in {Pay("soft"), Stake("soft"), Pay("friend"), Stake("friend")}
    BY <2>2 DEF Secret, Bech32
  <2> QED
    BY <2>1, <2>3 DEF Witness
<1>2. CASE \E x \in Rebuilt : w = [vkey |-> x.vkey.of, signature |-> x.signature.of]
  <2>1. PICK x \in Rebuilt : w = [vkey |-> x.vkey.of, signature |-> x.signature.of]
    BY <1>2
  <2>2. PICK d \in seen, e \in seen, p \in Paths :
          x = RebuiltOf(d, e, p)
    BY <2>1, RebuiltIs
  <2>3. x.vkey.of = DeviceKey(d, p) /\ x.signature.of = Sign(DeviceKey(e, p), Blake2b(ShownBody))
    BY <2>2 DEF Hex, RebuiltOf
  <2> QED
    BY <2>1, <2>3
<1> QED
  BY <1>1, <1>2 DEF OfDevice

LEMMA KnownIs ==
  ASSUME NEW w, Known(w)
  PROVE  /\ w = [vkey |-> w.vkey, signature |-> w.signature]
         /\ \/ \E k : w = Witness(k, body.of)
            \/ \E d, e \in seen, p \in Paths :
                  /\ w.vkey = DeviceKey(d, p)
                  /\ w.signature = Sign(DeviceKey(e, p), Blake2b(ShownBody))
  BY WitnessIs DEF Known

LEMMA BodyIs ==
  ASSUME TypeOK, body # None
  PROVE  /\ body = Hex("body", body.of) /\ body.of \in Bodies
         /\ body.of = [pays |-> body.of.pays, parts |-> body.of.parts, form |-> body.of.form]
         /\ body.of.pays \in {"soft", "shared", "joint", "accounts"}
         /\ Rewritten(body.of) = [pays |-> body.of.pays, parts |-> body.of.parts, form |-> "csl"]
         /\ body.of.form = "csl" => Rewritten(body.of) = body.of
<1>1. PICK b \in Bodies : body = Hex("body", b)
  BY DEF TypeOK
<1>2. body.of = b
  BY <1>1 DEF Hex
<1>3. b \in [pays : {"soft", "shared", "joint", "accounts"}, parts : SUBSET Parts, form : {"csl", "other"}]
  BY FlowAssumption
<1>4. b = [pays |-> b.pays, parts |-> b.parts, form |-> b.form] /\ b.pays \in {"soft", "shared", "joint", "accounts"}
  BY <1>3
<1>5. Rewritten(b) = [pays |-> b.pays, parts |-> b.parts, form |-> "csl"]
  BY <1>4 DEF Rewritten
<1> QED
  BY <1>1, <1>2, <1>4, <1>5

LEMMA DecomposedIs ==
  ASSUME TypeOK, body # None
  PROVE  /\ WireDecomposeTxBody(<<body>>).ok.has_unsupported_features <=>
              body.of.parts \cap Unsupported # {}
         /\ ShownBody = [pays |-> body.of.pays,
                         parts |-> (body.of.parts \cap Reported) \cap {"ttl", "validity_start"},
                         form |-> "csl"]
<1> DEFINE c == Decoded(body, "body", "InvalidCbor")
           v == [pays |-> body.of.pays, parts |-> body.of.parts \cap Reported,
                 has_unsupported_features |-> body.of.parts \cap Unsupported # {}]
<1>1. c = "None"
  BY BodyIs, HashDecodes
<1>2. WireDecomposeTxBody(<<body>>) = Unless(c, v)
  BY DEF WireDecomposeTxBody, DecomposeTxBody
<1>3. WireDecomposeTxBody(<<body>>).ok = v
  <2> HIDE DEF c, v
  <2> QED
    BY <1>1, <1>2, UnlessNone
<1>4. Shown(v) = [pays |-> body.of.pays,
                  parts |-> (body.of.parts \cap Reported) \cap {"ttl", "validity_start"},
                  form |-> "csl"]
  BY DEF Shown
<1>5. v.has_unsupported_features <=> body.of.parts \cap Unsupported # {}
  OBVIOUS
<1> HIDE DEF v
<1> QED
  BY <1>3, <1>4, <1>5 DEF ShownBody

LEMMA AllIsShown ==
  ASSUME TypeOK, body # None, Lossless(body.of)
  PROVE  ShownBody = Rewritten(body.of)
<1>1. body.of.parts = (body.of.parts \cap Reported) \cap {"ttl", "validity_start"}
  BY DEF Lossless, Reported
<1> QED
  BY <1>1, BodyIs, DecomposedIs

\* With one device, each witness has the key of its signature; it verifies,
\* unless the device was shown a part of the body.
LEMMA KnownVerifies ==
  ASSUME TypeOK, body # None, Cardinality(seen) <= 1, NEW w, Known(w)
  PROVE  /\ w.vkey = w.signature.by
         /\ \/ Verify(w.vkey, Blake2b(Rewritten(body.of)), w.signature)
            \/ ~Lossless(body.of) /\ w.signature.by[1] \in {DeviceSeed(d) : d \in seen}
<1>1. CASE \E k : w = Witness(k, body.of)
  BY <1>1 DEF Witness, Verify, Sign
<1>2. ASSUME NEW d \in seen, NEW e \in seen, NEW p \in Paths, w.vkey = DeviceKey(d, p),
             w.signature = Sign(DeviceKey(e, p), Blake2b(ShownBody))
      PROVE  /\ w.vkey = w.signature.by
             /\ \/ Verify(w.vkey, Blake2b(Rewritten(body.of)), w.signature)
                \/ ~Lossless(body.of) /\ w.signature.by[1] \in {DeviceSeed(x) : x \in seen}
  <2>1. d = e
    BY OneSeen
  <2>2. w.vkey = w.signature.by
    BY <1>2, <2>1 DEF Sign
  <2>3. w.signature.by[1] = DeviceSeed(e)
    BY <1>2 DEF Sign, DeviceKey, Derive, AccountKey
  <2>4. CASE Lossless(body.of)
    BY <1>2, <2>1, <2>2, <2>4, AllIsShown DEF Verify
  <2>5. CASE ~Lossless(body.of)
    BY <2>2, <2>3, <2>5
  <2> QED
    BY <2>4, <2>5
<1> QED
  BY <1>1, <1>2, KnownIs

LEMMA FitFollows == TypeOK /\ WitnessesKept => WitnessesFit
  BY KnownVerifies DEF WitnessesKept, WitnessesFit

LEMMA FiniteImage ==
  ASSUME NEW S, IsFiniteSet(S), NEW f, DOMAIN f = S
  PROVE  IsFiniteSet({f[x] : x \in S})
<1> DEFINE T == {f[x] : x \in S}
           h == [x \in S |-> f[x]]
<1>1. h \in Surjection(S, T)
  BY DEF Surjection
<1> HIDE DEF T, h
<1>2. IsFiniteSet(T)
  BY <1>1, FS_Surjection
<1> QED
  BY <1>2 DEF T

\* What the device gave back, once public keys are added: witnesses of keys
\* it signed with, in the form the caller merges.
Given == {[vkey |-> w.vkey.of, signature |-> w.signature.of] : w \in Range(call.done)}

LEMMA GivenBack ==
  ASSUME TypeOK
  PROVE  /\ WireAssembleVkeyWitnessSet(<<call.done>>).ok
              = Hex("witnesses", [vkeys |-> Given, scripts |-> {}])
         /\ IsFiniteSet(Given) /\ Shaped(Given)
         /\ \A g \in Given : \E x \in Rebuilt : g = [vkey |-> x.vkey.of, signature |-> x.signature.of]
         /\ {w.signature.of.by : w \in Range(call.done)} = {g.signature.by : g \in Given}
<1>1. call.done \in Seq(Rebuilt)
  BY CallIsTyped DEF CallTyped
<1>2. \A w \in Rebuilt : w.vkey = Hex("public key", w.vkey.of) /\ w.signature = Hex("signature", w.signature.of)
  <2> TAKE w \in Rebuilt
  <2>1. PICK d \in seen, e \in seen, q \in Paths : w = RebuiltOf(d, e, q)
    BY RebuiltIs
  <2> QED
    BY <2>1 DEF RebuiltOf, Hex
<1>3. WireAssembleVkeyWitnessSet(<<call.done>>).ok = Hex("witnesses", [vkeys |-> Given, scripts |-> {}])
  BY <1>1, <1>2, Assembles DEF Given
<1>4. Range(call.done) \subseteq Rebuilt
  BY <1>1, RangeOfSeq
<1>5. IsFiniteSet(Given)
  <2> DEFINE dom == DOMAIN call.done
             f == [i \in dom |-> [vkey |-> call.done[i].vkey.of, signature |-> call.done[i].signature.of]]
  <2>1. IsFiniteSet(dom)
    <3>1. dom = 1 .. Len(call.done) /\ Len(call.done) \in Nat
      BY <1>1, LenProperties
    <3> QED
      BY <3>1, FS_Interval
  <2>2. Given = {f[i] : i \in dom}
    BY DEF Given, Range
  <2>3. DOMAIN f = dom
    OBVIOUS
  <2> HIDE DEF f, dom
  <2> QED
    BY <2>1, <2>2, <2>3, FiniteImage
<1>6. Shaped(Given)
  BY DEF Shaped, Given
<1>7. \A g \in Given : \E x \in Rebuilt : g = [vkey |-> x.vkey.of, signature |-> x.signature.of]
  BY <1>4 DEF Given
<1>8. {w.signature.of.by : w \in Range(call.done)} = {g.signature.by : g \in Given}
  <2> DEFINE R == Range(call.done)
             G(w) == [vkey |-> w.vkey.of, signature |-> w.signature.of]
  <2>1. \A w \in R : G(w) \in Given /\ G(w).signature.by = w.signature.of.by
    BY DEF Given
  <2>2. \A g \in Given : \E w \in R : g = G(w)
    BY DEF Given
  <2> HIDE DEF R, G
  <2>3. {w.signature.of.by : w \in R} = {g.signature.by : g \in Given}
    BY <2>1, <2>2
  <2> QED
    BY <2>3 DEF R
<1> QED
  BY <1>3, <1>5, <1>6, <1>7, <1>8

\* Steps that leave the witnesses and the transaction alone.
LEMMA KeptStays ==
  ASSUME WitnessesKept, UNCHANGED <<collected, signed, tx, body>>, seen \subseteq seen'
  PROVE  WitnessesKept'
  BY KnownStays DEF WitnessesKept

\* Steps that make a transaction, but for that of the device.
LEMMA KeptHere ==
  ASSUME WitnessesKept, UNCHANGED <<collected, signed, seen, body>>, tx = NoTx
  PROVE  WitnessesKept'
  BY KnownStays DEF WitnessesKept

\* Steps that merge more witnesses, of keys that sign in this step.
LEMMA KeptMerged ==
  ASSUME WitnessesKept, UNCHANGED <<seen, body>>, body # None,
         NEW more, IsFiniteSet(more), Shaped(more),
         collected' = Merge(collected, Hex("witnesses", [vkeys |-> more, scripts |-> {}])),
         signed' = signed \cup {w.signature.by : w \in more},
         UNCHANGED tx, \A w \in more : Known(w)'
  PROVE  WitnessesKept'
<1> DEFINE old == collected.of.vkeys
           A == [vkeys |-> old, scripts |-> collected.of.scripts]
           B == [vkeys |-> more, scripts |-> {}]
<1>1. collected = Hex("witnesses", A) /\ IsFiniteSet(old) /\ \A w \in old : Known(w)
  BY DEF WitnessesKept
<1>2. Shaped(old)
  BY <1>1, KnownIs DEF Shaped
<1>3. A.vkeys = old /\ B.vkeys = more
  OBVIOUS
<1>4. collected' = Hex("witnesses", [vkeys |-> old \cup more, scripts |-> {}])
  <2> HIDE DEF A, B, old
  <2>1. collected' = Merge(Hex("witnesses", A), Hex("witnesses", B))
    BY <1>1 DEF B
  <2>2. IsFiniteSet(A.vkeys) /\ IsFiniteSet(B.vkeys) /\ Shaped(A.vkeys) /\ Shaped(B.vkeys)
    BY <1>1, <1>2, <1>3
  <2> QED
    BY <1>3, <2>1, <2>2, Merged
<1> DEFINE new == [vkeys |-> old \cup more, scripts |-> {}]
<1>5. /\ collected'.of.vkeys = old \cup more
      /\ collected' = Hex("witnesses", [vkeys |-> collected'.of.vkeys, scripts |-> collected'.of.scripts])
  <2>1. new = [vkeys |-> new.vkeys, scripts |-> new.scripts] /\ new.vkeys = old \cup more
    OBVIOUS
  <2>2. collected' = Hex("witnesses", new)
    BY <1>4
  <2> HIDE DEF new, old
  <2>3. collected'.of = new
    BY <2>2 DEF Hex
  <2> QED
    BY <2>1, <2>2, <2>3
<1>6. IsFiniteSet(old \cup more)
  BY <1>1, FS_Union
<1>7. \A w \in old \cup more : Known(w)'
  <2>1. \A w \in old : Known(w)'
    BY <1>1, KnownStays
  <2> QED
    BY <2>1
<1>8. tx = NoTx \/ tx.route # "device" => signed \subseteq {w.signature.by : w \in old}
  BY DEF WitnessesKept
<1> HIDE DEF old
<1>9. tx = NoTx \/ tx.route # "device" => signed' \subseteq {w.signature.by : w \in old \cup more}
  BY <1>8
<1> QED
  BY <1>5, <1>6, <1>7, <1>9 DEF WitnessesKept

LEMMA KeysSign ==
  ASSUME TypeOK, soft # None
  PROVE  /\ SoftKeys = <<Secret(Pay("soft")), Secret(Stake("soft"))>>
         /\ Range(SoftKeys) = {Secret(Pay("soft")), Secret(Stake("soft"))}
         /\ Head(SoftKeys) = Secret(Pay("soft"))
         /\ Range(<<Head(SoftKeys)>>) = {Secret(Pay("soft"))}
         /\ KeysCheck(SoftKeys) = "None" /\ KeysCheck(<<Head(SoftKeys)>>) = "None"
<1>1. soft = SoftWallet
  BY DEF TypeOK
<1>2. SoftKeys = <<Secret(Pay("soft")), Secret(Stake("soft"))>>
  BY <1>1, SoftWalletIs, SeededKeys DEF SoftKeys
<1>3. Range(SoftKeys) = {Secret(Pay("soft")), Secret(Stake("soft"))}
  BY <1>2, RangeOf2
<1>4. Head(SoftKeys) = Secret(Pay("soft"))
  BY <1>2
<1>5. Range(<<Head(SoftKeys)>>) = {Secret(Pay("soft"))}
  BY <1>4 DEF Range
<1>6. \A k : IsKey(Secret(k))
  BY DEF IsKey, IsBech32, Secret, Bech32
<1> QED
  BY <1>2, <1>3, <1>4, <1>5, <1>6 DEF KeysCheck, Check

LEMMA KeptHardSigned ==
  ASSUME TypeOK, WitnessesKept, HardSigned
  PROVE  WitnessesKept'
<1>1. /\ UNCHANGED <<seen, body>> /\ body # None
      /\ signed' = signed \cup {w.signature.of.by : w \in Range(call.done)}
  BY InUse DEF HardSigned
<1>2. signed' = signed \cup {w.signature.by : w \in Given}
  BY <1>1, GivenBack
<1>3. CASE collected' = Merge(collected, WireAssembleVkeyWitnessSet(<<call.done>>).ok) /\ UNCHANGED tx
  <2>1. Rebuilt' = Rebuilt
    BY <1>1, SetsStay
  <2>2. \A w \in Given : Known(w)'
    <3> TAKE w \in Given
    <3>1. w.signature.by \in signed'
      BY <1>2
    <3>2. \E x \in Rebuilt : w = [vkey |-> x.vkey.of, signature |-> x.signature.of]
      BY GivenBack
    <3> QED
      BY <2>1, <3>1, <3>2 DEF Known, OfDevice
  <2>3. collected' = Merge(collected, Hex("witnesses", [vkeys |-> Given, scripts |-> {}]))
    BY <1>3, GivenBack
  <2> QED
    BY <1>1, <1>2, <1>3, <2>2, <2>3, GivenBack, KeptMerged
<1>4. CASE UNCHANGED collected /\ \E t : tx' = Final("device", t)
  <2>1. tx' # NoTx /\ tx'.route = "device"
    BY <1>4 DEF Final, NoTx
  <2>2. signed \subseteq signed'
    BY <1>1
  <2> QED
    BY <1>1, <1>4, <2>1, <2>2, KnownStays DEF WitnessesKept
<1> QED
  BY <1>3, <1>4 DEF HardSigned

LEMMA KeysSignTx ==
  ASSUME NEW keys, KeysCheck(keys) = "None", NEW unsigned, unsigned = Hex("tx", unsigned.of)
  PROVE  WireCip30SignTx(<<unsigned, keys>>).ok
           = Hex("witnesses", [vkeys |-> Witnesses(keys, unsigned.of.body), scripts |-> {}])
<1> DEFINE c1 == KeysCheck(keys)
           c2 == Decoded(unsigned, "tx", "InvalidCbor")
           w == Witnesses(keys, unsigned.of.body)
           v == Hex("witnesses", [EmptyWitnessSet EXCEPT !.vkeys = w])
<1>1. c1 = "None" /\ c2 = "None"
  BY HashDecodes
<1>2. First(<<c1, c2>>) = "None"
  BY <1>1, FirstOf2
<1>3. WireCip30SignTx(<<unsigned, keys>>) = Unless(First(<<c1, c2>>), v)
  BY DEF WireCip30SignTx, Cip30SignTx
<1>4. v = Hex("witnesses", [vkeys |-> w, scripts |-> {}])
  BY VkeysPut
<1> HIDE DEF c1, c2, v, w
<1>5. WireCip30SignTx(<<unsigned, keys>>).ok = v
  BY <1>2, <1>3, UnlessNone
<1> QED
  BY <1>4, <1>5 DEF w

LEMMA WitnessesOf ==
  ASSUME TypeOK, soft # None
  PROVE  /\ Witnesses(SoftKeys, body.of) = {Witness(Pay("soft"), body.of), Witness(Stake("soft"), body.of)}
         /\ Witnesses(<<Head(SoftKeys)>>, body.of) = {Witness(Pay("soft"), body.of)}
         /\ {k.of : k \in Range(SoftKeys)} = {Pay("soft"), Stake("soft")}
<1>1. \A k : Secret(k).of = k
  BY DEF Secret, Bech32
<1>2. /\ {Witness(k.of, body.of) : k \in {Secret(Pay("soft")), Secret(Stake("soft"))}}
           = {Witness(Pay("soft"), body.of), Witness(Stake("soft"), body.of)}
      /\ {Witness(k.of, body.of) : k \in {Secret(Pay("soft"))}} = {Witness(Pay("soft"), body.of)}
      /\ {k.of : k \in {Secret(Pay("soft")), Secret(Stake("soft"))}} = {Pay("soft"), Stake("soft")}
  BY <1>1
<1> QED
  BY <1>2, KeysSign DEF Witnesses

LEMMA SecretIs == \A k : Secret(k).of = k /\ IsKey(Secret(k))
  BY DEF Secret, Bech32, IsKey, IsBech32

\* Two keys of a software wallet sign.
LEMMA KeptSigned ==
  ASSUME TypeOK, WitnessesKept, NEW words \in {"soft", "friend"},
         NEW keys, keys = <<Secret(Pay(words)), Secret(Stake(words))>>, SignedWith(keys)
  PROVE  WitnessesKept'
<1> DEFINE unsigned == Hex("tx", [body |-> body.of, witnesses |-> collected.of, aux |-> AuxOf(body.of)])
           more == {Witness(Pay(words), body.of), Witness(Stake(words), body.of)}
<1>1. Range(keys) = {Secret(Pay(words)), Secret(Stake(words))}
  BY RangeOf2
<1>2. /\ {k.of : k \in Range(keys)} = {Pay(words), Stake(words)}
      /\ Witnesses(keys, body.of) = more
      /\ KeysCheck(keys) = "None"
  <2> DEFINE W(k) == Witness(k.of, body.of)
  <2>1. W(Secret(Pay(words))) = Witness(Pay(words), body.of) /\ W(Secret(Stake(words))) = Witness(Stake(words), body.of)
    BY SecretIs
  <2>2. Witnesses(keys, body.of) = {W(k) : k \in {Secret(Pay(words)), Secret(Stake(words))}}
    BY <1>1 DEF Witnesses
  <2> HIDE DEF W
  <2>3. Witnesses(keys, body.of) = more
    BY <2>1, <2>2
  <2>4. {k.of : k \in {Secret(Pay(words)), Secret(Stake(words))}} = {Pay(words), Stake(words)}
    BY SecretIs
  <2>5. KeysCheck(keys) = "None"
    BY <1>1, SecretIs DEF KeysCheck, Check
  <2> QED
    BY <1>1, <2>3, <2>4, <2>5
<1>3. /\ UNCHANGED <<seen, body, tx>> /\ body # None
      /\ signed' = signed \cup {Pay(words), Stake(words)}
      /\ collected' = Merge(collected, WireCip30SignTx(<<unsigned, keys>>).ok)
  BY <1>2 DEF SignedWith
<1>4. unsigned = Hex("tx", unsigned.of) /\ unsigned.of.body = body.of
  BY DEF Hex
<1>5. WireCip30SignTx(<<unsigned, keys>>).ok = Hex("witnesses", [vkeys |-> more, scripts |-> {}])
  <2> HIDE DEF unsigned, more
  <2> QED
    BY <1>2, <1>4, KeysSignTx
<1>6. IsFiniteSet(more)
  <2> DEFINE a == Witness(Pay(words), body.of)
             b == Witness(Stake(words), body.of)
  <2> HIDE DEF a, b
  <2>1. IsFiniteSet({a})
    BY FS_Singleton
  <2>2. IsFiniteSet({a} \cup {b})
    BY <2>1, FS_AddElement
  <2>3. more = {a} \cup {b}
    BY DEF a, b
  <2> QED
    BY <2>2, <2>3
<1>7. Shaped(more)
  BY DEF Shaped, Witness
<1>8. \A k : Witness(k, body.of).signature.by = k
  BY DEF Witness, Sign
<1>9. signed' = signed \cup {w.signature.by : w \in more}
  <2>1. {w.signature.by : w \in more} = {Pay(words), Stake(words)}
    BY <1>8
  <2> QED
    BY <1>3, <2>1
<1>10. \A w \in more : Known(w)'
  <2> DEFINE wallets == {SoftWallet.keys.payment_signing_key, SoftWallet.keys.stake_signing_key}
                          \cup Range(FriendKeys)
  <2>1. Secret(Pay(words)) \in wallets /\ Secret(Stake(words)) \in wallets
    BY SoftWalletIs, SeededKeys, FriendKeysAre
  <2> HIDE DEF wallets
  <2>2. \A w \in more : \E k \in wallets : w = Witness(k.of, body.of)
    BY <2>1, SecretIs
  <2>3. \A w \in more : w.signature.by \in signed'
    BY <1>9
  <2>4. \A w \in more : OfSoft(w)
    BY <2>2 DEF OfSoft, wallets
  <2>5. \A w : OfSoft(w) => OfSoft(w)'
    BY <1>3 DEF OfSoft
  <2> QED
    BY <2>3, <2>4, <2>5 DEF Known
<1> HIDE DEF more, unsigned
<1> QED
  BY <1>3, <1>5, <1>6, <1>7, <1>9, <1>10, KeptMerged

LEMMA KeptSoftSign ==
  ASSUME TypeOK, WitnessesKept, SoftSign \/ CoSign
  PROVE  WitnessesKept'
<1>1. CASE SoftSign
  <2>1. SoftKeys = <<Secret(Pay("soft")), Secret(Stake("soft"))>> /\ SignedWith(SoftKeys)
    BY <1>1, KeysSign DEF SoftSign
  <2> QED
    BY <2>1, KeptSigned
<1>2. CASE CoSign
  <2>1. FriendKeys = <<Secret(Pay("friend")), Secret(Stake("friend"))>> /\ SignedWith(FriendKeys)
    BY <1>2, FriendKeysAre DEF CoSign
  <2> QED
    BY <2>1, KeptSigned
<1> QED
  BY <1>1, <1>2

LEMMA TypesHold == Init => TypeOK
<1> SUFFICES ASSUME Init PROVE TypeOK
  OBVIOUS
<1>1. CallTyped(call)
  BY IdleTyped DEF Init
<1>2. cache \in [Accounts -> {NoText} \cup {Xpub(d, a) : d \in seen, a \in Accounts}]
      /\ \A a \in Accounts : cache[a] \in {NoText} \cup {Xpub(d, a) : d \in seen}
  BY DEF Init
<1>3. body \in {None} \cup {Hex("body", b) : b \in Bodies}
  BY DEF Init
<1> QED
  BY <1>1, <1>2, <1>3 DEF Init, TypeOK, CallTyped, Questions

LEMMA TypesStay == TypeOK /\ [Next]_vars => TypeOK'
<1> SUFFICES ASSUME TypeOK, [Next]_vars PROVE TypeOK'
  OBVIOUS
<1>1. CASE UNCHANGED vars
  BY <1>1, TypesGrow DEF vars, TypeOK
<1>2. ASSUME NEW d \in Devices, Connect(d) PROVE TypeOK'
  <2>1. seen \subseteq seen' /\ seen' \subseteq Devices /\ conn' \in seen' /\ body # None
        /\ UNCHANGED <<cache, call, hard, soft, body>>
    BY <1>2 DEF Connect, TypeOK
  <2> QED
    BY <2>1, TypesGrow DEF TypeOK
<1>3. CASE Disconnect
  BY <1>3, TypesGrow DEF Disconnect, TypeOK
<1>4. CASE OpenSoft
  BY <1>4, TypesGrow DEF OpenSoft, TypeOK
<1>5. CASE SoftSign \/ CoSign \/ SignHere \/ Assemble \/ Attach
  <2>1. UNCHANGED <<conn, cache, seen, call, hard, soft, body>>
    BY <1>5 DEF SoftSign, CoSign, SignedWith, SignHere, Assemble, Attach
  <2> QED
    BY <2>1, TypesGrow DEF TypeOK
<1>6. CASE SignSomething \/ SignMessageHere
  <2>1. UNCHANGED <<conn, cache, seen, call, hard, soft, body>>
    BY <1>6 DEF SignSomething, SignMessageHere
  <2> QED
    BY <2>1, TypesGrow DEF TypeOK
<1> QED
  BY <1>1, <1>2, <1>3, <1>4, <1>5, <1>6, OpenHardTyped, XpubAnswerTyped, AskDeviceTyped,
     DeviceAnswerTyped, RebuildWitnessTyped, HardSignedTyped DEF Next

LEMMA KeptAtStart == Init => WitnessesKept
<1> SUFFICES ASSUME Init, body # None PROVE WitnessesKept
  BY DEF WitnessesKept
<1>1. PICK b \in Bodies : collected = Hex("witnesses", [EmptyWitnessSet EXCEPT !.scripts = Scripts(b)])
  BY DEF Init
<1>2. collected.of = [vkeys |-> {}, scripts |-> Scripts(b)]
  BY <1>1 DEF Hex, EmptyWitnessSet
<1>3. collected = Hex("witnesses", [vkeys |-> {}, scripts |-> Scripts(b)])
  BY <1>1 DEF EmptyWitnessSet
<1> QED
  BY <1>2, <1>3, FS_EmptySet DEF WitnessesKept, Init

LEMMA KeptStep == TypeOK /\ WitnessesKept /\ [Next]_vars => WitnessesKept'
<1> SUFFICES ASSUME TypeOK, WitnessesKept, [Next]_vars PROVE WitnessesKept'
  OBVIOUS
<1>1. CASE SignHere \/ Assemble \/ Attach
  BY <1>1, KeptHere DEF SignHere, Assemble, Attach
<1>2. CASE \/ UNCHANGED vars \/ \E d \in Devices : Connect(d)
           \/ Disconnect \/ OpenHard \/ XpubAnswer \/ AskDevice \/ DeviceAnswer \/ RebuildWitness
           \/ OpenSoft \/ SignSomething \/ SignMessageHere
  <2>1. UNCHANGED <<collected, signed, tx, body>> /\ seen \subseteq seen'
    BY <1>2 DEF vars, Connect, Disconnect, OpenHard, XpubAnswer, AskDevice, DeviceAnswer, RebuildWitness,
                OpenSoft, SignSomething, SignMessageHere
  <2> QED
    BY <2>1, KeptStays
<1> QED
  BY <1>1, <1>2, KeptHardSigned, KeptSoftSign DEF Next

(***************************************************************************)
(* Where a transaction came from.                                          *)
(***************************************************************************)

LEMMA BodyParsed ==
  ASSUME TypeOK, body # None, NEW err
  PROVE  Decoded(body, "body", err) = "None" /\ Cbor(body, "body") = "None"
<1>1. body = Hex("body", body.of)
  BY BodyIs
<1>2. Cbor(body, "body") = "None"
  BY <1>1 DEF Cbor, Check, IsHex, Hex
<1> QED
  BY <1>1, <1>2, HashDecodes

LEMMA AuxParsed ==
  ASSUME NEW b, NEW err
  PROVE  /\ Optional(AuxOf(b), Decoded(AuxOf(b), "aux", err)) = "None"
         /\ Optional(AuxOf(b), Cbor(AuxOf(b), "aux")) = "None"
<1>1. CASE AuxOf(b) = NoText
  BY <1>1 DEF Optional
<1>2. CASE AuxOf(b) = Hex("aux", "metadata")
  <2>1. Decoded(AuxOf(b), "aux", err) = "None"
    BY <1>2, HashDecodes
  <2>2. Cbor(AuxOf(b), "aux") = "None"
    BY <1>2 DEF Cbor, Check, IsHex, Hex
  <2> QED
    BY <2>1, <2>2 DEF Optional
<1> QED
  BY <1>1, <1>2 DEF AuxOf

LEMMA FirstOf3 ==
  ASSUME NEW a, NEW b, NEW c, a = "None", b = "None", c = "None"
  PROVE  First(<<a, b, c>>) = "None"
<1> DEFINE cs == <<a, b, c>>
<1>1. DOMAIN cs = {1, 2, 3} /\ cs[1] = a /\ cs[2] = b /\ cs[3] = c
  OBVIOUS
<1> HIDE DEF cs
<1>2. First(cs) = "None"
  BY <1>1, FirstOfNone
<1> QED
  BY <1>2 DEF cs

\* cip30_assemble_tx and the signing functions write the body anew.
LEMMA AssembledIs ==
  ASSUME TypeOK, body # None, NEW set, NEW aux,
         Optional(aux, Decoded(aux, "aux", "InvalidCbor")) = "None"
  PROVE  WireCip30AssembleTx(<<body, Hex("witnesses", set), aux>>).ok.of
           = [body |-> Rewritten(body.of), witnesses |-> set, aux |-> aux]
<1> DEFINE c1 == Decoded(body, "body", "InvalidCbor")
           c2 == Decoded(Hex("witnesses", set), "witnesses", "InvalidCbor")
           c3 == Optional(aux, Decoded(aux, "aux", "InvalidCbor"))
           v == Transaction(body.of, set, aux)
<1>1. c1 = "None" /\ c2 = "None" /\ c3 = "None"
  BY BodyParsed, HashDecodes
<1>2. Hex("witnesses", set).of = set
  BY DEF Hex
<1>3. WireCip30AssembleTx(<<body, Hex("witnesses", set), aux>>) = Unless(First(<<c1, c2, c3>>), v)
  BY <1>2 DEF WireCip30AssembleTx, Cip30AssembleTx
<1>4. v.of = [body |-> Rewritten(body.of), witnesses |-> set, aux |-> aux]
  BY DEF Transaction, Hex
<1> HIDE DEF c1, c2, c3, v
<1>5. First(<<c1, c2, c3>>) = "None"
  BY <1>1, FirstOf3
<1>6. WireCip30AssembleTx(<<body, Hex("witnesses", set), aux>>).ok = v
  BY <1>3, <1>5, UnlessNone
<1> QED
  BY <1>4, <1>6

LEMMA SignedIs ==
  ASSUME TypeOK, body # None, soft # None
  PROVE  WireSignTx(<<body, SoftKeys>>).ok.tx.of
           = [body |-> Rewritten(body.of), aux |-> NoText,
              witnesses |-> [vkeys |-> Witnesses(SoftKeys, body.of), scripts |-> {}]]
<1> DEFINE c1 == KeysCheck(SoftKeys)
           c2 == Cbor(body, "body")
           w == Witnesses(SoftKeys, body.of)
           v == [tx |-> Transaction(body.of, [EmptyWitnessSet EXCEPT !.vkeys = w], NoText),
                 hash |-> Blake2b(Rewritten(body.of))]
<1>1. c1 = "None" /\ c2 = "None"
  BY KeysSign, BodyParsed
<1>2. WireSignTx(<<body, SoftKeys>>) = Unless(First(<<c1, c2>>), v)
  BY DEF WireSignTx, SignTx
<1>3. v.tx.of = [body |-> Rewritten(body.of), aux |-> NoText, witnesses |-> [vkeys |-> w, scripts |-> {}]]
  BY VkeysPut DEF Transaction, Hex
<1> HIDE DEF c1, c2, v, w
<1>4. First(<<c1, c2>>) = "None"
  BY <1>1, FirstOf2
<1>5. WireSignTx(<<body, SoftKeys>>).ok = v
  BY <1>2, <1>4, UnlessNone
<1> QED
  BY <1>3, <1>5 DEF w

LEMMA MintedIs ==
  ASSUME TypeOK, WitnessesKept, body # None, soft # None
  PROVE  WireSignTxWithMetadata(<<body, <<Head(SoftKeys)>>, AuxOf(body.of), collected>>).ok.tx.of
           = [body |-> Rewritten(body.of), aux |-> AuxOf(body.of),
              witnesses |-> [vkeys |-> Witnesses(<<Head(SoftKeys)>>, body.of),
                             scripts |-> collected.of.scripts]]
<1> DEFINE keys == <<Head(SoftKeys)>>
           aux == AuxOf(body.of)
           c1 == KeysCheck(keys)
           c2 == Cbor(body, "body")
           c3 == Optional(collected, Cbor(collected, "witnesses"))
           c4 == Optional(aux, Cbor(aux, "aux"))
           w == Witnesses(keys, body.of)
           start == IF collected = NoText THEN EmptyWitnessSet ELSE collected.of
           v == [tx |-> Transaction(body.of, [start EXCEPT !.vkeys = w], aux),
                 hash |-> Blake2b(Rewritten(body.of))]
<1>1. collected = Hex("witnesses", [vkeys |-> collected.of.vkeys, scripts |-> collected.of.scripts])
  BY DEF WitnessesKept
<1>2. c1 = "None" /\ c2 = "None" /\ c4 = "None"
  BY KeysSign, BodyParsed, AuxParsed
<1>3. c3 = "None" /\ collected # NoText
  BY <1>1 DEF Optional, Cbor, Check, IsHex, Hex, NoText
<1>4. WireSignTxWithMetadata(<<body, keys, aux, collected>>) = Unless(First(<<c1, c2, c3, c4>>), v)
  BY DEF WireSignTxWithMetadata, SignTxWithMetadata
<1>5. [start EXCEPT !.vkeys = w] = [vkeys |-> w, scripts |-> collected.of.scripts]
  <2> DEFINE old == collected.of.vkeys
             scripts == collected.of.scripts
  <2>1. start = [vkeys |-> old, scripts |-> scripts]
    <3> HIDE DEF old, scripts
    <3>1. collected.of = [vkeys |-> old, scripts |-> scripts]
      BY <1>1 DEF Hex, old, scripts
    <3> QED
      BY <3>1, <1>3
  <2> HIDE DEF start, old, scripts
  <2>2. [start EXCEPT !.vkeys = w] = [vkeys |-> w, scripts |-> scripts]
    BY <2>1
  <2> QED
    BY <2>2 DEF scripts
<1>6. v.tx.of = [body |-> Rewritten(body.of), aux |-> aux,
                 witnesses |-> [vkeys |-> w, scripts |-> collected.of.scripts]]
  BY <1>5 DEF Transaction, Hex
<1> HIDE DEF c1, c2, c3, c4, v, w, aux, keys
<1>7. First(<<c1, c2, c3, c4>>) = "None"
  BY <1>2, <1>3, FirstOfLast4
<1>8. WireSignTxWithMetadata(<<body, keys, aux, collected>>).ok = v
  BY <1>4, <1>7, UnlessNone
<1> QED
  BY <1>6, <1>8 DEF w, aux, keys

\* Steps after the transaction is there.
LEMMA MadeStays ==
  ASSUME TxMade, UNCHANGED <<tx, body, collected, soft>>, signed \subseteq signed', seen \subseteq seen',
         tx # NoTx => call'.at \in {"idle", "opening"}
  PROVE  TxMade'
<1> SUFFICES ASSUME tx # NoTx PROVE TxMade'
  BY DEF TxMade
<1>1. SoftKeys' = SoftKeys
  BY DEF SoftKeys
<1>2. \A w : OfDevice(w) => OfDevice(w)'
  BY DeviceStays
<1>3. \A aux, witnesses : MadeOf(aux, witnesses) <=> MadeOf(aux, witnesses)'
  BY DEF MadeOf
<1>4. body # None /\ call'.at \in {"idle", "opening"}
  BY DEF TxMade
<1>5. CASE tx.route = "assemble" /\ MadeOf(AuxOf(body.of), collected.of)
  BY <1>4, <1>5 DEF TxMade, MadeOf
<1>6. CASE /\ tx.route = "attach"
           /\ tx.of = [body |-> body.of, aux |-> AuxOf(body.of),
                       witnesses |-> [collected.of EXCEPT !.scripts = Scripts(body.of)]]
  BY <1>4, <1>6 DEF TxMade
<1>7. CASE /\ tx.route = "device"
           /\ MadeOf(NoText, [vkeys |-> tx.of.witnesses.vkeys, scripts |-> {}])
           /\ \A w \in tx.of.witnesses.vkeys : OfDevice(w) /\ w.signature.by \in signed
  BY <1>2, <1>4, <1>7 DEF TxMade, MadeOf
<1>8. CASE /\ tx.route = "sign" /\ soft # None /\ body.of.parts \cap {"mint", "aux_hash"} = {}
           /\ MadeOf(NoText, [vkeys |-> Witnesses(SoftKeys, body.of), scripts |-> {}])
  BY <1>1, <1>4, <1>8 DEF TxMade, MadeOf
<1>9. CASE /\ tx.route = "mint" /\ soft # None
           /\ MadeOf(AuxOf(body.of), [vkeys |-> Witnesses(<<Head(SoftKeys)>>, body.of),
                                       scripts |-> collected.of.scripts])
  BY <1>1, <1>4, <1>9 DEF TxMade, MadeOf
<1> QED
  BY <1>5, <1>6, <1>7, <1>8, <1>9 DEF TxMade

\* The wallet is opened after the transaction is there.
LEMMA MadeBeforeOpening ==
  ASSUME TxMade, OpenSoft
  PROVE  TxMade'
<1> SUFFICES ASSUME tx # NoTx PROVE TxMade'
  BY DEF TxMade, OpenSoft
<1>1. UNCHANGED <<tx, body, collected, signed, seen, call>> /\ soft = None
  BY DEF OpenSoft
<1>2. \A w : OfDevice(w) => OfDevice(w)'
  BY <1>1, DeviceStays
<1>3. body # None /\ call'.at \in {"idle", "opening"}
  BY <1>1 DEF TxMade
<1>4. CASE tx.route = "assemble" /\ MadeOf(AuxOf(body.of), collected.of)
  BY <1>1, <1>3, <1>4 DEF TxMade, MadeOf
<1>5. CASE /\ tx.route = "attach"
           /\ tx.of = [body |-> body.of, aux |-> AuxOf(body.of),
                       witnesses |-> [collected.of EXCEPT !.scripts = Scripts(body.of)]]
  BY <1>1, <1>3, <1>5 DEF TxMade
<1>6. CASE /\ tx.route = "device"
           /\ MadeOf(NoText, [vkeys |-> tx.of.witnesses.vkeys, scripts |-> {}])
           /\ \A w \in tx.of.witnesses.vkeys : OfDevice(w) /\ w.signature.by \in signed
  BY <1>1, <1>2, <1>3, <1>6 DEF TxMade, MadeOf
<1> QED
  BY <1>1, <1>4, <1>5, <1>6 DEF TxMade

LEMMA MadeHere ==
  ASSUME TypeOK, WitnessesKept, SignHere
  PROVE  TxMade'
<1>1. /\ body # None /\ soft # None /\ call'.at = "idle"
      /\ UNCHANGED <<body, soft, collected>>
  BY DEF SignHere, Idle
<1>2. SoftKeys' = SoftKeys
  BY <1>1 DEF SoftKeys
<1>3. CASE /\ body.of.parts \cap {"mint", "aux_hash"} = {}
           /\ tx' = Final("sign", WireSignTx(<<body, SoftKeys>>).ok.tx)
  <2>1. tx'.route = "sign" /\ tx'.of = WireSignTx(<<body, SoftKeys>>).ok.tx.of
    BY <1>3 DEF Final
  <2>2. MadeOf(NoText, [vkeys |-> Witnesses(SoftKeys, body.of), scripts |-> {}])'
    BY <1>1, <1>2, <2>1, SignedIs DEF MadeOf
  <2> QED
    BY <1>1, <1>2, <1>3, <2>1, <2>2 DEF TxMade
<1>4. CASE tx' = Final("mint", WireSignTxWithMetadata(<<body, <<Head(SoftKeys)>>, AuxOf(body.of),
                                                       collected>>).ok.tx)
  <2>1. /\ tx'.route = "mint"
        /\ tx'.of = WireSignTxWithMetadata(<<body, <<Head(SoftKeys)>>, AuxOf(body.of), collected>>).ok.tx.of
    BY <1>4 DEF Final
  <2>2. MadeOf(AuxOf(body.of), [vkeys |-> Witnesses(<<Head(SoftKeys)>>, body.of),
                                scripts |-> collected.of.scripts])'
    BY <1>1, <1>2, <2>1, MintedIs DEF MadeOf
  <2> QED
    BY <1>1, <1>2, <2>1, <2>2 DEF TxMade
<1> QED
  BY <1>3, <1>4 DEF SignHere

LEMMA MadeByCaller ==
  ASSUME TypeOK, WitnessesKept, Assemble \/ Attach
  PROVE  TxMade'
<1>1. body # None /\ call'.at = "idle" /\ UNCHANGED <<body, collected>>
  BY DEF Assemble, Attach, Idle
<1>2. CASE Assemble
  <2> DEFINE set == collected.of
             aux == AuxOf(body.of)
  <2>1. collected = Hex("witnesses", set)
    BY <1>1 DEF WitnessesKept, Hex
  <2>2. /\ tx'.route = "assemble"
        /\ tx'.of = WireCip30AssembleTx(<<body, collected, aux>>).ok.of
    BY <1>2 DEF Assemble, Final
  <2>3. tx'.of = [body |-> Rewritten(body.of), witnesses |-> set, aux |-> aux]
    <3> HIDE DEF set, aux
    <3>1. Optional(aux, Decoded(aux, "aux", "InvalidCbor")) = "None"
      BY AuxParsed DEF aux
    <3>2. WireCip30AssembleTx(<<body, Hex("witnesses", set), aux>>).ok.of
            = [body |-> Rewritten(body.of), witnesses |-> set, aux |-> aux]
      BY <1>1, <3>1, AssembledIs
    <3> QED
      BY <2>1, <2>2, <3>2
  <2> QED
    BY <1>1, <2>2, <2>3 DEF TxMade, MadeOf
<1>3. CASE Attach
  BY <1>1, <1>3 DEF Attach, TxMade
<1> QED
  BY <1>2, <1>3

LEMMA MadeByDevice ==
  ASSUME TypeOK, WitnessesKept, TxMade, HardSigned
  PROVE  TxMade'
<1>1. /\ UNCHANGED <<body, soft, seen>> /\ body # None /\ call'.at = "idle"
      /\ call.at = "rebuilding"
      /\ signed' = signed \cup {w.signature.of.by : w \in Range(call.done)}
  BY InUse DEF HardSigned, Idle
<1>2. CASE UNCHANGED tx
  <2>1. tx = NoTx
    BY <1>1 DEF TxMade
  <2> QED
    BY <1>2, <2>1 DEF TxMade
<1>3. CASE tx' = Final("device", WireCip30AssembleTx(<<body, WireAssembleVkeyWitnessSet(<<call.done>>).ok,
                                                      NoText>>).ok)
  <2> DEFINE set == [vkeys |-> Given, scripts |-> {}]
  <2>1. /\ tx'.route = "device"
        /\ tx'.of = WireCip30AssembleTx(<<body, Hex("witnesses", set), NoText>>).ok.of
    BY <1>3, GivenBack DEF Final
  <2>2. tx'.of = [body |-> Rewritten(body.of), witnesses |-> set, aux |-> NoText]
    <3> HIDE DEF set
    <3>1. Optional(NoText, Decoded(NoText, "aux", "InvalidCbor")) = "None"
      BY DEF Optional
    <3> QED
      BY <1>1, <2>1, <3>1, AssembledIs
  <2>3. MadeOf(NoText, [vkeys |-> tx.of.witnesses.vkeys, scripts |-> {}])'
    <3>1. tx'.of.witnesses = [vkeys |-> tx'.of.witnesses.vkeys, scripts |-> {}]
      BY <2>2
    <3> HIDE DEF set
    <3>2. tx'.of = [body |-> Rewritten(body'.of), witnesses |-> tx'.of.witnesses, aux |-> NoText]
      BY <1>1, <2>2
    <3> QED
      BY <3>1, <3>2, Zenon DEF MadeOf
  <2>4. \A w \in tx'.of.witnesses.vkeys : OfDevice(w)' /\ w.signature.by \in signed'
    <3>1. tx'.of.witnesses.vkeys = Given
      BY <2>2
    <3>2. \A w \in Given : \E x \in Rebuilt : w = [vkey |-> x.vkey.of, signature |-> x.signature.of]
      BY GivenBack
    <3>3. \A w \in Given : w.signature.by \in signed'
      BY <1>1, GivenBack
    <3>4. Rebuilt' = Rebuilt
      BY <1>1, SetsStay
    <3> QED
      BY <3>1, <3>2, <3>3, <3>4 DEF OfDevice
  <2> QED
    BY <1>1, <2>1, <2>3, <2>4 DEF TxMade
<1> QED
  BY <1>2, <1>3 DEF HardSigned

LEMMA MadeStep == TypeOK /\ WitnessesKept /\ TxMade /\ [Next]_vars => TxMade'
<1> SUFFICES ASSUME TypeOK, WitnessesKept, TxMade, [Next]_vars PROVE TxMade'
  OBVIOUS
<1>1. CASE SoftSign \/ CoSign
  <2>1. tx = NoTx /\ tx' = NoTx
    BY <1>1 DEF SoftSign, CoSign, SignedWith
  <2> QED
    BY <2>1 DEF TxMade
<1>2. CASE \/ UNCHANGED vars \/ \E d \in Devices : Connect(d)
           \/ Disconnect \/ OpenHard \/ XpubAnswer \/ AskDevice \/ DeviceAnswer \/ RebuildWitness
           \/ SignSomething \/ SignMessageHere
  <2>1. UNCHANGED <<tx, body, collected, soft, signed>> /\ seen \subseteq seen'
    BY <1>2 DEF vars, Connect, Disconnect, OpenHard, XpubAnswer, AskDevice, DeviceAnswer, RebuildWitness,
                SignSomething, SignMessageHere
  <2>2. tx # NoTx => call'.at \in {"idle", "opening"}
    <3> SUFFICES ASSUME tx # NoTx PROVE call'.at \in {"idle", "opening"}
      OBVIOUS
    <3>1. call.at \in {"idle", "opening"} /\ Idle.at = "idle"
      BY DEF TxMade, Idle
    <3>2. CASE XpubAnswer
      BY <3>1, <3>2 DEF XpubAnswer
    <3>3. CASE OpenHard
      BY <3>1, <3>3 DEF OpenHard, Idle
    <3>4. CASE AskDevice \/ DeviceAnswer \/ RebuildWitness
      BY <3>1, <3>4 DEF AskDevice, DeviceAnswer, RebuildWitness
    <3>5. CASE \/ UNCHANGED vars \/ (\E d \in Devices : Connect(d))
               \/ Disconnect \/ SignSomething \/ SignMessageHere
      BY <3>1, <3>5 DEF vars, Connect, Disconnect, SignSomething, SignMessageHere
    <3> QED
      BY <1>2, <3>2, <3>3, <3>4, <3>5
  <2> QED
    BY <2>1, <2>2, MadeStays
<1> QED
  BY <1>1, <1>2, MadeBeforeOpening, MadeHere, MadeByCaller, MadeByDevice DEF Next

(***************************************************************************)
(* Data, and the derivations.                                              *)
(***************************************************************************)

LEMMA DataStep == SignedHere /\ [Next]_vars => SignedHere'
<1> SUFFICES ASSUME SignedHere, [Next]_vars PROVE SignedHere'
  OBVIOUS
<1> DEFINE Keys == Range(SoftKeys) \cup {Friend.payment_signing_key}
           Here(m) == \E k \in Keys, p \in Payloads :
              \/ \E a \in {soft.base, soft.reward, FriendAddress} : m = DataSigned(k, a, p)
              \/ \E a \in {NoText, soft.base, FriendAddress} : m = MessageSigned(k, a, p)
<1>1. (made # {} => soft # None) /\ \A m \in made : Here(m)
  BY DEF SignedHere
<1>2. UNCHANGED soft => Keys' = Keys
  BY DEF SoftKeys, Friend
<1>3. ASSUME UNCHANGED soft, \A m \in made' : Here(m), made' # {} => soft # None
      PROVE  SignedHere'
  BY <1>2, <1>3 DEF SignedHere, FriendAddress, Friend
<1>4. CASE OpenSoft
  <2>1. made' = {}
    BY <1>1, <1>4 DEF OpenSoft
  <2> QED
    BY <2>1 DEF SignedHere
<1>5. CASE SignSomething
  <2>1. PICK k \in Keys, a \in {soft.base, soft.reward, FriendAddress}, p \in Payloads :
          made' = made \cup {DataSigned(k, a, p)}
    BY <1>5 DEF SignSomething
  <2>2. Here(DataSigned(k, a, p))
    BY <2>1
  <2>3. UNCHANGED soft /\ soft # None
    BY <1>5 DEF SignSomething
  <2> HIDE DEF Here
  <2> QED
    BY <1>1, <1>3, <2>1, <2>2, <2>3
<1>6. CASE SignMessageHere
  <2>1. PICK k \in Keys, a \in {NoText, soft.base, FriendAddress}, p \in Payloads :
          made' = made \cup {MessageSigned(k, a, p)}
    BY <1>6 DEF SignMessageHere
  <2>2. Here(MessageSigned(k, a, p))
    BY <2>1
  <2>3. UNCHANGED soft /\ soft # None
    BY <1>6 DEF SignMessageHere
  <2> HIDE DEF Here
  <2> QED
    BY <1>1, <1>3, <2>1, <2>2, <2>3
<1>7. CASE UNCHANGED <<soft, made>>
  BY <1>1, <1>3, <1>7
<1> QED
  BY <1>4, <1>5, <1>6, <1>7
  DEF Next, vars, Connect, Disconnect, OpenHard, XpubAnswer, AskDevice, DeviceAnswer, RebuildWitness,
      HardSigned, SoftSign, CoSign, SignedWith, SignHere, Assemble, Attach

LEMMA AddressAgrees ==
  ASSUME NEW account_key
  PROVE  /\ WireDeriveAddress(<<Secret(account_key), 0, 0, Net>>).ok.address
              = Bech32("address", BaseAddress(0, Derive(account_key, 0, 0), Derive(account_key, 2, 0)))
         /\ WireDeriveAccountKey(<<Secret(account_key), 0, 0>>).ok
              = Bech32("xpub", Derive(account_key, 0, 0))
<1>1. Check(~IsKey(Secret(account_key)), "InvalidKey") = "None" /\ Secret(account_key).of = account_key
  BY DEF Check, IsKey, IsBech32, Secret, Bech32
<1> QED
  BY <1>1 DEF WireDeriveAddress, DeriveAddress, WireDeriveAccountKey, DeriveAccountKey, Unless, Ok, Net

LEMMA DerivationsFollow == TypeOK => DerivationsAgree
<1> SUFFICES ASSUME TypeOK PROVE DerivationsAgree
  OBVIOUS
<1>1. ASSUME soft # None
      PROVE  /\ soft.base = WireDeriveAddress(<<soft.keys.account_key, 0, 0, Net>>).ok.address
             /\ soft.keys.payment_key = WireDeriveAccountKey(<<soft.keys.account_key, 0, 0>>).ok
             /\ WireIsValidBech32(<<soft.base>>)
             /\ WireValidateAddress(<<soft.base>>).ok.network = "testnet"
  <2> DEFINE key == AccountKey(<<"soft", "">>, Harden(0))
  <2>1. /\ soft.base = BaseOf("soft") /\ soft.keys.account_key = Secret(key)
        /\ soft.keys.payment_key = Bech32("xpub", Pay("soft"))
    <3>1. soft = SoftWallet
      BY <1>1 DEF TypeOK
    <3>2. soft.keys = Seeded("soft").ok /\ soft.base = BaseOf("soft")
      BY <3>1, SoftWalletIs
    <3>3. /\ Seeded("soft").ok.account_key = Secret(key)
          /\ Seeded("soft").ok.payment_key = Bech32("xpub", Pay("soft"))
      BY SeededKeys
    <3> QED
      BY <3>2, <3>3
  <2>2. Pay("soft") = Derive(key, 0, 0) /\ Stake("soft") = Derive(key, 2, 0)
    BY DEF Pay, Stake, Key
  <2> HIDE DEF key
  <2>3. soft.base = WireDeriveAddress(<<soft.keys.account_key, 0, 0, Net>>).ok.address
    BY <2>1, <2>2, AddressAgrees DEF BaseOf
  <2>4. soft.keys.payment_key = WireDeriveAccountKey(<<soft.keys.account_key, 0, 0>>).ok
    BY <2>1, <2>2, AddressAgrees
  <2>5. IsValidBech32(BaseOf("soft")) /\ BaseOf("soft").of.net = 0
    BY DEF IsValidBech32, IsBech32, BaseOf, Bech32, BaseAddress
  <2>6. WireIsValidBech32(<<soft.base>>)
    BY <2>1, <2>5 DEF WireIsValidBech32
  <2>7. WireValidateAddress(<<soft.base>>).ok.network = "testnet"
    <3>1. BaseOf("soft").of.type = "base"
      BY DEF BaseOf, Bech32, BaseAddress
    <3> QED
      BY <2>1, <2>5, <3>1 DEF WireValidateAddress, ValidateAddress, Unless, Ok, Check
  <2> QED
    BY <2>3, <2>4, <2>6, <2>7
<1>2. ASSUME Cardinality(seen) <= 1, NEW d \in seen
      PROVE  /\ \A a \in Accounts : cache[a] \in {NoText, Xpub(d, a)}
             /\ hard # None =>
                 hard.base_address =
                   WireDeriveAddress(<<Bech32("xprv", AccountKey(DeviceSeed(d), Harden(0))), 0, 0, Net>>).ok.address
             /\ \A w \in Range(call.done) : w.vkey.of = w.signature.of.by
  <2>1. \A e \in seen : e = d
    BY <1>2, OneSeen
  <2>2. \A a \in Accounts : cache[a] \in {NoText, Xpub(d, a)}
    BY <2>1 DEF TypeOK
  <2>3. hard # None =>
          hard.base_address =
            WireDeriveAddress(<<Bech32("xprv", AccountKey(DeviceSeed(d), Harden(0))), 0, 0, Net>>).ok.address
    <3> SUFFICES ASSUME hard # None
                 PROVE  hard.base_address = WireDeriveAddress(
                          <<Bech32("xprv", AccountKey(DeviceSeed(d), Harden(0))), 0, 0, Net>>).ok.address
      OBVIOUS
    <3>1. hard = WireXpubToAccount(<<Xpub(d, 0), Net>>).ok
      <4>1. hard \in {WireXpubToAccount(<<Xpub(e, 0), Net>>).ok : e \in seen}
        BY DEF TypeOK
      <4>2. \A e \in seen : e = d
        BY <2>1
      <4> QED
        BY ONLY <4>1, <4>2
    <3> DEFINE key == AccountKey(DeviceSeed(d), Harden(0))
    <3>2. /\ Key(DeviceSeed(d), 0, 0) = Derive(key, 0, 0) /\ Key(DeviceSeed(d), 0, 2) = Derive(key, 2, 0)
          /\ Bech32("xprv", key) = Secret(key)
      BY DEF Key, Secret
    <3> HIDE DEF key
    <3>3. WireDeriveAddress(<<Secret(key), 0, 0, Net>>).ok.address
            = Bech32("address", BaseAddress(0, Derive(key, 0, 0), Derive(key, 2, 0)))
      BY AddressAgrees
    <3>4. WireDeriveAddress(<<Bech32("xprv", key), 0, 0, Net>>).ok.address = hard.base_address
      BY <3>1, <3>2, <3>3, AccountAgrees
    <3> QED
      BY <3>4 DEF key
  <2>4. \A w \in Range(call.done) : w.vkey.of = w.signature.of.by
    <3> TAKE w \in Range(call.done)
    <3>1. call.done \in Seq(Rebuilt)
      BY CallIsTyped DEF CallTyped
    <3>2. w \in Rebuilt
      BY <3>1, RangeOfSeq
    <3>3. PICK x \in seen, y \in seen, q \in Paths : w = RebuiltOf(x, y, q)
      BY <3>2, RebuiltIs
    <3> QED
      BY <2>1, <3>3 DEF RebuiltOf, Hex, Sign
  <2> QED
    BY <2>2, <2>3, <2>4
<1> QED
  BY <1>1, <1>2 DEF DerivationsAgree

(***************************************************************************)
(* Whatever the devices, the bodies and the order of the calls: the account *)
(* keys, addresses and witnesses of both wallets agree with the derivation  *)
(* from the seed; no signature is lost or made up on the way to a           *)
(* transaction; and a transaction and a signed message are what the calls   *)
(* that made them were given.                                              *)
(***************************************************************************)
THEOREM Invariance == Spec => []Inv
<1> DEFINE Core == TypeOK /\ WitnessesKept /\ TxMade /\ SignedHere
<1>1. Init => Core
  <2>1. Init => TxMade /\ SignedHere
    BY DEF Init, TxMade, SignedHere
  <2> QED
    BY <2>1, TypesHold, KeptAtStart
<1>2. Core /\ [Next]_vars => Core'
  BY TypesStay, KeptStep, MadeStep, DataStep
<1>3. Core => Inv
  BY DerivationsFollow, FitFollows DEF Inv
<1> QED
  BY <1>1, <1>2, <1>3, PTL DEF Spec

(***************************************************************************)
(* The ledger's rules.                                                     *)
(***************************************************************************)

LEMMA RulesRewritten ==
  ASSUME TypeOK, body # None
  PROVE  /\ Needed(Rewritten(body.of)) = Needed(body.of)
         /\ Scripts(Rewritten(body.of)) = Scripts(body.of)
         /\ AuxOf(Rewritten(body.of)) = AuxOf(body.of)
<1> DEFINE b == body.of
           r == Rewritten(body.of)
<1>1. r.pays = b.pays /\ r.parts = b.parts
  BY BodyIs
<1> HIDE DEF b, r
<1>2. Needed(r) = Needed(b) /\ Scripts(r) = Scripts(b) /\ AuxOf(r) = AuxOf(b)
  BY <1>1 DEF Needed, Scripts, AuxOf
<1> QED
  BY <1>2 DEF b, r

\* Some key of a wallet or of the device is always needed.
LEMMA NeededSome ==
  ASSUME TypeOK, body # None
  PROVE  Needed(body.of) # {}
<1>1. body.of.pays \in {"soft", "shared", "joint", "accounts"}
  BY BodyIs
<1>2. Key(DeviceSeed(Owner), 0, 0) \in {Key(DeviceSeed(Owner), a, 0) : a \in Accounts}
  BY FlowAssumption
<1>3. CASE body.of.pays = "soft"
  BY <1>3 DEF Needed
<1>4. CASE body.of.pays \in {"shared", "joint"}
  BY <1>4 DEF Needed
<1>5. CASE body.of.pays = "accounts"
  BY <1>2, <1>5 DEF Needed
<1> QED
  BY <1>1, <1>3, <1>4, <1>5

\* What a witness verifies for: the body as the library writes it, under the
\* key it was made with, and then its device was shown all of the body.
LEMMA VerifiedIs ==
  ASSUME TypeOK, body # None, NEW w, OfDevice(w) \/ OfSoft(w),
         NEW b, b = body.of \/ b = Rewritten(body.of), Verify(w.vkey, Blake2b(b), w.signature)
  PROVE  /\ b.form = "csl" /\ w.vkey = w.signature.by
         /\ \A d \in Devices : w.signature.by[1] = DeviceSeed(d) => Lossless(body.of)
<1>1. w.signature = Sign(w.vkey, Blake2b(b))
  BY DEF Verify
<1>2. w.vkey = w.signature.by /\ w.signature.over = Blake2b(b)
  BY <1>1 DEF Sign
<1>3. \A x, y : Blake2b(x) = Blake2b(y) => x = y
  <2> TAKE x, y
  <2>1. Blake2b(x).digest = x /\ Blake2b(y).digest = y
    BY DEF Blake2b
  <2> QED
    BY <2>1
<1>4. b.parts = body.of.parts
  BY BodyIs
<1>5. ASSUME NEW words \in {"soft", "friend"}, NEW k \in {Pay(words), Stake(words)}, w = Witness(k, body.of)
      PROVE  b.form = "csl" /\ \A d \in Devices : w.signature.by[1] # DeviceSeed(d)
  <2>1. w.signature.over = Blake2b(Rewritten(body.of)) /\ w.signature.by = k
    BY <1>5 DEF Witness, Sign
  <2>2. b = Rewritten(body.of)
    BY <1>2, <1>3, <2>1
  <2>3. b.form = "csl"
    BY <2>2, BodyIs
  <2>4. k[1] = <<words, "">>
    <3>1. \A seed, role : Key(seed, 0, role)[1] = seed
      BY DEF Key, Derive, AccountKey
    <3>2. k = Key(<<words, "">>, 0, 0) \/ k = Key(<<words, "">>, 0, 2)
      BY DEF Pay, Stake
    <3> QED
      BY <3>1, <3>2
  <2>5. \A d \in Devices : <<words, "">> # DeviceSeed(d)
    <3> TAKE d \in Devices
    <3>1. d # words
      BY FlowAssumption
    <3> QED
      BY <3>1 DEF DeviceSeed
  <2> QED
    BY <2>1, <2>3, <2>4, <2>5
<1>6. ASSUME NEW e \in seen, NEW p \in Paths, w.signature = Sign(DeviceKey(e, p), Blake2b(ShownBody))
      PROVE  b.form = "csl" /\ Lossless(body.of)
  <2>1. w.signature.over = Blake2b(ShownBody)
    BY <1>6 DEF Sign
  <2>2. b = ShownBody
    BY <1>2, <1>3, <2>1
  <2>3. /\ b.form = "csl"
        /\ b.parts = (body.of.parts \cap Reported) \cap {"ttl", "validity_start"}
    BY <2>2, DecomposedIs
  <2> QED
    BY <1>4, <2>3 DEF Lossless
<1> QED
  BY <1>2, <1>5, <1>6, WitnessIs

\* And when it verifies.
LEMMA Verifies ==
  ASSUME TypeOK, body # None, NEW w, OfDevice(w) \/ OfSoft(w), w.vkey = w.signature.by,
         \A d \in Devices : w.signature.by[1] = DeviceSeed(d) => Lossless(body.of)
  PROVE  Verify(w.vkey, Blake2b(Rewritten(body.of)), w.signature)
<1>1. ASSUME NEW k, w = Witness(k, body.of)
      PROVE  Verify(w.vkey, Blake2b(Rewritten(body.of)), w.signature)
  BY <1>1 DEF Witness, Verify, Sign
<1>2. ASSUME NEW e \in seen, NEW p \in Paths, w.signature = Sign(DeviceKey(e, p), Blake2b(ShownBody))
      PROVE  Verify(w.vkey, Blake2b(Rewritten(body.of)), w.signature)
  <2>1. w.signature.by = DeviceKey(e, p)
    BY <1>2 DEF Sign
  <2>2. w.signature.by[1] = DeviceSeed(e) /\ e \in Devices
    BY <2>1 DEF DeviceKey, Derive, AccountKey, TypeOK
  <2>3. ShownBody = Rewritten(body.of)
    BY <2>2, AllIsShown
  <2> QED
    BY <1>2, <2>1, <2>3 DEF Verify
<1> QED
  BY <1>1, <1>2, WitnessIs

LEMMA SameKey ==
  ASSUME TypeOK, body # None, Cardinality(seen) <= 1, NEW w, OfDevice(w) \/ OfSoft(w)
  PROVE  w.vkey = w.signature.by
<1>1. ASSUME NEW k, w = Witness(k, body.of) PROVE w.vkey = w.signature.by
  BY <1>1 DEF Witness, Sign
<1>2. ASSUME NEW d \in seen, NEW e \in seen, NEW p \in Paths, w.vkey = DeviceKey(d, p),
             w.signature = Sign(DeviceKey(e, p), Blake2b(ShownBody))
      PROVE  w.vkey = w.signature.by
  BY <1>2, OneSeen DEF Sign
<1> QED
  BY <1>1, <1>2, WitnessIs

\* A transaction: its body, and whose its witnesses are.
Carried(b) ==
    /\ tx.of.body = b
    /\ \A w \in tx.of.witnesses.vkeys : OfDevice(w) \/ OfSoft(w)
    /\ Signers = {w.signature.by : w \in tx.of.witnesses.vkeys}
    /\ ScriptsThere <=> Scripts(body.of) \subseteq tx.of.witnesses.scripts
    /\ tx.of.aux = AuxOf(body.of) \/ (tx.route = "device" /\ tx.of.aux = NoText)

LEMMA CollectedCarried ==
  ASSUME Inv, tx # NoTx, tx.route \in {"assemble", "attach"}
  PROVE  Carried(IF tx.route = "attach" THEN body.of ELSE Rewritten(body.of))
<1> DEFINE vkeys == collected.of.vkeys
           scripts == collected.of.scripts
<1>1. body # None
  BY DEF Inv, TxMade
<1>2. /\ collected = Hex("witnesses", [vkeys |-> vkeys, scripts |-> scripts])
      /\ \A w \in vkeys : Known(w)
      /\ signed \subseteq {w.signature.by : w \in vkeys}
  BY <1>1 DEF Inv, WitnessesKept
<1>3. signed = {w.signature.by : w \in vkeys} /\ \A w \in vkeys : OfDevice(w) \/ OfSoft(w)
  BY <1>2 DEF Known
<1>4. Signers = signed
  BY DEF Signers
<1>5. CASE tx.route = "assemble"
  <2>1. tx.of = [body |-> Rewritten(body.of), witnesses |-> collected.of, aux |-> AuxOf(body.of)]
    BY <1>5 DEF Inv, TxMade, MadeOf
  <2>2. ScriptsThere <=> Scripts(body.of) \subseteq collected.of.scripts
    BY <1>5 DEF ScriptsThere
  <2>3. /\ tx.of.body = Rewritten(body.of) /\ tx.of.aux = AuxOf(body.of)
        /\ tx.of.witnesses = collected.of
    BY <2>1
  <2> QED
    BY <1>3, <1>4, <1>5, <2>2, <2>3 DEF Carried
<1>6. CASE tx.route = "attach"
  <2> DEFINE set == [collected.of EXCEPT !.scripts = Scripts(body.of)]
  <2>1. tx.of = [body |-> body.of, aux |-> AuxOf(body.of), witnesses |-> set]
    BY <1>6 DEF Inv, TxMade
  <2>2. set.vkeys = vkeys /\ set.scripts = Scripts(body.of)
    <3>1. PICK v, s : collected.of = [vkeys |-> v, scripts |-> s]
      <4> HIDE DEF vkeys, scripts
      <4> QED
        BY <1>2 DEF Hex
    <3> QED
      BY <3>1
  <2>3. ScriptsThere
    BY <1>6 DEF ScriptsThere
  <2> HIDE DEF vkeys, set
  <2>4. tx.of.body = body.of /\ tx.of.aux = AuxOf(body.of) /\ tx.of.witnesses = set
    BY <2>1
  <2> QED
    BY <1>3, <1>4, <1>6, <2>2, <2>3, <2>4 DEF Carried
<1> QED
  BY <1>5, <1>6

LEMMA DeviceCarried ==
  ASSUME Inv, tx # NoTx, tx.route = "device"
  PROVE  Carried(Rewritten(body.of))
<1> DEFINE vkeys == tx.of.witnesses.vkeys
<1>1. /\ tx.of = [body |-> Rewritten(body.of), witnesses |-> [vkeys |-> vkeys, scripts |-> {}], aux |-> NoText]
      /\ \A w \in vkeys : OfDevice(w)
  BY DEF Inv, TxMade, MadeOf
<1>2. tx.of.body = Rewritten(body.of) /\ tx.of.aux = NoText /\ tx.of.witnesses.scripts = {}
  BY <1>1
<1>3. Signers = {w.signature.by : w \in vkeys}
  BY DEF Signers
<1>4. ScriptsThere <=> Scripts(body.of) = {}
  BY DEF ScriptsThere
<1> QED
  BY <1>1, <1>2, <1>3, <1>4 DEF Carried

LEMMA SignedCarried ==
  ASSUME Inv, tx # NoTx, tx.route \in {"sign", "mint"}
  PROVE  Carried(Rewritten(body.of))
<1>1. body # None /\ TypeOK /\ soft # None
  BY DEF Inv, TxMade
<1>2. \A k : Witness(k, body.of).signature.by = k
  BY DEF Witness, Sign
<1>3. OfSoft(Witness(Pay("soft"), body.of)) /\ OfSoft(Witness(Stake("soft"), body.of))
  <2> DEFINE wallets == {SoftWallet.keys.payment_signing_key, SoftWallet.keys.stake_signing_key}
                          \cup Range(FriendKeys)
  <2>1. Secret(Pay("soft")) \in wallets /\ Secret(Stake("soft")) \in wallets
    BY SoftWalletIs, SeededKeys
  <2> HIDE DEF wallets
  <2>2. /\ \E k \in wallets : Witness(Pay("soft"), body.of) = Witness(k.of, body.of)
        /\ \E k \in wallets : Witness(Stake("soft"), body.of) = Witness(k.of, body.of)
    BY <2>1, SecretIs
  <2> QED
    BY <2>2 DEF OfSoft, wallets
<1>4. CASE tx.route = "sign"
  <2> DEFINE vkeys == {Witness(Pay("soft"), body.of), Witness(Stake("soft"), body.of)}
  <2>1. /\ tx.of = [body |-> Rewritten(body.of), witnesses |-> [vkeys |-> vkeys, scripts |-> {}], aux |-> NoText]
        /\ body.of.parts \cap {"mint", "aux_hash"} = {}
    BY <1>1, <1>4, WitnessesOf DEF Inv, TxMade, MadeOf
  <2>2. AuxOf(body.of) = NoText
    BY <2>1 DEF AuxOf
  <2>3. Signers = {Pay("soft"), Stake("soft")}
    BY <1>1, <1>4, WitnessesOf DEF Signers
  <2>4. Signers = {w.signature.by : w \in vkeys}
    BY <1>2, <2>3
  <2>5. ScriptsThere <=> Scripts(body.of) \subseteq {}
    BY <1>4 DEF ScriptsThere
  <2>6. \A w \in vkeys : OfSoft(w)
    BY <1>3
  <2>7. /\ tx.of.body = Rewritten(body.of) /\ tx.of.aux = NoText
        /\ tx.of.witnesses.vkeys = vkeys /\ tx.of.witnesses.scripts = {}
    BY <2>1
  <2> HIDE DEF vkeys
  <2> QED
    BY <2>2, <2>4, <2>5, <2>6, <2>7 DEF Carried
<1>5. CASE tx.route = "mint"
  <2> DEFINE vkeys == {Witness(Pay("soft"), body.of)}
             scripts == collected.of.scripts
  <2>1. tx.of = [body |-> Rewritten(body.of), witnesses |-> [vkeys |-> vkeys, scripts |-> scripts],
                 aux |-> AuxOf(body.of)]
    BY <1>1, <1>5, WitnessesOf DEF Inv, TxMade, MadeOf
  <2>2. Signers = {Pay("soft")}
    BY <1>1, <1>5, KeysSign, SecretIs DEF Signers
  <2>3. Signers = {w.signature.by : w \in vkeys}
    BY <1>2, <2>2
  <2>4. ScriptsThere <=> Scripts(body.of) \subseteq scripts
    BY <1>5 DEF ScriptsThere
  <2>5. \A w \in vkeys : OfSoft(w)
    BY <1>3
  <2>6. /\ tx.of.body = Rewritten(body.of) /\ tx.of.aux = AuxOf(body.of)
        /\ tx.of.witnesses.vkeys = vkeys /\ tx.of.witnesses.scripts = scripts
    BY <2>1
  <2> HIDE DEF vkeys, scripts
  <2> QED
    BY <2>3, <2>4, <2>5, <2>6 DEF Carried
<1> QED
  BY <1>4, <1>5

LEMMA TxCarried ==
  ASSUME Inv, tx # NoTx
  PROVE  /\ body # None /\ TypeOK
         /\ \E b : /\ b = IF tx.route = "attach" THEN body.of ELSE Rewritten(body.of)
                   /\ Carried(b)
<1>1. body # None /\ TypeOK /\ tx.route \in {"assemble", "attach", "device", "sign", "mint"}
  BY DEF Inv, TxMade
<1>2. Carried(IF tx.route = "attach" THEN body.of ELSE Rewritten(body.of))
  BY <1>1, CollectedCarried, DeviceCarried, SignedCarried
<1> QED
  BY <1>1, <1>2

\* Both ways: what has these parts is accepted, ...
LEMMA CompleteAccepted ==
  ASSUME Inv, tx # NoTx, Needed(body.of) \subseteq Signers, ScriptsThere, ShownWhole, Attributed, AsWritten
  PROVE  Accepted(tx.of)
<1> DEFINE V == tx.of.witnesses.vkeys
<1>1. PICK b : /\ b = IF tx.route = "attach" THEN body.of ELSE Rewritten(body.of)
               /\ Carried(b)
  BY TxCarried
<1>2. body # None /\ TypeOK
  BY TxCarried
<1>3. b = Rewritten(body.of)
  BY <1>1, <1>2, BodyIs DEF AsWritten
<1>4. \A w \in V : w.vkey = w.signature.by
  BY <1>1, <1>2, SameKey DEF Attributed, Carried
<1>5. \A w \in V : \A d \in Devices : w.signature.by[1] = DeviceSeed(d) => Lossless(body.of)
  BY <1>1 DEF ShownWhole, Carried
<1>6. \A w \in V : Verify(w.vkey, Blake2b(b), w.signature)
  BY <1>1, <1>2, <1>3, <1>4, <1>5, Verifies DEF Carried
<1>7. Needed(b) = Needed(body.of) /\ Scripts(b) = Scripts(body.of) /\ AuxOf(b) = AuxOf(body.of)
  BY <1>2, <1>3, RulesRewritten
<1>8. Needed(body.of) \subseteq {w.vkey : w \in V}
  <2>1. Needed(body.of) \subseteq {w.signature.by : w \in V}
    BY <1>1 DEF Carried
  <2> HIDE DEF V
  <2> QED
    BY <1>4, <2>1
<1>9. tx.of.aux = AuxOf(body.of)
  <2> SUFFICES ASSUME tx.route = "device" /\ tx.of.aux = NoText PROVE AuxOf(body.of) = NoText
    BY <1>1 DEF Carried
  <2>1. \A w \in V : OfDevice(w)
    BY DEF Inv, TxMade
  <2>2. PICK w \in V : TRUE
    BY <1>2, <1>8, NeededSome
  <2>3. PICK x \in Rebuilt : w = [vkey |-> x.vkey.of, signature |-> x.signature.of]
    BY <2>1, <2>2 DEF OfDevice
  <2>4. PICK d \in seen, e \in seen, p \in Paths : x = RebuiltOf(d, e, p)
    BY <2>3, RebuiltIs
  <2>5. w.signature.by = DeviceKey(e, p)
    BY <2>3, <2>4 DEF RebuiltOf, Hex, Sign
  <2>6. w.signature.by[1] = DeviceSeed(e) /\ e \in Devices
    BY <1>2, <2>5 DEF DeviceKey, Derive, AccountKey, TypeOK
  <2>7. Lossless(body.of)
    BY <1>5, <2>2, <2>6
  <2> QED
    BY <2>7 DEF Lossless, AuxOf
<1>10. tx.of.body = b /\ Scripts(body.of) \subseteq tx.of.witnesses.scripts
  BY <1>1 DEF Carried
<1> HIDE DEF V
<1> QED
  BY <1>6, <1>7, <1>8, <1>9, <1>10 DEF Accepted, V

\* ... and nothing else.
LEMMA AcceptedComplete ==
  ASSUME Inv, tx # NoTx, Accepted(tx.of)
  PROVE  Needed(body.of) \subseteq Signers /\ ScriptsThere /\ ShownWhole /\ Attributed /\ AsWritten
<1> DEFINE V == tx.of.witnesses.vkeys
<1>1. PICK b : /\ b = IF tx.route = "attach" THEN body.of ELSE Rewritten(body.of)
               /\ Carried(b)
  BY TxCarried
<1>2. body # None /\ TypeOK
  BY TxCarried
<1>3. Needed(b) = Needed(body.of) /\ Scripts(b) = Scripts(body.of)
  BY <1>1, <1>2, RulesRewritten
<1>4. tx.of.body = b /\ Signers = {w.signature.by : w \in V}
  BY <1>1 DEF Carried
<1>5. \A w \in V : /\ b.form = "csl" /\ w.vkey = w.signature.by
                   /\ \A d \in Devices : w.signature.by[1] = DeviceSeed(d) => Lossless(body.of)
  <2> TAKE w \in V
  <2>1. Verify(w.vkey, Blake2b(b), w.signature)
    BY <1>4 DEF Accepted
  <2>2. OfDevice(w) \/ OfSoft(w)
    BY <1>1 DEF Carried
  <2>3. b = body.of \/ b = Rewritten(body.of)
    BY <1>1
  <2> QED
    BY <1>2, <2>1, <2>2, <2>3, VerifiedIs
<1>6. Needed(body.of) \subseteq {w.vkey : w \in V}
  BY <1>3, <1>4 DEF Accepted
<1> HIDE DEF V
<1>7. Needed(body.of) \subseteq Signers
  BY <1>4, <1>5, <1>6
<1>8. ScriptsThere
  BY <1>1, <1>3, <1>4 DEF Accepted, Carried
<1>9. ShownWhole
  BY <1>4, <1>5 DEF ShownWhole
<1>10. Attributed
  BY <1>5 DEF Attributed, V
<1>11. AsWritten
  <2> SUFFICES ASSUME tx.route = "attach" PROVE body.of.form = "csl"
    BY DEF AsWritten
  <2>1. PICK w \in V : TRUE
    BY <1>2, <1>6, NeededSome
  <2> QED
    BY <1>1, <1>5, <2>1
<1> QED
  BY <1>7, <1>8, <1>9, <1>10, <1>11

(***************************************************************************)
(* However it came about, whoever signed and in whatever order, a           *)
(* transaction is accepted exactly when every key it needs is among the     *)
(* signers whose witnesses it carries, with its scripts, shown whole, under *)
(* the right keys and in the bytes signed; what drops a co-signer's witness, *)
(* forgets a part or mixes two devices up is refused.                      *)
(***************************************************************************)
THEOREM SignaturesSuffice == Spec => []CompleteIsAccepted
<1>1. Inv => CompleteIsAccepted
  BY CompleteAccepted, AcceptedComplete DEF CompleteIsAccepted
<1> QED
  BY <1>1, Invariance, PTL

(***************************************************************************)
(* Whose a key and an address are.                                         *)
(***************************************************************************)

DataSigners == {Secret(Pay("soft")), Secret(Stake("soft")), Secret(Pay("friend"))}
Addresses == {BaseOf("soft"), RewardOf("soft"), BaseOf("friend")}

LEMMA KeysDiffer ==
  /\ Pay("soft") # Stake("soft") /\ Pay("soft") # Pay("friend") /\ Stake("soft") # Pay("friend")
  /\ Pay("friend") # Stake("friend") /\ Stake("friend") # Pay("soft") /\ Stake("friend") # Stake("soft")
  /\ Pay("soft")[1] = SoftSeed /\ Stake("soft")[1] = SoftSeed /\ Pay("friend")[1] # SoftSeed
  /\ Pay("friend")[1] = <<"friend", "">>
<1> DEFINE s == <<"soft", "">>
           f == <<"friend", "">>
           h == Harden(0)
<1>1. /\ Pay("soft") = <<s, h, 0, 0>> /\ Stake("soft") = <<s, h, 2, 0>>
      /\ Pay("friend") = <<f, h, 0, 0>> /\ Stake("friend") = <<f, h, 2, 0>>
  BY DEF Pay, Stake, Key, Derive, AccountKey
<1>2. s # f
  <2>1. s[1] = "soft" /\ f[1] = "friend"
    OBVIOUS
  <2> QED
    BY <2>1
<1>3. s = SoftSeed
  BY DEF SoftSeed
<1> HIDE DEF s, f, h
<1>4. /\ Pay("soft")[1] = s /\ Stake("soft")[1] = s /\ Pay("friend")[1] = f /\ Stake("friend")[1] = f
      /\ Pay("soft")[3] = 0 /\ Stake("soft")[3] = 2 /\ Pay("friend")[3] = 0 /\ Stake("friend")[3] = 2
  BY <1>1
<1> QED
  BY <1>2, <1>3, <1>4 DEF f

LEMMA RangeOf1 == ASSUME NEW a PROVE Range(<<a>>) = {a}
  BY DEF Range

\* The keys whose hashes an address holds.
LEMMA HashesIn ==
  ASSUME NEW words
  PROVE  /\ AddressCredentialHashes(BaseOf(words).of) = {Pay(words), Stake(words)}
         /\ AddressCredentialHashes(RewardOf(words).of) = {Stake(words)}
<1> DEFINE p == Pay(words)
           s == Stake(words)
           Held(creds) == {c.hash : c \in {d \in creds : d.of = "key"}}
<1>1. /\ BaseOf(words).of.creds = <<KeyCredential(p), KeyCredential(s)>>
      /\ RewardOf(words).of.creds = <<KeyCredential(s)>>
  BY DEF BaseOf, RewardOf, Bech32, BaseAddress, RewardAddress
<1>2. \A k : KeyCredential(k).of = "key" /\ KeyCredential(k).hash = k
  BY DEF KeyCredential
<1>3. /\ Range(BaseOf(words).of.creds) = {KeyCredential(p), KeyCredential(s)}
      /\ Range(RewardOf(words).of.creds) = {KeyCredential(s)}
  BY <1>1, RangeOf1, RangeOf2
<1> HIDE DEF p, s
<1>4. Held({KeyCredential(p), KeyCredential(s)}) = {p, s} /\ Held({KeyCredential(s)}) = {s}
  BY <1>2
<1> QED
  BY <1>3, <1>4 DEF AddressCredentialHashes, p, s

LEMMA AddressesDiffer ==
  /\ BaseOf("soft").of # RewardOf("soft").of /\ BaseOf("friend").of # RewardOf("soft").of
  /\ BaseOf("soft").of # BaseOf("friend").of
<1>1. \A w : BaseOf(w).of.type = "base" /\ RewardOf(w).of.type = "reward"
  BY DEF BaseOf, RewardOf, Bech32, BaseAddress, RewardAddress
<1>2. Pay("soft") \notin {Pay("friend"), Stake("friend")}
  BY KeysDiffer
<1>3. BaseOf("soft").of # BaseOf("friend").of
  BY <1>2, HashesIn
<1> QED
  BY <1>1, <1>3

\* An address holds the key's hash exactly if its owner has the key.
LEMMA OwnerIs ==
  ASSUME TypeOK, soft # None, NEW k \in DataSigners, NEW a \in Addresses, NEW t, t.of = a.of
  PROVE  Owns(k.of, t.of) <=> OwnerOf(k, t)
<1>1. /\ soft.base = BaseOf("soft") /\ soft.reward = RewardOf("soft")
      /\ soft.keys.stake_signing_key = Secret(Stake("soft"))
  <2>1. soft = SoftWallet
    BY DEF TypeOK
  <2> QED
    BY <2>1, SoftWalletIs, SeededKeys
<1>2. FriendAddress = BaseOf("friend") /\ Friend.account_key.of[1] = <<"friend", "">>
  <2>1. \A s, h : Secret(AccountKey(s, h)).of[1] = s
    BY DEF Secret, Bech32, AccountKey
  <2> QED
    BY <2>1, FriendIs
<1>3. \A x : Secret(x).of = x
  BY DEF Secret, Bech32
<1>4. k.of \in {Pay("soft"), Stake("soft"), Pay("friend")}
  BY <1>3 DEF DataSigners
<1>5. OwnerOf(k, t) <=> \/ k.of[1] = SoftSeed /\ t.of = BaseOf("soft").of
                        \/ k.of = Stake("soft") /\ t.of = RewardOf("soft").of
                        \/ k.of[1] = <<"friend", "">> /\ t.of = BaseOf("friend").of
  BY <1>1, <1>2, <1>3 DEF OwnerOf
<1>6. SoftSeed # <<"friend", "">>
  BY KeysDiffer
<1>7. CASE a = BaseOf("soft")
  <2>1. Owns(k.of, t.of) <=> k.of \in {Pay("soft"), Stake("soft")}
    BY <1>7, HashesIn DEF Owns
  <2>2. OwnerOf(k, t) <=> k.of[1] = SoftSeed
    BY <1>5, <1>7, AddressesDiffer
  <2> QED
    BY <1>4, <2>1, <2>2, KeysDiffer
<1>8. CASE a = RewardOf("soft")
  <2>1. Owns(k.of, t.of) <=> k.of = Stake("soft")
    BY <1>8, HashesIn DEF Owns
  <2>2. OwnerOf(k, t) <=> k.of = Stake("soft")
    BY <1>5, <1>8, AddressesDiffer
  <2> QED
    BY <2>1, <2>2
<1>9. CASE a = BaseOf("friend")
  <2>1. Owns(k.of, t.of) <=> k.of \in {Pay("friend"), Stake("friend")}
    BY <1>9, HashesIn DEF Owns
  <2>2. OwnerOf(k, t) <=> k.of[1] = <<"friend", "">>
    BY <1>5, <1>9, AddressesDiffer
  <2> QED
    BY <1>4, <1>6, <2>1, <2>2, KeysDiffer
<1> QED
  BY <1>7, <1>8, <1>9 DEF Addresses

(***************************************************************************)
(* Signed data.                                                            *)
(***************************************************************************)

LEMMA FirstOf3Middle ==
  ASSUME NEW a, NEW b, NEW c, a = "None", c = "None"
  PROVE  First(<<a, b, c>>) = b
<1> DEFINE cs == <<a, b, c>>
<1>1. DOMAIN cs = {1, 2, 3} /\ cs[1] = a /\ cs[2] = b /\ cs[3] = c
  OBVIOUS
<1>2. First(cs) = First(<<a, b, c>>)
  OBVIOUS
<1> HIDE DEF cs
<1>3. CASE b # "None"
  <2>1. \A i \in DOMAIN cs : i < 2 => cs[i] = "None"
    BY <1>1
  <2> QED
    BY <1>1, <1>2, <1>3, <2>1, FirstAt
<1>4. CASE b = "None"
  BY <1>1, <1>2, <1>4, FirstOfNone
<1> QED
  BY <1>3, <1>4

LEMMA FailsOf3 ==
  ASSUME NEW a, NEW b, NEW c, a # "None" \/ b # "None" \/ c # "None"
  PROVE  First(<<a, b, c>>) # "None"
<1> DEFINE cs == <<a, b, c>>
<1>1. DOMAIN cs = {1, 2, 3} /\ cs[1] = a /\ cs[2] = b /\ cs[3] = c
  OBVIOUS
<1>2. First(cs) = First(<<a, b, c>>)
  OBVIOUS
<1> HIDE DEF cs
<1>3. ASSUME NEW n \in {1, 2, 3}, cs[n] # "None", \A i \in {1, 2, 3} : i < n => cs[i] = "None"
      PROVE  First(cs) # "None"
  BY <1>1, <1>3, FirstAt
<1>4. CASE a # "None"
  BY <1>1, <1>2, <1>3, <1>4
<1>5. CASE a = "None" /\ b # "None"
  BY <1>1, <1>2, <1>3, <1>5
<1>6. CASE a = "None" /\ b = "None" /\ c # "None"
  BY <1>1, <1>2, <1>3, <1>6
<1> QED
  BY <1>4, <1>5, <1>6

\* Six checks of which the third or the fourth fails.
LEMMA FailsOf6 ==
  ASSUME NEW a, NEW b, NEW c, NEW d, NEW e, NEW f, c # "None" \/ d # "None"
  PROVE  First(<<a, b, c, d, e, f>>) # "None"
<1> DEFINE cs == <<a, b, c, d, e, f>>
           D == {1, 2, 3, 4, 5, 6}
<1>1. /\ DOMAIN cs = D /\ cs[1] = a /\ cs[2] = b /\ cs[3] = c
      /\ cs[4] = d /\ cs[5] = e /\ cs[6] = f
  OBVIOUS
<1>2. First(cs) = First(<<a, b, c, d, e, f>>)
  OBVIOUS
<1> HIDE DEF cs
<1>3. ASSUME NEW n \in D, cs[n] # "None", \A i \in D : i < n => cs[i] = "None"
      PROVE  First(cs) # "None"
  BY <1>1, <1>3, FirstAt
<1>4. CASE a # "None"
  BY <1>1, <1>2, <1>3, <1>4
<1>5. CASE a = "None" /\ b # "None"
  BY <1>1, <1>2, <1>3, <1>5
<1>6. CASE a = "None" /\ b = "None" /\ c # "None"
  BY <1>1, <1>2, <1>3, <1>6
<1>7. CASE a = "None" /\ b = "None" /\ c = "None" /\ d # "None"
  BY <1>1, <1>2, <1>3, <1>7
<1> QED
  BY <1>4, <1>5, <1>6, <1>7

\* Six checks of which only the second and the last can fail.
LEMMA FirstOf6 ==
  ASSUME NEW a, NEW b, NEW c, NEW d, NEW e, NEW f, a = "None", c = "None", d = "None", e = "None"
  PROVE  First(<<a, b, c, d, e, f>>) = IF b # "None" THEN b ELSE f
<1> DEFINE cs == <<a, b, c, d, e, f>>
           D == {1, 2, 3, 4, 5, 6}
<1>1. /\ DOMAIN cs = D /\ cs[1] = a /\ cs[2] = b /\ cs[3] = c
      /\ cs[4] = d /\ cs[5] = e /\ cs[6] = f
  OBVIOUS
<1>2. First(cs) = First(<<a, b, c, d, e, f>>)
  OBVIOUS
<1> HIDE DEF cs
<1>3. ASSUME NEW n \in D, cs[n] # "None", \A i \in D : i < n => cs[i] = "None"
      PROVE  First(cs) = cs[n]
  BY <1>1, <1>3, FirstAt
<1>4. CASE b # "None"
  <2>1. \A i \in D : i < 2 => cs[i] = "None"
    BY <1>1
  <2> QED
    BY <1>1, <1>2, <1>3, <1>4, <2>1
<1>5. CASE b = "None" /\ f # "None"
  <2>1. \A i \in D : i < 6 => cs[i] = "None"
    BY <1>1, <1>5
  <2> QED
    BY <1>1, <1>2, <1>3, <1>5, <2>1
<1>6. CASE b = "None" /\ f = "None"
  BY <1>1, <1>2, <1>6, FirstOfNone
<1> QED
  BY <1>4, <1>5, <1>6

Container(k, text, p) ==
  [protected |-> Protected(text), payload |-> p,
   signature |-> Sign(k.of, [protected |-> Protected(text), payload |-> p])]

TextOf(a) == Hex("address", a.of)

LEMMA TextIs ==
  ASSUME NEW a \in Addresses
  PROVE  WireAddressToHex(<<a>>).ok = TextOf(a)
<1>1. IsValidBech32(a)
  BY DEF Addresses, IsValidBech32, IsBech32, BaseOf, RewardOf, Bech32
<1> QED
  BY <1>1 DEF WireAddressToHex, AddressToHex, Unless, Ok, Check, TextOf

LEMMA SignerIsKey ==
  ASSUME NEW k \in DataSigners
  PROVE  Check(~IsKey(k), "InvalidKey") = "None"
  BY DEF DataSigners, Secret, Bech32, IsKey, IsBech32, Check

LEMMA DataIs ==
  ASSUME NEW k \in DataSigners, NEW a \in Addresses, NEW p \in Payloads
  PROVE  /\ DataSigned(k, a, p).what = "data" /\ DataSigned(k, a, p).key = k
         /\ DataSigned(k, a, p).address = TextOf(a) /\ DataSigned(k, a, p).payload = p
         /\ DataSigned(k, a, p).of.signature = Hex("cose_sign1", Container(k, TextOf(a), p))
         /\ DataSigned(k, a, p).of.key = Hex("cose_key", k.of)
<1> DEFINE c1 == HexToBytes(TextOf(a))
           c2 == HexToBytes(p)
           c3 == Check(~IsKey(k), "InvalidKey")
           v == [signature |-> Hex("cose_sign1", Container(k, TextOf(a), p)), key |-> Hex("cose_key", k.of)]
<1>1. c1 = "None" /\ c2 = "None" /\ c3 = "None"
  <2>1. c1 = "None"
    BY DEF HexToBytes, Check, TextOf, Hex
  <2>2. c2 = "None"
    BY FlowAssumption DEF HexToBytes, Check
  <2> QED
    BY <2>1, <2>2, SignerIsKey
<1>2. WireCip30SignData(<<TextOf(a), p, k>>) = Unless(First(<<c1, c2, c3>>), v)
  BY DEF WireCip30SignData, Cip30SignData, Container, SignatureData
<1>3. v.signature = Hex("cose_sign1", Container(k, TextOf(a), p)) /\ v.key = Hex("cose_key", k.of)
  OBVIOUS
<1> HIDE DEF c1, c2, c3, v
<1>4. First(<<c1, c2, c3>>) = "None"
  BY <1>1, FirstOf3
<1>5. WireCip30SignData(<<TextOf(a), p, k>>).ok = v
  BY <1>2, <1>4, UnlessNone
<1>6. DataSigned(k, a, p) = [what |-> "data", key |-> k, address |-> TextOf(a), payload |-> p, of |-> v]
  BY <1>5, TextIs DEF DataSigned
<1> QED
  BY <1>3, <1>6

\* What verification says of a container, a key, and what is expected.
LEMMA DataVerified ==
  ASSUME NEW k \in DataSigners, NEW a \in Addresses, NEW q \in Payloads, NEW j \in DataSigners,
         NEW p \in Payloads \cup {NoText}, NEW e, e.enc \in {"none", "hex", "bech32"},
         e.enc = "none" => e = NoText, NEW result,
         result = WireCip30VerifyData(<<[signature |-> Hex("cose_sign1", Container(k, TextOf(a), q)),
                                         key |-> Hex("cose_key", j.of)], p, e>>)
  PROVE  /\ p \notin {NoText, q} => result.err = "None" /\ ~result.ok
         /\ p \in {NoText, q} /\ e.enc = "bech32" => result.err = "InvalidParameter"
         /\ p \in {NoText, q} /\ e.enc = "hex" /\ e # TextOf(a) => result.err = "None" /\ ~result.ok
         /\ p \in {NoText, q} /\ e \in {NoText, TextOf(a)} =>
               result.err = "None" /\ (result.ok <=> Owns(j.of, TextOf(a).of) /\ k.of = j.of)
<1> DEFINE cose == Container(k, TextOf(a), q)
           key == Hex("cose_key", j.of)
           c1 == Check(cose.protected.alg \notin {"none", "EdDSA"}, "False")
           c2 == PayloadCheck(cose.payload, p)
           c3 == CoseKeyCheck(key)
           c4 == Check(cose.signature = NoText, "InvalidCbor")
           c5 == Check(cose.protected.address = NoText /\ e # NoText, "False")
           c6 == IF cose.protected.address = NoText THEN "None"
                 ELSE First(<<Optional(e, First(<<HexToBytes(e), Check(e # cose.protected.address, "False")>>)),
                              Check(~IsHex(cose.protected.address, "address"), "InvalidAddress")>>)
           valid == /\ cose.protected.address = NoText \/ Owns(key.of, cose.protected.address.of)
                    /\ Verify(key.of, SignatureData(cose), cose.signature)
           v == WireCip30VerifyData(<<[signature |-> Hex("cose_sign1", cose), key |-> key], p, e>>)
<1>1. /\ cose.protected.alg = "EdDSA" /\ cose.protected.address = TextOf(a) /\ cose.payload = q
      /\ cose.signature = Sign(k.of, SignatureData(cose)) /\ key.of = j.of
  BY DEF Container, Protected, SignatureData, Hex
<1>2. /\ q.enc = "hex" /\ q # NoText /\ TextOf(a).enc = "hex" /\ TextOf(a).kind = "address"
      /\ TextOf(a) # NoText
  BY FlowAssumption DEF TextOf, Hex, NoText
<1>3. c1 = "None" /\ c3 = "None" /\ c4 = "None" /\ c5 = "None"
  <2>1. c3 = "None"
    <3>1. HexToBytes(key) = "None" /\ key.kind = "cose_key"
      BY DEF HexToBytes, Check, Hex
    <3>2. /\ Check(key.kind \notin {"cose_key", "other cose_key"}, "InvalidCbor") = "None"
          /\ Check(key.kind = "other cose_key", "InvalidKey") = "None"
      BY <3>1 DEF Check
    <3> HIDE DEF key
    <3> QED
      BY <3>1, <3>2, FirstOf3 DEF CoseKeyCheck
  <2>2. \A x, y : Sign(x, y) # NoText
    BY DEF Sign, NoText
  <2> HIDE DEF cose, key
  <2> QED
    BY <1>1, <1>2, <2>1, <2>2 DEF Check
<1>4. c2 = IF p \in {NoText, q} THEN "None" ELSE "False"
  <2>1. CASE p = NoText
    BY <1>1, <1>2, <2>1 DEF PayloadCheck, Check
  <2>2. CASE p # NoText
    <3> DEFINE d1 == HexToBytes(p)
               d2 == Check(p # q, "False")
               d3 == Check(q = NoText, "InvalidCbor")
    <3>1. p.enc = "hex"
      BY <2>2, FlowAssumption
    <3>2. d1 = "None" /\ d3 = "None"
      BY <1>2, <3>1 DEF HexToBytes, Check
    <3>3. c2 = First(<<d1, d2, d3>>)
      <4> HIDE DEF cose
      <4> QED
        BY <1>1, <1>2, <2>2 DEF PayloadCheck
    <3>4. d2 = IF p = q THEN "None" ELSE "False"
      BY DEF Check
    <3> HIDE DEF d1, d2, d3, c2
    <3>5. c2 = d2
      BY <3>2, <3>3, FirstOf3Middle
    <3> QED
      BY <2>2, <3>4, <3>5
  <2> QED
    BY <2>1, <2>2
<1>5. c6 = IF e \in {NoText, TextOf(a)} THEN "None" ELSE IF e.enc = "bech32" THEN "InvalidParameter" ELSE "False"
  <2> DEFINE ce == Optional(e, First(<<HexToBytes(e), Check(e # TextOf(a), "False")>>))
             cf == Check(~IsHex(TextOf(a), "address"), "InvalidAddress")
  <2>1. cf = "None"
    BY <1>2 DEF Check, IsHex
  <2>2. c6 = First(<<ce, cf>>)
    <3> HIDE DEF cose
    <3> QED
      BY <1>1, <1>2
  <2>3. c6 = ce
    <3> HIDE DEF ce, cf, c6
    <3> QED
      BY <2>1, <2>2, FirstOf2
  <2>4. CASE e = NoText
    BY <2>3, <2>4 DEF Optional
  <2>5. CASE e # NoText
    <3>1. ce = IF HexToBytes(e) # "None" THEN HexToBytes(e) ELSE Check(e # TextOf(a), "False")
      BY <2>5, FirstOf2 DEF Optional
    <3>2. HexToBytes(e) = IF e.enc = "hex" THEN "None" ELSE "InvalidParameter"
      BY DEF HexToBytes, Check
    <3>3. Check(e # TextOf(a), "False") = IF e = TextOf(a) THEN "None" ELSE "False"
      BY DEF Check
    <3> HIDE DEF ce, c6
    <3> QED
      BY <1>2, <2>3, <2>5, <3>1, <3>2, <3>3
  <2> QED
    BY <2>4, <2>5
<1>6. valid <=> Owns(j.of, TextOf(a).of) /\ k.of = j.of
  <2>1. \A x, y, z : Verify(x, z, Sign(y, z)) <=> x = y
    <3>1. \A x, y, z : Sign(y, z) = Sign(x, z) <=> x = y
      <4>1. \A x, z : Sign(x, z).by = x
        BY DEF Sign
      <4> QED
        BY <4>1
    <3> QED
      BY <3>1 DEF Verify
  <2> HIDE DEF cose, key
  <2> QED
    BY <1>1, <1>2, <2>1
<1>7. v = Answer(First(<<c1, c2, c3, c4, c5, c6>>), valid)
  <2>1. Decoded(Hex("cose_sign1", cose), "cose_sign1", "InvalidCbor") = "None"
    BY HashDecodes
  <2>2. Hex("cose_sign1", cose).of = cose
    BY DEF Hex
  <2> HIDE DEF cose, key
  <2> QED
    BY <2>1, <2>2 DEF WireCip30VerifyData, Cip30VerifyData, CoseChecks
<1> HIDE DEF c1, c2, c3, c4, c5, c6
<1>8. First(<<c1, c2, c3, c4, c5, c6>>) = IF c2 # "None" THEN c2 ELSE c6
  BY <1>3, FirstOf6
<1> HIDE DEF valid, v
<1>9. v = Answer(IF c2 # "None" THEN c2 ELSE c6, valid)
  BY <1>7, <1>8
<1>10. p \notin {NoText, q} => v = Ok(FALSE)
  BY <1>4, <1>9 DEF Answer
<1>11. p \in {NoText, q} /\ e.enc = "bech32" => v = Failed("InvalidParameter")
  <2>1. NoText.enc = "none"
    BY DEF NoText
  <2> QED
    BY <1>2, <1>4, <1>5, <1>9, <2>1 DEF Answer, Unless
<1>12. p \in {NoText, q} /\ e.enc = "hex" /\ e # TextOf(a) => v = Ok(FALSE)
  <2>1. NoText.enc = "none"
    BY DEF NoText
  <2> QED
    BY <1>4, <1>5, <1>9, <2>1 DEF Answer
<1>13. p \in {NoText, q} /\ e \in {NoText, TextOf(a)} => v = Ok(Owns(j.of, TextOf(a).of) /\ k.of = j.of)
  <2> SUFFICES ASSUME p \in {NoText, q}, e \in {NoText, TextOf(a)}
               PROVE  v = Ok(Owns(j.of, TextOf(a).of) /\ k.of = j.of)
    OBVIOUS
  <2>1. v = Ok(valid)
    BY <1>4, <1>5, <1>9 DEF Answer, Unless
  <2> QED
    BY <1>6, <2>1, Zenon
<1>14. /\ \A x : Ok(x).err = "None" /\ Ok(x).ok = x
       /\ Failed("InvalidParameter").err = "InvalidParameter"
  BY DEF Ok, Failed
<1>15. p \notin {NoText, q} => v.err = "None" /\ ~v.ok
  BY <1>10, <1>14
<1>16. p \in {NoText, q} /\ e.enc = "hex" /\ e # TextOf(a) => v.err = "None" /\ ~v.ok
  BY <1>12, <1>14
<1>17. p \in {NoText, q} /\ e \in {NoText, TextOf(a)} =>
         v.err = "None" /\ (v.ok <=> Owns(j.of, TextOf(a).of) /\ k.of = j.of)
  BY <1>13, <1>14, Zenon
<1>18. v = result
  BY DEF v
<1> QED
  BY <1>11, <1>14, <1>15, <1>16, <1>17, <1>18

\* A key or a signature that is none is not verified with.
LEMMA DamageRefused ==
  ASSUME NEW sig, NEW key, NEW p, NEW e, CoseKeyCheck(key) # "None" \/ sig.of.signature = NoText
  PROVE  WireCip30VerifyData(<<[signature |-> sig, key |-> key], p, e>>) # Ok(TRUE)
<1> DEFINE v == WireCip30VerifyData(<<[signature |-> sig, key |-> key], p, e>>)
           form == Decoded(sig, "cose_sign1", "InvalidCbor")
           cose == sig.of
           checked == First(CoseChecks(cose, key, p, e))
           valid == /\ cose.protected.address = NoText \/ Owns(key.of, cose.protected.address.of)
                    /\ Verify(key.of, SignatureData(cose), cose.signature)
<1>1. v = IF form # "None" THEN Failed(form) ELSE Answer(checked, valid)
  BY DEF WireCip30VerifyData, Cip30VerifyData
<1>2. checked # "None"
  <2>1. CoseKeyCheck(key) # "None" \/ Check(cose.signature = NoText, "InvalidCbor") # "None"
    BY DEF Check
  <2> HIDE DEF cose
  <2> QED
    BY <2>1, FailsOf6 DEF CoseChecks
<1>3. \A x : x # "None" => Failed(x) # Ok(TRUE)
  BY DEF Failed, Ok
<1>4. Ok(FALSE) # Ok(TRUE)
  <2>1. Ok(FALSE).ok = FALSE /\ Ok(TRUE).ok = TRUE
    BY DEF Ok
  <2> QED
    BY <2>1
<1> HIDE DEF form, checked, valid
<1>5. Answer(checked, valid) # Ok(TRUE)
  <2>1. Answer(checked, valid) = IF checked = "False" THEN Ok(FALSE) ELSE Failed(checked)
    BY <1>2 DEF Answer, Unless
  <2> QED
    BY <1>2, <1>3, <1>4, <2>1
<1> QED
  BY <1>1, <1>3, <1>5 DEF v

LEMMA DamagedRefused ==
  ASSUME NEW m, NEW c, m.of.signature = Hex("cose_sign1", c), NEW s, NEW x, NEW y,
         c = [protected |-> x, payload |-> y, signature |-> s],
         NEW d \in DamagedData(m), NEW p, NEW e
  PROVE  WireCip30VerifyData(<<d, p, e>>) # Ok(TRUE)
<1>1. CASE \E k \in {Junk, m.of.signature, OtherCoseKey} : d = [signature |-> m.of.signature, key |-> k]
  <2>1. PICK k \in {Junk, m.of.signature, OtherCoseKey} : d = [signature |-> m.of.signature, key |-> k]
    BY <1>1
  <2> DEFINE d1 == HexToBytes(k)
             d2 == Check(k.kind \notin {"cose_key", "other cose_key"}, "InvalidCbor")
             d3 == Check(k.kind = "other cose_key", "InvalidKey")
  <2>2. d1 # "None" \/ d2 # "None" \/ d3 # "None"
    <3>1. k.enc = "junk" \/ k.kind \in {"cose_sign1", "other cose_key"}
      <4>1. Junk.enc = "junk" /\ OtherCoseKey.kind = "other cose_key"
        BY DEF Junk, OtherCoseKey, Hex
      <4>2. \A z : Hex("cose_sign1", z).kind = "cose_sign1"
        BY DEF Hex
      <4>3. m.of.signature.kind = "cose_sign1"
        BY <4>2
      <4> QED
        BY <2>1, <4>1, <4>3
    <3> QED
      BY <3>1 DEF HexToBytes, Check
  <2>3. CoseKeyCheck(k) = First(<<d1, d2, d3>>)
    BY DEF CoseKeyCheck
  <2> HIDE DEF d1, d2, d3
  <2>4. CoseKeyCheck(k) # "None"
    BY <2>2, <2>3, FailsOf3
  <2> QED
    BY <2>1, <2>4, DamageRefused
<1>2. CASE d = [signature |-> [m.of.signature EXCEPT !.of.signature = NoText], key |-> m.of.key]
  <2> DEFINE sig == [m.of.signature EXCEPT !.of.signature = NoText]
  <2>1. sig.of.signature = NoText
    BY DEF Hex
  <2> HIDE DEF sig
  <2> QED
    BY <1>2, <2>1, DamageRefused DEF sig
<1> QED
  BY <1>1, <1>2 DEF DamagedData

LEMMA MessageIs ==
  ASSUME NEW k, NEW a, NEW p
  PROVE  /\ MessageSigned(k, a, p).what = "message" /\ MessageSigned(k, a, p).key = k
         /\ MessageSigned(k, a, p).address = a
  BY DEF MessageSigned

\* A container of one signature with the key, and maybe the address, of another.
Mixed(k, p, j, a) ==
  [cose_sign1 |-> Hex("container", [message |-> p, signature |-> Sign(k.of, Blake2b(p))]),
   public_key |-> Hex("public key", j.of), address |-> a]

LEMMA MessageHolds ==
  ASSUME NEW k \in DataSigners, NEW a, NEW p \in Payloads
  PROVE  MessageSigned(k, a, p).of = Mixed(k, p, k, a)
<1> DEFINE c1 == HexToBytes(p)
           c2 == Check(~IsKey(k), "InvalidKey")
           v == Mixed(k, p, k, a)
<1>1. c1 = "None" /\ c2 = "None"
  <2>1. c1 = "None"
    BY FlowAssumption DEF HexToBytes, Check
  <2> QED
    BY <2>1, SignerIsKey
<1>2. WireSignMessage(<<p, k, a>>) = Unless(First(<<c1, c2>>), v)
  BY DEF WireSignMessage, SignMessage, Mixed
<1> HIDE DEF c1, c2, v
<1>3. First(<<c1, c2>>) = "None"
  BY <1>1, FirstOf2
<1>4. WireSignMessage(<<p, k, a>>).ok = v
  BY <1>2, <1>3, UnlessNone
<1>5. MessageSigned(k, a, p) = [what |-> "message", key |-> k, address |-> a, payload |-> p, of |-> v]
  BY <1>4 DEF MessageSigned
<1> QED
  BY <1>5 DEF v

LEMMA MessageVerified ==
  ASSUME NEW k \in DataSigners, NEW a \in Addresses \cup {NoText}, NEW p \in Payloads, NEW j \in DataSigners, NEW e,
         NEW truth \in BOOLEAN,
         truth <=> /\ e \in {NoText, a}
                   /\ a = NoText \/ Owns(j.of, a.of)
                   /\ k.of = j.of
  PROVE  WireVerifyMessage(<<Mixed(k, p, j, a), e>>) = Ok(truth)
<1> DEFINE content == [message |-> p, signature |-> Sign(k.of, Blake2b(p))]
           container == Hex("container", content)
           key == Hex("public key", j.of)
           c1 == Optional(e, Check(e # a, "False"))
           c2 == Decoded(container, "container", "InvalidCbor")
           c3 == Check(~IsHex(key, "public key"), "InvalidKey")
           c4 == Optional(a, Check(~IsValidBech32(a), "InvalidAddress"))
           valid == /\ a = NoText \/ Owns(key.of, a.of)
                    /\ Verify(key.of, Blake2b(container.of.message), container.of.signature)
           signed_message == [cose_sign1 |-> container, public_key |-> key, address |-> a]
           all == /\ e \in {NoText, a}
                  /\ a = NoText \/ Owns(j.of, a.of)
                  /\ k.of = j.of
<1>1. c2 = "None"
  BY HashDecodes
<1>2. c3 = "None"
  BY DEF Check, IsHex, Hex
<1>3. c4 = "None"
  <2>1. CASE a = NoText
    BY <2>1 DEF Optional
  <2>2. CASE a \in Addresses
    <3>1. IsValidBech32(a)
      BY <2>2 DEF Addresses, IsValidBech32, IsBech32, BaseOf, RewardOf, Bech32
    <3> QED
      BY <3>1 DEF Check, Optional
  <2> QED
    BY <2>1, <2>2
<1>4. c1 = IF e \in {NoText, a} THEN "None" ELSE "False"
  BY DEF Optional, Check
<1>5. signed_message.cose_sign1 = container /\ signed_message.public_key = key /\ signed_message.address = a
  OBVIOUS
<1>6. WireVerifyMessage(<<signed_message, e>>) = Answer(First(<<c1, c2, c3, c4>>), valid)
  <2> HIDE DEF signed_message, container, key
  <2> QED
    BY <1>5 DEF WireVerifyMessage, VerifyMessage
<1>7. valid <=> (a = NoText \/ Owns(j.of, a.of)) /\ k.of = j.of
  <2>1. \A x, y, z : Verify(x, z, Sign(y, z)) <=> x = y
    <3>1. \A x, y, z : Sign(y, z) = Sign(x, z) <=> x = y
      <4>1. \A x, z : Sign(x, z).by = x
        BY DEF Sign
      <4> QED
        BY <4>1
    <3> QED
      BY <3>1 DEF Verify
  <2>2. container.of.message = p /\ container.of.signature = Sign(k.of, Blake2b(p)) /\ key.of = j.of
    BY DEF Hex
  <2> HIDE DEF container, key
  <2> QED
    BY <2>1, <2>2
<1> HIDE DEF c1, c2, c3, c4, valid
<1>8. First(<<c1, c2, c3, c4>>) = c1
  BY <1>1, <1>2, <1>3, FirstOfLast4
<1>9. WireVerifyMessage(<<signed_message, e>>) = Ok(all)
  <2>1. CASE e \in {NoText, a}
    <3>1. WireVerifyMessage(<<signed_message, e>>) = Ok(valid)
      BY <1>4, <1>6, <1>8, <2>1 DEF Answer, Unless
    <3>2. valid <=> all
      BY <1>7, <2>1
    <3> HIDE DEF all
    <3> QED
      BY <3>1, <3>2, Zenon
  <2>2. CASE e \notin {NoText, a}
    <3>1. WireVerifyMessage(<<signed_message, e>>) = Ok(FALSE)
      BY <1>4, <1>6, <1>8, <2>2 DEF Answer
    <3>2. all <=> FALSE
      BY <2>2
    <3> HIDE DEF all
    <3> QED
      BY <3>1, <3>2, Zenon
  <2> QED
    BY <2>1, <2>2
<1>10. truth = all
  <2>1. truth <=> all
    OBVIOUS
  <2>2. CASE truth
    <3>1. truth = TRUE /\ all = TRUE
      BY <2>1, <2>2
    <3> QED
      BY <3>1
  <2>3. CASE ~truth
    <3>1. truth = FALSE /\ all = FALSE
      BY <2>1, <2>3
    <3> QED
      BY <3>1
  <2> QED
    BY <2>2, <2>3
<1> HIDE DEF all
<1> QED
  BY <1>9, <1>10 DEF Mixed

\* What a signature on data was made of.
LEMMA MadeIs ==
  ASSUME Inv, NEW m \in made
  PROVE  \E k \in DataSigners, p \in Payloads :
            \/ \E a \in Addresses : m = DataSigned(k, a, p)
            \/ \E a \in Addresses \cup {NoText} : m = MessageSigned(k, a, p)
<1>1. TypeOK /\ soft # None
  BY DEF Inv, SignedHere
<1>2. soft.base = BaseOf("soft") /\ soft.reward = RewardOf("soft") /\ FriendAddress = BaseOf("friend")
  <2>1. soft = SoftWallet
    BY <1>1 DEF TypeOK
  <2> QED
    BY <2>1, SoftWalletIs, FriendIs
<1>3. Range(SoftKeys) \cup {Friend.payment_signing_key} = DataSigners
  BY <1>1, KeysSign, FriendIs DEF DataSigners
<1>4. PICK k \in Range(SoftKeys) \cup {Friend.payment_signing_key}, p \in Payloads :
        \/ \E a \in {soft.base, soft.reward, FriendAddress} : m = DataSigned(k, a, p)
        \/ \E a \in {NoText, soft.base, FriendAddress} : m = MessageSigned(k, a, p)
  BY DEF Inv, SignedHere
<1>5. k \in DataSigners
  BY <1>3
<1>6. /\ {soft.base, soft.reward, FriendAddress} = Addresses
      /\ {NoText, soft.base, FriendAddress} \subseteq Addresses \cup {NoText}
  BY <1>2 DEF Addresses
<1> QED
  BY <1>4, <1>5, <1>6

LEMMA SecretsDiffer == \A k, j \in DataSigners : k.of = j.of <=> k = j
<1>1. \A x : Secret(x).of = x
  BY DEF Secret, Bech32
<1> QED
  BY <1>1 DEF DataSigners

\* Verification of a container of one signature with the key of another.
Verification(k, a, q, j, p, e) ==
  WireCip30VerifyData(<<[signature |-> Hex("cose_sign1", Container(k, TextOf(a), q)),
                         key |-> Hex("cose_key", j.of)], p, e>>)

LEMMA DataMeansSigned ==
  ASSUME Inv, soft # None,
         NEW k \in DataSigners, NEW a \in Addresses, NEW q \in Payloads, NEW j \in DataSigners,
         NEW p \in Payloads \cup {NoText},
         NEW e \in {NoText, TextOf(a), FriendAddress, WireAddressToHex(<<FriendAddress>>).ok}
  PROVE  /\ Verification(k, a, q, j, p, e).err = "None" =>
              (Verification(k, a, q, j, p, e).ok <=>
                 /\ j = k /\ OwnerOf(k, TextOf(a))
                 /\ p \in {NoText, q} /\ e \in {NoText, TextOf(a)})
         /\ Verification(k, a, q, j, p, e).err # "None" =>
              Verification(k, a, q, j, p, e).err = "InvalidParameter" /\ e = FriendAddress
<1> SUFFICES ASSUME NEW v, v = Verification(k, a, q, j, p, e)
             PROVE  /\ v.err = "None" => (v.ok <=> /\ j = k /\ OwnerOf(k, TextOf(a))
                                                   /\ p \in {NoText, q} /\ e \in {NoText, TextOf(a)})
                    /\ v.err # "None" => v.err = "InvalidParameter" /\ e = FriendAddress
  OBVIOUS
<1> DEFINE valid == Owns(j.of, TextOf(a).of) /\ k.of = j.of
           true == /\ j = k /\ OwnerOf(k, TextOf(a))
                   /\ p \in {NoText, q} /\ e \in {NoText, TextOf(a)}
<1>1. /\ FriendAddress.enc = "bech32" /\ WireAddressToHex(<<FriendAddress>>).ok.enc = "hex"
      /\ TextOf(a).enc = "hex" /\ NoText.enc = "none"
  <2>1. FriendAddress = BaseOf("friend") /\ WireAddressToHex(<<BaseOf("friend")>>).ok = TextOf(BaseOf("friend"))
    BY FriendIs, TextIs DEF Addresses
  <2> QED
    BY <2>1 DEF BaseOf, Bech32, TextOf, Hex, NoText
<1>2. /\ p \notin {NoText, q} => v.err = "None" /\ ~v.ok
      /\ p \in {NoText, q} /\ e.enc = "bech32" => v.err = "InvalidParameter"
      /\ p \in {NoText, q} /\ e.enc = "hex" /\ e # TextOf(a) => v.err = "None" /\ ~v.ok
      /\ p \in {NoText, q} /\ e \in {NoText, TextOf(a)} => v.err = "None" /\ (v.ok <=> valid)
  <2>1. e.enc \in {"none", "hex", "bech32"}
    BY <1>1
  <2>2. e.enc = "none" => e = NoText
    BY <1>1
  <2> QED
    BY <2>1, <2>2, DataVerified DEF Verification
<1>3. valid <=> k = j /\ OwnerOf(k, TextOf(a))
  <2>1. TextOf(a).of = a.of /\ TypeOK
    BY DEF TextOf, Hex, Inv
  <2>2. Owns(k.of, TextOf(a).of) <=> OwnerOf(k, TextOf(a))
    BY <2>1, OwnerIs
  <2> QED
    BY <2>2, SecretsDiffer
<1>6. e.enc = "bech32" => e = FriendAddress
  BY <1>1
<1> HIDE DEF valid
<1>7. IF v.err = "None" THEN v.ok <=> true ELSE v.err = "InvalidParameter" /\ e = FriendAddress
  <2>1. CASE p \notin {NoText, q}
    BY <1>2, <2>1
  <2>2. CASE p \in {NoText, q} /\ e.enc = "bech32"
    BY <1>2, <1>6, <2>2
  <2>3. CASE p \in {NoText, q} /\ e.enc = "hex" /\ e # TextOf(a)
    <3>1. v.err = "None" /\ ~v.ok
      BY <1>2, <2>3
    <3>2. ~true
      BY <1>1, <2>3
    <3> QED
      BY <3>1, <3>2
  <2>4. CASE p \in {NoText, q} /\ e \in {NoText, TextOf(a)}
    <3>1. v.err = "None" /\ (v.ok <=> valid)
      BY <1>2, <2>4
    <3>2. valid <=> true
      BY <1>3, <2>4
    <3> HIDE DEF true
    <3> QED
      BY <3>1, <3>2
  <2>5. e.enc = "hex" \/ e.enc = "bech32" \/ e = NoText
    BY <1>1
  <2> QED
    BY <2>1, <2>2, <2>3, <2>4, <2>5
<1> QED
  BY <1>7

LEMMA MessageMeansSigned ==
  ASSUME Inv, soft # None, NEW i \in DataSigners, NEW p \in Payloads,
         NEW j \in DataSigners, NEW a \in Addresses \cup {NoText}, NEW e,
         NEW truth \in BOOLEAN,
         truth <=> /\ j = i /\ e \in {NoText, a}
                   /\ a = NoText \/ OwnerOf(j, a)
  PROVE  WireVerifyMessage(<<Mixed(i, p, j, a), e>>) = Ok(truth)
<1>1. TypeOK
  BY DEF Inv
<1>2. a # NoText => (Owns(j.of, a.of) <=> OwnerOf(j, a))
  BY <1>1, OwnerIs
<1>3. i.of = j.of <=> j = i
  BY SecretsDiffer
<1>4. truth <=> /\ e \in {NoText, a}
                /\ a = NoText \/ Owns(j.of, a.of)
                /\ i.of = j.of
  BY <1>2, <1>3
<1> QED
  BY <1>4, MessageVerified

(***************************************************************************)
(* Verification is true exactly of what was signed, whatever was signed     *)
(* and however two signatures are mixed up.                                *)
(***************************************************************************)
THEOREM VerifiedWasSigned == Spec => []VerifiedMeansSigned
<1>1. ASSUME Inv PROVE VerifiedMeansSigned
  <2> SUFFICES ASSUME NEW m \in made, NEW k \in made, m.what = k.what,
                      NEW expected \in {NoText, m.address, FriendAddress,
                                        WireAddressToHex(<<FriendAddress>>).ok}
               PROVE  IF m.what = "data"
                      THEN \A p \in Payloads \cup {NoText} :
                         LET v == WireCip30VerifyData(<<[signature |-> m.of.signature, key |-> k.of.key],
                                                        p, expected>>)
                             true == /\ k.key = m.key /\ OwnerOf(m.key, m.address)
                                     /\ p \in {NoText, m.payload} /\ expected \in {NoText, m.address}
                         IN /\ IF v.err = "None" THEN v.ok <=> true
                               ELSE v.err = "InvalidParameter" /\ expected = FriendAddress
                            /\ \A d \in DamagedData(m) : WireCip30VerifyData(<<d, p, expected>>) # Ok(TRUE)
                      ELSE WireVerifyMessage(<<[cose_sign1 |-> m.of.cose_sign1,
                                                public_key |-> k.of.public_key,
                                                address |-> k.address], expected>>)
                             = Ok(/\ k.key = m.key /\ expected \in {NoText, k.address}
                                  /\ k.address = NoText \/ OwnerOf(k.key, k.address))
    BY DEF VerifiedMeansSigned
  <2>1. soft # None
    BY <1>1 DEF Inv, SignedHere
  <2>2. PICK i \in DataSigners, q \in Payloads :
          \/ \E a \in Addresses : m = DataSigned(i, a, q)
          \/ \E a \in Addresses \cup {NoText} : m = MessageSigned(i, a, q)
    BY <1>1, MadeIs
  <2>3. PICK j \in DataSigners, r \in Payloads :
          \/ \E a \in Addresses : k = DataSigned(j, a, r)
          \/ \E a \in Addresses \cup {NoText} : k = MessageSigned(j, a, r)
    BY <1>1, MadeIs
  <2>4. CASE m.what = "data"
    <3>1. PICK a \in Addresses : m = DataSigned(i, a, q)
      BY <2>2, <2>4, MessageIs
    <3>2. PICK b \in Addresses : k = DataSigned(j, b, r)
      <4>1. k.what = "data"
        BY <2>4
      <4> QED
        BY <2>3, <4>1, MessageIs
    <3>3. /\ m.key = i /\ m.address = TextOf(a) /\ m.payload = q
          /\ m.of.signature = Hex("cose_sign1", Container(i, TextOf(a), q))
      BY <3>1, DataIs
    <3>4. k.key = j /\ k.of.key = Hex("cose_key", j.of)
      BY <3>2, DataIs
    <3>5. ASSUME NEW p \in Payloads \cup {NoText}, NEW v,
                 v = WireCip30VerifyData(<<[signature |-> m.of.signature, key |-> k.of.key], p, expected>>)
          PROVE  /\ v.err = "None" =>
                      (v.ok <=> /\ k.key = m.key /\ OwnerOf(m.key, m.address)
                                /\ p \in {NoText, m.payload} /\ expected \in {NoText, m.address})
                 /\ v.err # "None" => v.err = "InvalidParameter" /\ expected = FriendAddress
      <4>1. expected \in {NoText, TextOf(a), FriendAddress, WireAddressToHex(<<FriendAddress>>).ok}
        BY <3>3
      <4>2. v = Verification(i, a, q, j, p, expected)
        BY <3>3, <3>4, <3>5 DEF Verification
      <4>3. /\ v.err = "None" => (v.ok <=> /\ j = i /\ OwnerOf(i, TextOf(a))
                                           /\ p \in {NoText, q} /\ expected \in {NoText, TextOf(a)})
            /\ v.err # "None" => v.err = "InvalidParameter" /\ expected = FriendAddress
        BY <1>1, <2>1, <4>1, <4>2, DataMeansSigned
      <4> QED
        BY <3>3, <3>4, <4>3
    <3>6. ASSUME NEW d \in DamagedData(m), NEW p \in Payloads \cup {NoText}
          PROVE  WireCip30VerifyData(<<d, p, expected>>) # Ok(TRUE)
      <4> DEFINE c == Container(i, TextOf(a), q)
                 x == Protected(TextOf(a))
                 s == Sign(i.of, [protected |-> x, payload |-> q])
      <4>1. m.of.signature = Hex("cose_sign1", c) /\ c = [protected |-> x, payload |-> q, signature |-> s]
        BY <3>3 DEF Container
      <4> HIDE DEF c, x, s
      <4> QED
        BY <4>1, DamagedRefused
    <3> QED
      BY <2>4, <3>5, <3>6
  <2>5. CASE m.what # "data"
    <3>1. PICK a \in Addresses \cup {NoText} : m = MessageSigned(i, a, q)
      BY <2>2, <2>5, DataIs
    <3>2. PICK b \in Addresses \cup {NoText} : k = MessageSigned(j, b, r)
      BY <2>3, <2>5, DataIs
    <3>3. m.key = i /\ m.of = Mixed(i, q, i, a)
      BY <3>1, MessageIs, MessageHolds
    <3>4. k.key = j /\ k.address = b /\ k.of = Mixed(j, r, j, b)
      BY <3>2, MessageIs, MessageHolds
    <3>5. [cose_sign1 |-> m.of.cose_sign1, public_key |-> k.of.public_key, address |-> k.address]
            = Mixed(i, q, j, b)
      <4>1. Mixed(i, q, i, a).cose_sign1 = Mixed(i, q, j, b).cose_sign1
        BY DEF Mixed
      <4>2. Mixed(j, r, j, b).public_key = Mixed(i, q, j, b).public_key
        BY DEF Mixed
      <4>3. Mixed(i, q, j, b) = [cose_sign1 |-> Mixed(i, q, j, b).cose_sign1,
                                 public_key |-> Mixed(i, q, j, b).public_key, address |-> b]
        BY DEF Mixed
      <4> QED
        BY <3>3, <3>4, <4>1, <4>2, <4>3, Zenon
    <3> DEFINE truth == /\ j = i /\ expected \in {NoText, b}
                        /\ b = NoText \/ OwnerOf(j, b)
    <3>6. WireVerifyMessage(<<Mixed(i, q, j, b), expected>>) = Ok(truth)
      <4>1. truth \in BOOLEAN
        OBVIOUS
      <4>2. truth <=> /\ j = i /\ expected \in {NoText, b}
                      /\ b = NoText \/ OwnerOf(j, b)
        OBVIOUS
      <4> HIDE DEF truth
      <4> QED
        BY <1>1, <2>1, <4>1, <4>2, MessageMeansSigned
    <3>7. WireVerifyMessage(<<[cose_sign1 |-> m.of.cose_sign1, public_key |-> k.of.public_key,
                               address |-> k.address], expected>>)
            = Ok(/\ k.key = m.key /\ expected \in {NoText, k.address}
                 /\ k.address = NoText \/ OwnerOf(k.key, k.address))
      BY <3>3, <3>4, <3>5, <3>6, Zenon
    <3> QED
      BY <2>5, <3>7
  <2> QED
    BY <2>4, <2>5
<1>2. Inv => VerifiedMeansSigned
  BY <1>1
<1> QED
  BY <1>2, Invariance, PTL
=============================================================================

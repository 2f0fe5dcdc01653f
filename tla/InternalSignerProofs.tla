------------------------- MODULE InternalSignerProofs -------------------------
(***************************************************************************)
(* For any number of keyrings, addresses and calls: the state of the       *)
(* signer service stays well typed (TypeCorrect), and in memory, in the    *)
(* newest vault and in every vault on its way to or from storage each      *)
(* address has one signer (OneSignerAlways), each keyring shows an address *)
(* (NoEmptyRingEver) and each signer has its metadata (SourcesAlwaysMatch).*)
(* No account is lost by calls that do not overlap (NothingEverLost,       *)
(* VaultStaysCurrent), and a locked service holds no keyring and comes to  *)
(* no signer but one (LockedHasNoRings, LockedGainsLittle).                *)
(*                                                                         *)
(* The argument: each of the functions that change a collection of signers *)
(* keeps it Sound (the lemmas), and every other step only moves            *)
(* collections between memory, the calls and storage.                      *)
(***************************************************************************)
EXTENDS InternalSigner, TLAPS

Sound(s) ==
    /\ OnRings(s) \cap s.keys = {}
    /\ \A r \in Rings : s.derived[r] > 0 => OfRing(s, r) \ s.hidden # {}
    /\ s.ringSources = {r \in Rings : s.derived[r] > 0}
    /\ s.keySources = s.keys

SoundVault(v) == v # NoVault => Sound(v.signers)

(* A call carries a sound vault, if any, and a decrypted key has an address. *)
SoundCall(k) ==
    /\ SoundVault(k.vault)
    /\ k.at = "decrypting" => k.address # NoAddress

IInv ==
    /\ TypeOK
    /\ Sound(signers)
    /\ SoundVault(newest)
    /\ \A c \in Calls : call[c] # Idle => SoundCall(call[c])

---------------------------------------------------------------------------
(* The addresses of a keyring are those it has derived.                    *)
LEMMA RingAddresses ==
    ASSUME NEW s \in Signers, NEW r \in Rings
    PROVE  /\ OfRing(s, r) \subseteq OnRings(s)
           /\ \A i \in 1..MaxDerived : <<r, i>> \in OfRing(s, r) <=> i <= s.derived[r]
BY SignerAssumption DEF OfRing, OnRings, Signers, Addresses

(* Every collection is made of its five parts; removing a private key       *)
(* touches two of them.                                                     *)
LEMMA Parts ==
    ASSUME NEW s \in Signers
    PROVE  s = [derived |-> s.derived, keys |-> s.keys, hidden |-> s.hidden,
                ringSources |-> s.ringSources, keySources |-> s.keySources]
BY DEF Signers

LEMMA WithoutKeyParts ==
    ASSUME NEW s \in Signers, NEW a \in Addresses
    PROVE  /\ WithoutKey(s, a) \in Signers
           /\ WithoutKey(s, a) =
                [derived |-> s.derived, keys |-> s.keys \ {a}, hidden |-> s.hidden,
                 ringSources |-> s.ringSources, keySources |-> s.keySources \ {a}]
<1> DEFINE u == WithoutKey(s, a)
<1>1. u \in Signers
  BY DEF WithoutKey, Signers
<1>2. /\ u.derived = s.derived /\ u.hidden = s.hidden /\ u.ringSources = s.ringSources
      /\ u.keys = s.keys \ {a} /\ u.keySources = s.keySources \ {a}
  BY DEF WithoutKey, Signers
<1> HIDE DEF u
<1>3. u = [derived |-> u.derived, keys |-> u.keys, hidden |-> u.hidden,
           ringSources |-> u.ringSources, keySources |-> u.keySources]
  BY <1>1, Parts
<1>4. QED
  BY <1>1, <1>2, <1>3 DEF u

(* No signers at all are sound, whatever is marked as hidden.              *)
LEMMA NoSignersSound ==
    ASSUME NEW H \in SUBSET Addresses
    PROVE  /\ NoSigners \in Signers
           /\ [NoSigners EXCEPT !.hidden = H] \in Signers
           /\ Sound(NoSigners)
           /\ Sound([NoSigners EXCEPT !.hidden = H])
BY SignerAssumption DEF NoSigners, Signers, Sound, OnRings, Addresses

(* importSigner with a private key keeps a collection sound.               *)
LEMMA WithKeySound ==
    ASSUME NEW s \in Signers, Sound(s), NEW a \in Addresses
    PROVE  WithKey(s, a) \in Signers /\ Sound(WithKey(s, a))
<1> DEFINE t == WithKey(s, a)
<1>1. t \in Signers
  BY DEF WithKey, Signers
<1>2. /\ t.derived = s.derived /\ t.ringSources = s.ringSources
      /\ t.keys = s.keys \cup ({a} \ OnRings(s))
      /\ t.keySources = s.keySources \cup ({a} \ OnRings(s))
      /\ t.hidden = s.hidden \ {a}
  BY DEF WithKey, Signers
<1>3. OnRings(t) = OnRings(s) /\ \A r \in Rings : OfRing(t, r) = OfRing(s, r)
  BY <1>2 DEF OnRings, OfRing
<1> HIDE DEF t
<1>4. Sound(t)
  BY <1>2, <1>3 DEF Sound
<1>5. QED
  BY <1>1, <1>4 DEF t

(* importSigner with a mnemonic keeps a collection sound.                  *)
LEMMA WithRingSound ==
    ASSUME NEW s \in Signers, Sound(s), NEW r \in Rings
    PROVE  WithRing(s, r) \in Signers /\ Sound(WithRing(s, r))
<1> DEFINE t == WithRing(s, r)
           a == <<r, 1>>
<1>0. a \in Addresses /\ a[1] = r /\ a[2] = 1
  BY SignerAssumption DEF Addresses
<1>2. CASE s.derived[r] > 0
  <2>0. t \in Signers
    BY <1>0, <1>2 DEF WithRing, Signers
  <2>1. /\ t.derived = s.derived /\ t.ringSources = s.ringSources
        /\ t.keys = s.keys /\ t.keySources = s.keySources
        /\ t.hidden = s.hidden \ {a}
    BY <1>2 DEF WithRing, Signers
  <2>2. OnRings(t) = OnRings(s) /\ \A q \in Rings : OfRing(t, q) = OfRing(s, q)
    BY <2>1 DEF OnRings, OfRing
  <2> HIDE DEF t
  <2>3. Sound(t)
    BY <2>1, <2>2 DEF Sound
  <2>4. QED
    BY <2>0, <2>3 DEF t
<1>3. CASE ~(s.derived[r] > 0)
  <2>1. /\ t.derived = [s.derived EXCEPT ![r] = 1]
        /\ t.ringSources = s.ringSources \cup {r}
        /\ t.keys = s.keys \ {a} /\ t.keySources = s.keySources \ {a}
        /\ t.hidden = s.hidden \ {a}
    BY <1>3 DEF WithRing, WithoutKey, Signers
  <2>2. /\ s.derived \in [Rings -> 0..MaxDerived]
        /\ s.derived[r] = 0
    BY <1>3, SignerAssumption DEF Signers
  <2>0. t \in Signers
    <3>1. t = [derived |-> [s.derived EXCEPT ![r] = 1], keys |-> s.keys \ {a},
               hidden |-> s.hidden \ {a}, ringSources |-> s.ringSources \cup {r},
               keySources |-> s.keySources \ {a}]
      BY <1>3 DEF WithRing, WithoutKey, Signers
    <3>2. [s.derived EXCEPT ![r] = 1] \in [Rings -> 0..MaxDerived]
      BY <2>2, SignerAssumption
    <3> HIDE DEF t, a
    <3>3. QED
      BY <3>1, <3>2 DEF Signers
  <2>3. \A q \in Rings : t.derived[q] = IF q = r THEN 1 ELSE s.derived[q]
    BY <2>1, <2>2
  <2>4. OnRings(t) = OnRings(s) \cup {a}
    <3>1. ASSUME NEW b \in Addresses
          PROVE  b \in OnRings(t) <=> b \in OnRings(s) \/ b = a
      <4>1. /\ b[1] \in Rings /\ b[2] \in 1..MaxDerived /\ b = <<b[1], b[2]>>
        BY DEF Addresses
      <4>2. t.derived[b[1]] = IF b[1] = r THEN 1 ELSE s.derived[b[1]]
        BY <4>1, <2>3
      <4>3. b = a <=> b[1] = r /\ b[2] = 1
        BY <4>1
      <4> HIDE DEF t, a
      <4>4. CASE b[1] = r
        BY <4>4, <4>1, <4>2, <4>3, <2>2, SignerAssumption DEF OnRings
      <4>5. CASE b[1] # r
        BY <4>5, <4>1, <4>2, <4>3 DEF OnRings
      <4>6. QED
        BY <4>4, <4>5
    <3>2. OnRings(t) \subseteq Addresses /\ OnRings(s) \subseteq Addresses
      BY DEF OnRings
    <3> HIDE DEF t, a
    <3>3. QED
      BY <3>1, <3>2, <1>0
  <2>5. OfRing(t, r) = {a}
    <3>1. t.derived[r] = 1
      BY <2>3
    <3> HIDE DEF t
    <3>2. OfRing(t, r) = {<<r, i>> : i \in 1..1}
      BY <3>1 DEF OfRing
    <3>3. 1..1 = {1}
      BY SMT
    <3>4. QED
      BY <3>2, <3>3
  <2>6. \A q \in Rings \ {r} : OfRing(t, q) = OfRing(s, q) /\ t.derived[q] = s.derived[q]
    BY <2>3 DEF OfRing
  <2> HIDE DEF t, a
  <2>7. OnRings(t) \cap t.keys = {}
    BY <2>1, <2>4 DEF Sound
  <2>8. ASSUME NEW q \in Rings, t.derived[q] > 0
        PROVE  OfRing(t, q) \ t.hidden # {}
    BY <2>8, <2>1, <2>5, <2>6 DEF Sound
  <2>9. t.ringSources = {q \in Rings : t.derived[q] > 0}
    BY <2>1, <2>3 DEF Sound
  <2>10. Sound(t)
    BY <2>1, <2>7, <2>8, <2>9 DEF Sound
  <2>11. QED
    BY <2>0, <2>10 DEF t
<1>4. QED
  BY <1>2, <1>3

(* deriveAddress keeps a collection sound, whichever address it shows.      *)
LEMMA WithNextSound ==
    ASSUME NEW s \in Signers, Sound(s), NEW r \in Rings, NEW i \in 1..MaxDerived,
           s.derived[r] > 0, IsNext(s, r, i)
    PROVE  WithNext(s, r, i) \in Signers /\ Sound(WithNext(s, r, i))
<1> DEFINE t == WithNext(s, r, i)
           a == <<r, i>>
           n == IF i > s.derived[r] THEN i ELSE s.derived[r]
<1>1. a \in Addresses /\ a[1] = r /\ a[2] = i
  BY DEF Addresses
<1>2. s.derived \in [Rings -> 0..MaxDerived]
  BY DEF Signers
<1>3. t = [derived |-> [s.derived EXCEPT ![r] = n], keys |-> s.keys \ {a},
           hidden |-> s.hidden \ {a}, ringSources |-> s.ringSources,
           keySources |-> s.keySources \ {a}]
  <2> DEFINE u == WithoutKey(s, a)
  <2>1. u = [derived |-> s.derived, keys |-> s.keys \ {a}, hidden |-> s.hidden,
             ringSources |-> s.ringSources, keySources |-> s.keySources \ {a}]
    BY <1>1, WithoutKeyParts
  <2>2. t = [u EXCEPT !.derived[r] = IF i > @ THEN i ELSE @, !.hidden = @ \ {a}]
    BY DEF WithNext
  <2> HIDE DEF u, a, t
  <2>3. QED
    BY <2>1, <2>2, <1>2
<1>4. n \in 1..MaxDerived
  BY <1>2, SignerAssumption
<1>5. i <= s.derived[r] \/ i = s.derived[r] + 1
  <2>1. CASE OfRing(s, r) \cap s.hidden = {}
    BY <2>1 DEF IsNext
  <2>2. CASE OfRing(s, r) \cap s.hidden # {}
    BY <2>2, RingAddresses DEF IsNext
  <2>3. QED
    BY <2>1, <2>2
<1> HIDE DEF t, a, n
<1>6. t \in Signers
  <2>1. [s.derived EXCEPT ![r] = n] \in [Rings -> 0..MaxDerived]
    BY <1>2, <1>4, SignerAssumption
  <2>2. QED
    BY <1>1, <1>3, <2>1 DEF Signers
<1>7. \A q \in Rings : t.derived[q] = IF q = r THEN n ELSE s.derived[q]
  BY <1>2, <1>3
<1>8. \A b \in OnRings(t) : b \in OnRings(s) \/ b = a
  <2>1. SUFFICES ASSUME NEW b \in OnRings(t), b \notin OnRings(s)
                 PROVE  b = a
    OBVIOUS
  <2>2. /\ b \in Addresses /\ b[1] \in Rings /\ b[2] \in 1..MaxDerived
        /\ b = <<b[1], b[2]>>
        /\ b[2] <= t.derived[b[1]] /\ ~(b[2] <= s.derived[b[1]])
    BY <2>1 DEF OnRings, Addresses
  <2>3. b[1] = r /\ t.derived[b[1]] = n
    BY <2>2, <1>7
  <2>4. b[2] <= n /\ b[2] > s.derived[r]
    BY <2>2, <2>3, <1>2, <1>4, SignerAssumption
  <2>5. b[2] = i
    BY <2>2, <2>4, <1>2, <1>5, SignerAssumption DEF n
  <2>6. QED
    BY <2>2, <2>3, <2>5 DEF a
<1>9. OnRings(t) \cap t.keys = {}
  BY <1>3, <1>8 DEF Sound
<1>10. ASSUME NEW q \in Rings, t.derived[q] > 0
       PROVE  OfRing(t, q) \ t.hidden # {}
  <2>1. CASE q = r
    <3>1. t.derived[r] = n /\ i <= n
      BY <1>7, <1>2, SignerAssumption DEF n
    <3>2. a \in OfRing(t, r)
      BY <3>1, <1>4, SignerAssumption DEF OfRing, a
    <3>3. a \notin t.hidden
      BY <1>3
    <3>4. QED
      BY <2>1, <3>2, <3>3
  <2>2. CASE q # r
    <3>1. t.derived[q] = s.derived[q] /\ OfRing(t, q) = OfRing(s, q)
      BY <2>2, <1>7 DEF OfRing
    <3>2. OfRing(s, q) \ s.hidden # {}
      BY <3>1, <1>10 DEF Sound
    <3>3. QED
      BY <3>1, <3>2, <1>3
  <2>3. QED
    BY <2>1, <2>2
<1>11. t.ringSources = {q \in Rings : t.derived[q] > 0}
  <2>1. n > 0
    BY <1>4, SignerAssumption
  <2>2. \A q \in Rings : t.derived[q] > 0 <=> s.derived[q] > 0
    BY <2>1, <1>7
  <2>3. QED
    BY <2>2, <1>3 DEF Sound
<1>12. Sound(t)
  BY <1>3, <1>9, <1>10, <1>11 DEF Sound
<1>13. QED
  BY <1>6, <1>12 DEF t

(* removeAccount keeps a collection sound: a keyring goes with its last     *)
(* address that shows.                                                      *)
LEMMA WithoutSound ==
    ASSUME NEW s \in Signers, Sound(s), NEW a \in Held(s)
    PROVE  Without(s, a) \in Signers /\ Sound(Without(s, a))
<1> DEFINE h == WithoutKey(Hiding(s, a), a)
           r == a[1]
<1>1. a \in Addresses /\ r \in Rings /\ a = <<r, a[2]>> /\ a[2] \in 1..MaxDerived
  BY DEF Held, OnRings, Signers, Addresses
<1>2. h = [derived |-> s.derived, keys |-> s.keys \ {a}, hidden |-> s.hidden \cup {a},
           ringSources |-> s.ringSources, keySources |-> s.keySources \ {a}]
  <2> DEFINE g == Hiding(s, a)
  <2>1. g = [derived |-> s.derived, keys |-> s.keys, hidden |-> s.hidden \cup {a},
             ringSources |-> s.ringSources, keySources |-> s.keySources]
    BY Parts DEF Hiding
  <2>2. g \in Signers
    BY <1>1, <2>1 DEF Signers
  <2> HIDE DEF g
  <2>3. h = [derived |-> g.derived, keys |-> g.keys \ {a}, hidden |-> g.hidden,
             ringSources |-> g.ringSources, keySources |-> g.keySources \ {a}]
    BY <1>1, <2>2, WithoutKeyParts DEF g
  <2> HIDE DEF h
  <2>4. QED
    BY <2>1, <2>3
<1>3. s.derived \in [Rings -> 0..MaxDerived]
  BY DEF Signers
<1> HIDE DEF h, r
<1>4. h \in Signers
  BY <1>1, <1>2 DEF Signers
<1>5. OnRings(h) = OnRings(s) /\ \A q \in Rings : OfRing(h, q) = OfRing(s, q)
  BY <1>2 DEF OnRings, OfRing
<1>6. \A q \in Rings \ {r} : a \notin OfRing(s, q)
  BY <1>1 DEF OfRing
<1>7. a \in OfRing(s, r) <=> a \in OnRings(s)
  BY <1>1, <1>3, SignerAssumption DEF OfRing, OnRings
<1>8. CASE a \in OnRings(s) /\ OfRing(s, r) \subseteq h.hidden
  <2> DEFINE t == WithoutRing(h, r)
  <2>1. t = [derived |-> [s.derived EXCEPT ![r] = 0], keys |-> s.keys \ {a},
             hidden |-> (s.hidden \cup {a}) \ OfRing(h, r),
             ringSources |-> s.ringSources \ {r}, keySources |-> s.keySources \ {a}]
    <3> DEFINE gone == OfRing(h, r)
    <3>1. t = [h EXCEPT !.derived[r] = 0, !.ringSources = @ \ {r},
                        !.hidden = @ \ gone]
      BY DEF WithoutRing
    <3> HIDE DEF t, gone
    <3>2. t = [derived |-> [s.derived EXCEPT ![r] = 0], keys |-> s.keys \ {a},
               hidden |-> (s.hidden \cup {a}) \ gone,
               ringSources |-> s.ringSources \ {r}, keySources |-> s.keySources \ {a}]
      BY <3>1, <1>2, <1>3
    <3>3. QED
      BY <3>2 DEF gone
  <2>2. Without(s, a) = t
    BY <1>8 DEF Without, h, r
  <2> HIDE DEF t
  <2>3. [s.derived EXCEPT ![r] = 0] \in [Rings -> 0..MaxDerived]
    <3>1. 0 \in 0..MaxDerived
      BY SignerAssumption
    <3>2. QED
      BY <1>3, <3>1
  <2>4. t \in Signers
    BY <1>1, <2>1, <2>3 DEF Signers
  <2>5. \A q \in Rings : t.derived[q] = IF q = r THEN 0 ELSE s.derived[q]
    BY <1>3, <2>1
  <2>6. OnRings(t) \subseteq OnRings(s)
    <3>1. SUFFICES ASSUME NEW b \in OnRings(t) PROVE b \in OnRings(s)
      OBVIOUS
    <3>2. /\ b \in Addresses /\ b[1] \in Rings /\ b[2] \in 1..MaxDerived
          /\ b[2] <= t.derived[b[1]]
      BY DEF OnRings, Addresses
    <3>3. b[1] # r
      BY <3>2, <2>5, SignerAssumption
    <3>4. QED
      BY <3>2, <3>3, <2>5 DEF OnRings
  <2>7. OnRings(t) \cap t.keys = {}
    BY <2>1, <2>6 DEF Sound
  <2>8. ASSUME NEW q \in Rings, t.derived[q] > 0
        PROVE  OfRing(t, q) \ t.hidden # {}
    <3>1. q # r
      BY <2>8, <2>5
    <3>2. t.derived[q] = s.derived[q] /\ OfRing(t, q) = OfRing(s, q)
      BY <3>1, <2>5 DEF OfRing
    <3>3. OfRing(s, q) \ s.hidden # {}
      BY <3>2, <2>8 DEF Sound
    <3>4. QED
      BY <3>1, <3>2, <3>3, <2>1, <1>6
  <2>9. t.ringSources = {q \in Rings : t.derived[q] > 0}
    BY <2>1, <2>5 DEF Sound
  <2>10. Sound(t)
    BY <2>1, <2>7, <2>8, <2>9 DEF Sound
  <2>11. QED
    BY <2>2, <2>4, <2>10
<1>9. CASE ~(a \in OnRings(s) /\ OfRing(s, r) \subseteq h.hidden)
  <2>1. Without(s, a) = h
    BY <1>9, <1>5, <1>1 DEF Without, h, r
  <2>2. OnRings(h) \cap h.keys = {}
    BY <1>2, <1>5 DEF Sound
  <2>3. ASSUME NEW q \in Rings, h.derived[q] > 0
        PROVE  OfRing(h, q) \ h.hidden # {}
    <3>1. OfRing(s, q) \ s.hidden # {}
      BY <2>3, <1>2 DEF Sound
    <3>2. CASE q = r
      BY <3>1, <3>2, <1>2, <1>5, <1>7, <1>9
    <3>3. CASE q # r
      BY <3>1, <3>3, <1>2, <1>5, <1>6
    <3>4. QED
      BY <3>2, <3>3
  <2>4. h.ringSources = {q \in Rings : h.derived[q] > 0}
    BY <1>2 DEF Sound
  <2>5. Sound(h)
    BY <1>2, <2>2, <2>3, <2>4 DEF Sound
  <2>6. QED
    BY <2>1, <2>5, <1>4
<1>10. QED
  BY <1>8, <1>9

---------------------------------------------------------------------------
(* The states of a call.                                                   *)
LEMMA CallStateParts ==
    ASSUME NEW k \in CallStates, k # Idle
    PROVE  /\ k.at \in Stages /\ k.address \in Addresses \cup {NoAddress}
           /\ k.password \in BOOLEAN /\ k.version \in Versions
           /\ k.vault \in Vaults \cup {NoVault}
BY DEF CallStates

(* A call that comes to another await keeps, or replaces, what it read.     *)
LEMMA NextStage ==
    ASSUME NEW k \in CallStates, k # Idle, SoundCall(k),
           NEW stage \in Stages, stage # "decrypting"
    PROVE  [k EXCEPT !.at = stage] \in CallStates /\ SoundCall([k EXCEPT !.at = stage])
<1> DEFINE n == [k EXCEPT !.at = stage]
<1>1. n \in CallStates /\ n.at = stage /\ n.vault = k.vault
  BY DEF CallStates
<1> HIDE DEF n
<1>2. SoundCall(n)
  BY <1>1 DEF SoundCall
<1>3. QED
  BY <1>1, <1>2 DEF n

LEMMA NextStageVersion ==
    ASSUME NEW k \in CallStates, k # Idle, SoundCall(k),
           NEW stage \in Stages, stage # "decrypting", NEW v \in Versions
    PROVE  /\ [k EXCEPT !.at = stage, !.version = v] \in CallStates
           /\ SoundCall([k EXCEPT !.at = stage, !.version = v])
<1> DEFINE n == [k EXCEPT !.at = stage, !.version = v]
<1>1. n \in CallStates /\ n.at = stage /\ n.vault = k.vault
  BY DEF CallStates
<1> HIDE DEF n
<1>2. SoundCall(n)
  BY <1>1 DEF SoundCall
<1>3. QED
  BY <1>1, <1>2 DEF n

LEMMA NextStageVault ==
    ASSUME NEW k \in CallStates, k # Idle, NEW stage \in Stages, stage # "decrypting",
           NEW v \in Versions, NEW w \in Vaults \cup {NoVault}, SoundVault(w)
    PROVE  /\ [k EXCEPT !.at = stage, !.version = v, !.vault = w] \in CallStates
           /\ SoundCall([k EXCEPT !.at = stage, !.version = v, !.vault = w])
<1> DEFINE n == [k EXCEPT !.at = stage, !.version = v, !.vault = w]
<1>1. n \in CallStates /\ n.at = stage /\ n.vault = w
  BY DEF CallStates
<1> HIDE DEF n
<1>2. SoundCall(n)
  BY <1>1 DEF SoundCall
<1>3. QED
  BY <1>1, <1>2 DEF n

(* What a call saves is what it was given.                                  *)
LEMMA PersistingState ==
    ASSUME NEW s \in Signers, Sound(s), NEW k \in Versions,
           NEW a \in Addresses \cup {NoAddress}
    PROVE  /\ Persisting(s, k, a) \in CallStates
           /\ SoundCall(Persisting(s, k, a))
<1>1. [version |-> k, signers |-> s] \in Vaults
  BY DEF Vaults
<1>2. Persisting(s, k, a) \in CallStates
  BY <1>1 DEF Persisting, CallStates, Stages
<1>3. Persisting(s, k, a).vault.signers = s /\ Persisting(s, k, a).at = "encrypting"
  BY DEF Persisting
<1>4. QED
  BY <1>2, <1>3 DEF SoundCall, SoundVault

LEMMA WaitingState ==
    ASSUME NEW stage \in Stages, NEW a \in Addresses \cup {NoAddress},
           NEW right \in BOOLEAN, stage = "decrypting" => a # NoAddress
    PROVE  /\ Waiting(stage, a, right) \in CallStates
           /\ SoundCall(Waiting(stage, a, right))
<1>1. Waiting(stage, a, right) \in CallStates
  BY DEF Waiting, CallStates, Versions
<1>2. /\ Waiting(stage, a, right).vault = NoVault
      /\ Waiting(stage, a, right).at = stage /\ Waiting(stage, a, right).address = a
  BY DEF Waiting
<1>3. QED
  BY <1>1, <1>2 DEF SoundCall, SoundVault

(* How a call comes and goes: it takes a sound vault with it, if any.       *)
LEMMA CallSteps ==
    ASSUME IInv, NEW c \in Calls, NEW k \in CallStates, SoundCall(k),
           Begin(c, k) \/ Continue(c, k)
    PROVE  /\ call' \in [Calls -> CallStates]
           /\ overlap' \in {"never", "now", "past"}
           /\ started' \in Nat
           /\ \A d \in Calls : call'[d] # Idle => SoundCall(call'[d])
BY SignerAssumption DEF IInv, TypeOK, Begin, Continue

LEMMA CallEnds ==
    ASSUME IInv, NEW c \in Calls, End(c)
    PROVE  /\ call' \in [Calls -> CallStates]
           /\ overlap' \in {"never", "now", "past"}
           /\ started' \in Nat
           /\ \A d \in Calls : call'[d] # Idle => SoundCall(call'[d])
<1>1. Idle \in CallStates
  BY DEF CallStates
<1>2. QED
  BY <1>1 DEF IInv, TypeOK, End

LEMMA InitSound == Init => IInv
<1> SUFFICES ASSUME Init PROVE IInv
  OBVIOUS
<1>1. {} \in SUBSET Addresses /\ Idle \in CallStates
  BY DEF CallStates
<1>2. signers \in Signers /\ Sound(signers)
  BY <1>1, NoSignersSound DEF Init
<1>3. /\ newest \in Vaults \cup {NoVault} /\ SoundVault(newest)
      /\ stored \in Versions /\ reported \subseteq Addresses
  <2>1. CASE newest = NoVault /\ stored = "Argon2" /\ reported = {}
    BY <2>1 DEF SoundVault, Versions
  <2>2. ASSUME NEW r \in Rings, NEW v \in Versions,
               newest = [version |-> v, signers |-> OneRing(r)],
               stored = v, reported = {<<r, 1>>}
        PROVE  <1>3!:
    <3>1. OneRing(r) \in Signers /\ Sound(OneRing(r))
      BY <1>1, NoSignersSound, WithRingSound DEF OneRing
    <3>2. newest \in Vaults /\ newest.signers = OneRing(r)
      BY <2>2, <3>1 DEF Vaults
    <3>3. <<r, 1>> \in Addresses
      BY SignerAssumption DEF Addresses
    <3>4. QED
      BY <2>2, <3>1, <3>2, <3>3 DEF SoundVault
  <2>3. QED
    BY <2>1, <2>2 DEF Init
<1>4. QED
  BY <1>1, <1>2, <1>3 DEF Init, IInv, TypeOK

(* A change of memory by a call that then saves it.                         *)
LEMMA ChangeSound ==
    ASSUME IInv, Unlocked, NEW c \in Calls, NEW s \in Signers, Sound(s),
           NEW a \in Addresses \cup {NoAddress}, Change(c, s, a),
           reported' \subseteq Addresses, UNCHANGED <<key, newest, stored>>
    PROVE  IInv'
<1>1. key \in Versions
  BY DEF IInv, TypeOK, Unlocked
<1> DEFINE k == Persisting(s, key, a)
<1>2. k \in CallStates /\ SoundCall(k)
  BY <1>1, PersistingState
<1>3. Begin(c, k) /\ signers' = s /\ inStep' = FALSE
  BY DEF Change
<1> HIDE DEF k
<1>4. /\ call' \in [Calls -> CallStates] /\ overlap' \in {"never", "now", "past"}
      /\ started' \in Nat
      /\ \A d \in Calls : call'[d] # Idle => SoundCall(call'[d])
  BY <1>2, <1>3, CallSteps
<1>5. QED
  BY <1>3, <1>4 DEF IInv, TypeOK, SoundVault

(* A removal without a call behind it.                                      *)
LEMMA MemorySound ==
    ASSUME IInv, signers' \in Signers, Sound(signers'), reported' \subseteq Addresses,
           inStep' \in BOOLEAN, UNCHANGED <<key, newest, stored, call, overlap, started>>
    PROVE  IInv'
BY DEF IInv, TypeOK, SoundVault

LEMMA HidingSound ==
    ASSUME NEW s \in Signers, Sound(s), NEW a \in Addresses \ Held(s)
    PROVE  Hiding(s, a) \in Signers /\ Sound(Hiding(s, a))
<1> DEFINE t == Hiding(s, a)
<1>1. t \in Signers
  BY DEF Hiding, Signers
<1>2. /\ t.derived = s.derived /\ t.ringSources = s.ringSources
      /\ t.keys = s.keys /\ t.keySources = s.keySources
      /\ t.hidden = s.hidden \cup {a}
  BY DEF Hiding, Signers
<1>3. OnRings(t) = OnRings(s) /\ \A r \in Rings : OfRing(t, r) = OfRing(s, r)
  BY <1>2 DEF OnRings, OfRing
<1>4. \A r \in Rings : a \notin OfRing(s, r)
  BY RingAddresses DEF Held
<1> HIDE DEF t
<1>5. Sound(t)
  BY <1>2, <1>3, <1>4 DEF Sound
<1>6. QED
  BY <1>1, <1>5 DEF t

LEMMA ListedAddresses == ASSUME IInv PROVE Listed \subseteq Addresses
<1>1. \A s \in Signers : Shown(s) \subseteq Addresses
  BY DEF Shown, OnRings, Signers
<1>2. newest # NoVault => newest.signers \in Signers
  BY DEF IInv, TypeOK, Vaults
<1>3. QED
  BY <1>1, <1>2 DEF Listed, IInv, TypeOK

LEMMA RequestSound ==
    ASSUME IInv, NEW c \in Calls, Request(c)
    PROVE  IInv'
<1>0. /\ signers \in Signers /\ Sound(signers) /\ reported \subseteq Addresses
      /\ \A r \in Rings : <<r, 1>> \in Addresses
  BY SignerAssumption DEF IInv, TypeOK, Addresses
<1>1. ASSUME NEW a \in Addresses, ImportPrivateKey(c, a)
      PROVE  IInv'
  <2>1. WithKey(signers, a) \in Signers /\ Sound(WithKey(signers, a))
    BY <1>0, WithKeySound
  <2>2. QED
    BY <1>0, <1>1, <2>1, ChangeSound DEF ImportPrivateKey
<1>2. ASSUME NEW r \in Rings, ImportKeyring(c, r)
      PROVE  IInv'
  <2>1. WithRing(signers, r) \in Signers /\ Sound(WithRing(signers, r))
    BY <1>0, WithRingSound
  <2>2. QED
    BY <1>0, <1>2, <2>1, ChangeSound DEF ImportKeyring
<1>3. ASSUME NEW r \in Rings, NEW i \in 1..MaxDerived, DeriveAddress(c, r, i)
      PROVE  IInv'
  <2>1. WithNext(signers, r, i) \in Signers /\ Sound(WithNext(signers, r, i))
    BY <1>0, <1>3, WithNextSound DEF DeriveAddress
  <2>2. <<r, i>> \in Addresses
    BY DEF Addresses
  <2>3. QED
    BY <1>0, <1>3, <2>1, <2>2, ChangeSound DEF DeriveAddress
<1>4. ASSUME NEW a \in Addresses, RemoveAccount(c, a)
      PROVE  IInv'
  <2>1. Without(signers, a) \in Signers /\ Sound(Without(signers, a))
    BY <1>0, <1>4, WithoutSound DEF RemoveAccount
  <2>2. QED
    BY <1>0, <1>4, <2>1, ChangeSound DEF RemoveAccount
<1>5. ASSUME NEW stage \in Stages, NEW a \in Addresses \cup {NoAddress},
             NEW right \in BOOLEAN, stage = "decrypting" => a # NoAddress,
             Begin(c, Waiting(stage, a, right)),
             UNCHANGED <<key, signers, newest, stored, reported, inStep>>
      PROVE  IInv'
  <2>1. /\ call' \in [Calls -> CallStates] /\ overlap' \in {"never", "now", "past"}
        /\ started' \in Nat
        /\ \A d \in Calls : call'[d] # Idle => SoundCall(call'[d])
    BY <1>5, WaitingState, CallSteps
  <2>2. QED
    BY <1>5, <2>1 DEF IInv, TypeOK, SoundVault
<1>6. ASSUME NEW a \in Addresses, ImportJSON(c, a)
      PROVE  IInv'
  <2>1. a # NoAddress
    <3>1. DOMAIN a = 1..2 BY DEF Addresses
    <3>2. DOMAIN NoAddress = {} BY DEF NoAddress
    <3>3. 1 \in 1..2 OBVIOUS
    <3> QED BY <3>1, <3>2, <3>3
  <2>2. QED
    BY <1>5, <1>6, <2>1 DEF ImportJSON, Stages
<1>7. ASSUME NEW right \in BOOLEAN, Unlock(c, right)
      PROVE  IInv'
  BY <1>5, <1>7 DEF Unlock, Stages
<1>8. CASE CreatePassword(c)
  BY <1>5, <1>8 DEF CreatePassword, Stages
<1>9. QED
  BY <1>1, <1>2, <1>3, <1>4, <1>6, <1>7, <1>8 DEF Request

(* A call that ends.  `fresh` is what it leaves in storage.                 *)
LEMMA EndSound ==
    ASSUME IInv, NEW c \in Calls, End(c),
           key' \in Versions \cup {"none"}, stored' \in Versions,
           signers' \in Signers, Sound(signers'),
           newest' \in Vaults \cup {NoVault}, SoundVault(newest'),
           reported' \subseteq Addresses, inStep' \in BOOLEAN
    PROVE  IInv'
<1>1. /\ call' \in [Calls -> CallStates] /\ overlap' \in {"never", "now", "past"}
      /\ started' \in Nat
      /\ \A d \in Calls : call'[d] # Idle => SoundCall(call'[d])
  BY CallEnds
<1>2. QED
  BY <1>1 DEF IInv, TypeOK, SoundVault

(* A call that goes on with another await.                                  *)
LEMMA ContinueSound ==
    ASSUME IInv, NEW c \in Calls, NEW k \in CallStates, SoundCall(k),
           Continue(c, k),
           key' \in Versions \cup {"none"}, stored' \in Versions,
           signers' \in Signers, Sound(signers'),
           newest' \in Vaults \cup {NoVault}, SoundVault(newest'),
           reported' \subseteq Addresses, inStep' \in BOOLEAN
    PROVE  IInv'
<1>1. /\ call' \in [Calls -> CallStates] /\ overlap' \in {"never", "now", "past"}
      /\ started' \in Nat
      /\ \A d \in Calls : call'[d] # Idle => SoundCall(call'[d])
  BY CallSteps
<1>2. QED
  BY <1>1 DEF IInv, TypeOK, SoundVault

LEMMA MigratedSound ==
    ASSUME NEW v \in Vaults \cup {NoVault}, SoundVault(v), v.version = "PBKDF2"
    PROVE  Migrated(v) \in Vaults /\ SoundVault(Migrated(v))
<1>1. v \in Vaults /\ v # NoVault
  BY DEF NoVault
<1>2. Migrated(v) \in Vaults /\ Migrated(v).signers = v.signers
  BY <1>1 DEF Migrated, Vaults, Versions
<1>3. QED
  BY <1>1, <1>2 DEF SoundVault

LEMMA ResumeSound ==
    ASSUME IInv, NEW c \in Calls, Resume(c)
    PROVE  IInv'
<1> DEFINE k == call[c]
<1>0. /\ k \in CallStates
      /\ k # Idle => SoundCall(k)
      /\ signers \in Signers /\ Sound(signers)
      /\ newest \in Vaults \cup {NoVault} /\ SoundVault(newest)
      /\ key \in Versions \cup {"none"} /\ stored \in Versions
      /\ reported \subseteq Addresses /\ inStep \in BOOLEAN
      /\ Undisturbed \in BOOLEAN
  BY DEF IInv, TypeOK, Undisturbed
<1> HIDE DEF k
<1>1. CASE AddDecrypted(c)
  <2>1. k \in CallStates /\ k.at = "decrypting" /\ k # Idle
    BY <1>0, <1>1 DEF AddDecrypted, Idle, k
  <2>2. k.address \in Addresses
    BY <1>0, <2>1, CallStateParts DEF SoundCall
  <2>3. /\ WithKey(signers, k.address) \in Signers
        /\ Sound(WithKey(signers, k.address))
    BY <1>0, <2>2, WithKeySound
  <2>4. signers' \in Signers /\ Sound(signers')
    BY <2>3, <1>1 DEF AddDecrypted, k
  <2>5. CASE Unlocked
    <3>1. key \in Versions
      BY <2>5, <1>0 DEF Unlocked
    <3>2. /\ Persisting(signers', key, k.address) \in CallStates
          /\ SoundCall(Persisting(signers', key, k.address))
      BY <2>2, <2>4, <3>1, PersistingState
    <3>3. QED
      BY <1>0, <1>1, <2>4, <2>5, <3>2, ContinueSound DEF AddDecrypted, k
  <2>6. CASE ~Unlocked
    BY <1>0, <1>1, <2>4, <2>6, EndSound DEF AddDecrypted
  <2>7. QED
    BY <2>5, <2>6
<1>2. CASE DecryptFails(c)
  BY <1>0, <1>2, EndSound DEF DecryptFails
<1>3. CASE Encrypted(c)
  <2>1. k # Idle
    BY <1>3 DEF Encrypted, Idle, k
  <2>2. /\ [k EXCEPT !.at = "writing", !.version = stored] \in CallStates
        /\ SoundCall([k EXCEPT !.at = "writing", !.version = stored])
    BY <1>0, <2>1, NextStageVersion DEF Stages
  <2>3. QED
    BY <1>0, <1>3, <2>2, ContinueSound DEF Encrypted, k
<1>4. CASE Saved(c)
  <2>1. k # Idle
    BY <1>4 DEF Saved, Idle, k
  <2>2. /\ k.vault \in Vaults \cup {NoVault} /\ SoundVault(k.vault)
        /\ k.version \in Versions /\ {k.address} \ {NoAddress} \subseteq Addresses
    BY <1>0, <2>1, CallStateParts DEF SoundCall
  <2>3. QED
    BY <1>0, <1>4, <2>2, EndSound DEF Saved, k
<1>5. CASE SaveFails(c)
  BY <1>0, <1>5, EndSound DEF SaveFails
<1>6. CASE ReadVaults(c)
  <2>1. k # Idle
    BY <1>6 DEF ReadVaults, Idle, k
  <2> DEFINE stage == IF stored = "PBKDF2" THEN "migrating" ELSE "opening"
             next == [k EXCEPT !.at = stage, !.version = stored, !.vault = newest]
  <2>2. stage \in Stages /\ stage # "decrypting"
    BY DEF Stages
  <2>3. Continue(c, next)
    BY <1>6 DEF ReadVaults, k
  <2> HIDE DEF stage
  <2>4. next \in CallStates /\ SoundCall(next)
    BY <1>0, <2>1, <2>2, NextStageVault
  <2>5. QED
    BY <1>0, <1>6, <2>3, <2>4, ContinueSound DEF ReadVaults
<1>7. CASE MigrateVaults(c)
  <2>1. k # Idle
    BY <1>7 DEF MigrateVaults, Idle, k
  <2>2. k.vault \in Vaults \cup {NoVault} /\ k.vault.version = "PBKDF2"
    BY <1>0, <1>7, <2>1, CallStateParts DEF MigrateVaults, k
  <2>3. Migrated(k.vault) \in Vaults /\ SoundVault(Migrated(k.vault))
    BY <1>0, <2>1, <2>2, MigratedSound DEF SoundCall
  <2> DEFINE next == [k EXCEPT !.at = "opening", !.version = "Argon2",
                               !.vault = Migrated(k.vault)]
  <2>4. Continue(c, next)
    BY <1>7 DEF MigrateVaults, k
  <2>5. next \in CallStates /\ SoundCall(next)
    BY <1>0, <2>1, <2>3, NextStageVault DEF Stages, Versions
  <2>6. newest' = Migrated(k.vault) /\ stored' \in Versions
        /\ UNCHANGED <<key, signers, reported, inStep>>
    BY <1>7 DEF MigrateVaults, k, Versions
  <2> HIDE DEF next
  <2>7. QED
    BY <1>0, <2>3, <2>4, <2>5, <2>6, ContinueSound
<1>8. CASE MigrationFails(c)
  <2>1. k # Idle
    BY <1>8 DEF MigrationFails, Idle, k
  <2>2. /\ [k EXCEPT !.at = "opening"] \in CallStates
        /\ SoundCall([k EXCEPT !.at = "opening"])
    BY <1>0, <2>1, NextStage DEF Stages
  <2>3. QED
    BY <1>0, <1>8, <2>2, ContinueSound DEF MigrationFails, k
<1>9. CASE OpenVault(c)
  <2>1. k # Idle
    BY <1>9 DEF OpenVault, Idle, k
  <2>2. k.vault \in Vaults /\ k.vault # NoVault /\ k.version \in Versions
    BY <1>0, <1>9, <2>1, CallStateParts DEF OpenVault, Opens, k
  <2>3. k.vault.signers \in Signers /\ Sound(k.vault.signers)
    BY <1>0, <2>1, <2>2 DEF Vaults, SoundCall, SoundVault
  <2>4. QED
    BY <1>0, <1>9, <2>2, <2>3, EndSound DEF OpenVault, k
<1>10. CASE OpenFails(c)
  BY <1>0, <1>10, EndSound DEF OpenFails
<1>11. CASE DeriveKey(c)
  <2>1. k # Idle
    BY <1>11 DEF DeriveKey, Idle, k
  <2>2. /\ [k EXCEPT !.at = "deriving", !.version = stored] \in CallStates
        /\ SoundCall([k EXCEPT !.at = "deriving", !.version = stored])
    BY <1>0, <2>1, NextStageVersion DEF Stages
  <2>3. CASE Unlocked
    BY <1>0, <1>11, <2>3, EndSound DEF DeriveKey
  <2>4. CASE ~Unlocked
    BY <1>0, <1>11, <2>2, <2>4, ContinueSound DEF DeriveKey, k
  <2>5. QED
    BY <2>3, <2>4
<1>12. CASE SaveNewVault(c)
  <2>1. k # Idle
    BY <1>12 DEF SaveNewVault, Idle, k
  <2>2. k.version \in Versions
    BY <1>0, <2>1, CallStateParts
  <2>3. /\ Persisting(signers, k.version, NoAddress) \in CallStates
        /\ SoundCall(Persisting(signers, k.version, NoAddress))
    BY <1>0, <2>2, PersistingState
  <2>4. QED
    BY <1>0, <1>12, <2>2, <2>3, ContinueSound DEF SaveNewVault, k
<1>13. QED
  BY <1>1, <1>2, <1>3, <1>4, <1>5, <1>6, <1>7, <1>8, <1>9, <1>10, <1>11, <1>12
     DEF Resume

LEMMA StepSound == IInv /\ [Next]_vars => IInv'
<1> SUFFICES ASSUME IInv, [Next]_vars PROVE IInv'
  OBVIOUS
<1>0. signers \in Signers /\ Sound(signers) /\ Listed \subseteq Addresses
  BY ListedAddresses DEF IInv, TypeOK
<1>1. ASSUME NEW c \in Calls, Request(c) PROVE IInv'
  BY <1>1, RequestSound
<1>2. ASSUME NEW c \in Calls, Resume(c) PROVE IInv'
  BY <1>2, ResumeSound
<1>3. ASSUME NEW a \in Addresses, RemoveUnknown(a) PROVE IInv'
  <2>1. a \in Addresses \ Held(signers)
    BY <1>3 DEF RemoveUnknown
  <2>2. Hiding(signers, a) \in Signers /\ Sound(Hiding(signers, a))
    BY <1>0, <2>1, HidingSound
  <2>3. QED
    BY <1>3, <2>2, MemorySound DEF RemoveUnknown, IInv, TypeOK
<1>4. ASSUME NEW a \in Addresses, RemoveLocked(a) PROVE IInv'
  <2>1. Without(signers, a) \in Signers /\ Sound(Without(signers, a))
    BY <1>0, <1>4, WithoutSound DEF RemoveLocked
  <2>2. QED
    BY <1>4, <2>1, MemorySound DEF RemoveLocked, IInv, TypeOK
<1>5. CASE Lock
  <2>1. signers.hidden \in SUBSET Addresses
    BY <1>0 DEF Signers
  <2>2. signers' \in Signers /\ Sound(signers')
    BY <1>5, <2>1, NoSignersSound DEF Lock
  <2>3. QED
    BY <1>5, <2>2 DEF Lock, IInv, TypeOK, SoundVault
<1>6. CASE Restart
  <2>1. {} \in SUBSET Addresses /\ Idle \in CallStates
    BY DEF CallStates
  <2>2. signers' \in Signers /\ Sound(signers')
    BY <1>6, <2>1, NoSignersSound DEF Restart
  <2>3. call' \in [Calls -> CallStates] /\ \A d \in Calls : call'[d] = Idle
    BY <1>6, <2>1 DEF Restart
  <2>4. QED
    BY <1>6, <2>2, <2>3 DEF Restart, IInv, TypeOK, SoundVault
<1>7. CASE UNCHANGED vars
  BY <1>7 DEF vars, IInv, TypeOK, SoundVault
<1>8. QED
  BY <1>1, <1>2, <1>3, <1>4, <1>5, <1>6, <1>7 DEF Next

(* Every collection there is, is sound.                                     *)
LEMMA CollectionsSound == ASSUME IInv, NEW s \in Collections PROVE Sound(s)
BY DEF IInv, Collections, UnderWay, SoundCall, SoundVault

---------------------------------------------------------------------------
(* The state of the signer service stays well typed.                        *)
THEOREM TypeCorrect == Spec => []TypeOK
<1>1. IInv => TypeOK
  BY DEF IInv
<1>2. QED
  BY <1>1, InitSound, StepSound, PTL DEF Spec

(* An address never has both a keyring and a private key: whichever way an  *)
(* account is imported twice, one signer is dropped before anything is      *)
(* saved, and no unlock or save brings it back.                             *)
THEOREM OneSignerAlways == Spec => []OneSigner
<1>1. IInv => OneSigner
  BY CollectionsSound DEF OneSigner, Sound
<1>2. QED
  BY <1>1, InitSound, StepSound, PTL DEF Spec

(* No keyring without an address that shows is kept, in memory or storage.  *)
THEOREM NoEmptyRingEver == Spec => []NoEmptyRing
<1>1. IInv => NoEmptyRing
  BY CollectionsSound DEF NoEmptyRing, Sound
<1>2. QED
  BY <1>1, InitSound, StepSound, PTL DEF Spec

(* The metadata is that of the signers there are.                           *)
THEOREM SourcesAlwaysMatch == Spec => []SourcesMatch
<1>1. IInv => SourcesMatch
  BY CollectionsSound DEF SourcesMatch, Sound
<1>2. QED
  BY <1>1, InitSound, StepSound, PTL DEF Spec

-----------------------------------------------------------------------------
(* Recovery: what the wallet has reported can be had back from the newest  *)
(* vault as long as no two calls overlapped (NothingEverLost), and a save  *)
(* or an unlock that nothing overlapped leaves memory and vault in step    *)
(* (VaultStaysCurrent).                                                    *)
(*                                                                         *)
(* The argument: a call that nothing has overlapped is alone, what it      *)
(* carries to storage is what memory shows, and what it read from storage  *)
(* is still the newest vault; a call that is to open a vault finds the     *)
(* service locked, unless another has overlapped it.                       *)

Saving(k)  == k.at \in {"encrypting", "writing"}
Opening(k) == k.at \in {"reading", "migrating", "opening", "creating", "deriving"}

Alone == \A c, d \in Calls : call[c] # Idle /\ call[d] # Idle => c = d \/ overlap = "now"

OpeningLocked ==
    \A c \in Calls : Opening(call[c]) /\ Unlocked => overlap = "now" /\ ~inStep

FreshCall(k) ==
    /\ Saving(k) => k.vault # NoVault
    /\ Saving(k) /\ Unlocked => Shown(k.vault.signers) = Shown(signers)
    /\ k.at \in {"migrating", "opening"} => k.vault = newest

Fresh == overlap # "now" => \A c \in Calls : FreshCall(call[c])

(* Without overlaps: what was reported is in storage, in memory while it is *)
(* unlocked, and in the vault a call is about to save.                      *)
Shelf ==
    /\ newest = NoVault => reported = {}
    /\ newest # NoVault =>
          newest.version = stored /\ reported \subseteq Shown(newest.signers)
    /\ Unlocked => key = stored /\ reported \subseteq Shown(signers)

Added(k) == {k.address} \ {NoAddress}

KeptCall(k) ==
    /\ Saving(k) => /\ k.vault.version = stored
                    /\ reported \cup Added(k) \subseteq Shown(k.vault.signers)
    /\ k.at \in {"writing", "migrating", "opening", "deriving"} => k.version = stored
    /\ k.at \in {"creating", "deriving"} => newest = NoVault

Kept == overlap = "never" => Shelf /\ \A c \in Calls : KeptCall(call[c])

RInv == Alone /\ OpeningLocked /\ Fresh /\ VaultIsCurrent /\ Kept

---------------------------------------------------------------------------
(* What the changes of a collection do to what it shows.                   *)

LEMMA ShownWithKey ==
    ASSUME NEW s \in Signers, NEW a \in Addresses
    PROVE  Shown(s) \cup {a} \subseteq Shown(WithKey(s, a))
<1> DEFINE t == WithKey(s, a)
<1>1. /\ t.derived = s.derived /\ t.hidden = s.hidden \ {a}
      /\ t.keys = s.keys \cup ({a} \ OnRings(s))
  BY DEF WithKey, Signers
<1>2. OnRings(t) = OnRings(s) BY <1>1 DEF OnRings
<1> HIDE DEF t
<1>3. Shown(s) \cup {a} \subseteq Shown(t) BY <1>1, <1>2 DEF Shown
<1>4. QED BY <1>3 DEF t

(* A collection with a longer keyring and without the key of the address    *)
(* that is shown.                                                           *)
LEMMA ShownLonger ==
    ASSUME NEW s \in Signers, NEW t \in Signers, NEW a \in Addresses,
           \A r \in Rings : s.derived[r] <= t.derived[r],
           a[2] <= t.derived[a[1]],
           t.hidden = s.hidden \ {a}, s.keys \ {a} \subseteq t.keys
    PROVE  Shown(s) \cup {a} \subseteq Shown(t)
<1>1. OnRings(s) \subseteq OnRings(t)
  <2>1. SUFFICES ASSUME NEW b \in OnRings(s) PROVE b \in OnRings(t) OBVIOUS
  <2>2. b \in Addresses /\ b[1] \in Rings /\ b[2] \in Int /\ b[2] <= s.derived[b[1]]
    BY DEF OnRings, Addresses
  <2>3. s.derived[b[1]] \in Int /\ t.derived[b[1]] \in Int
    BY <2>2, SignerAssumption DEF Signers
  <2>4. b[2] <= t.derived[b[1]] BY <2>2, <2>3
  <2>5. QED BY <2>2, <2>4 DEF OnRings
<1>2. a \in OnRings(t) BY DEF OnRings
<1>3. QED BY <1>1, <1>2 DEF Shown

LEMMA ShownWithRing ==
    ASSUME NEW s \in Signers, Sound(s), NEW r \in Rings
    PROVE  Shown(s) \cup {<<r, 1>>} \subseteq Shown(WithRing(s, r))
<1> DEFINE t == WithRing(s, r)
           a == <<r, 1>>
<1>1. a \in Addresses /\ a[1] = r /\ a[2] = 1
  BY SignerAssumption DEF Addresses
<1>2. s.derived \in [Rings -> 0..MaxDerived] /\ MaxDerived \in Int
  BY SignerAssumption DEF Signers
<1>3. t \in Signers BY WithRingSound
<1>4. t.hidden = s.hidden \ {a} /\ s.keys \ {a} \subseteq t.keys
  BY DEF WithRing, WithoutKey, Signers
<1>5. t.derived = IF s.derived[r] > 0 THEN s.derived ELSE [s.derived EXCEPT ![r] = 1]
  BY DEF WithRing, WithoutKey, Signers
<1> HIDE DEF t, a
<1>6. \A q \in Rings : s.derived[q] \in 0..MaxDerived BY <1>2
<1>7. \A q \in Rings : s.derived[q] <= t.derived[q]
  <2>1. CASE s.derived[r] > 0
    <3>1. t.derived = s.derived BY <1>5, <2>1
    <3>2. QED BY <1>2, <1>6, <3>1
  <2>2. CASE ~(s.derived[r] > 0)
    <3>1. \A q \in Rings : t.derived[q] = IF q = r THEN 1 ELSE s.derived[q]
      BY <1>2, <1>5, <2>2
    <3>2. QED BY <1>2, <1>6, <2>2, <3>1
  <2>3. QED BY <2>1, <2>2
<1>8. a[2] <= t.derived[a[1]]
  <2>1. s.derived[r] \in Int BY <1>2, <1>6
  <2>2. CASE s.derived[r] > 0 BY <1>1, <1>5, <2>1, <2>2
  <2>3. CASE ~(s.derived[r] > 0)
    <3>1. t.derived[r] = 1 BY <1>2, <1>5, <2>3
    <3>2. QED BY <1>1, <3>1
  <2>4. QED BY <2>2, <2>3
<1>9. QED BY <1>1, <1>3, <1>4, <1>7, <1>8, ShownLonger DEF t, a

LEMMA ShownWithNext ==
    ASSUME NEW s \in Signers, Sound(s), NEW r \in Rings, NEW i \in 1..MaxDerived,
           s.derived[r] > 0, IsNext(s, r, i)
    PROVE  Shown(s) \cup {<<r, i>>} \subseteq Shown(WithNext(s, r, i))
<1> DEFINE t == WithNext(s, r, i)
           a == <<r, i>>
           n == IF i > s.derived[r] THEN i ELSE s.derived[r]
<1>1. a \in Addresses /\ a[1] = r /\ a[2] = i BY DEF Addresses
<1>2. s.derived \in [Rings -> 0..MaxDerived] /\ MaxDerived \in Int
  BY SignerAssumption DEF Signers
<1>3. t \in Signers BY WithNextSound
<1>4. /\ t.hidden = s.hidden \ {a} /\ t.keys = s.keys \ {a}
      /\ t.derived = [s.derived EXCEPT ![r] = n]
  <2> DEFINE u == WithoutKey(s, a)
  <2>1. u = [derived |-> s.derived, keys |-> s.keys \ {a}, hidden |-> s.hidden,
             ringSources |-> s.ringSources, keySources |-> s.keySources \ {a}]
    BY <1>1, WithoutKeyParts
  <2>2. t = [u EXCEPT !.derived[r] = IF i > @ THEN i ELSE @, !.hidden = @ \ {a}]
    BY DEF WithNext
  <2> HIDE DEF u, a, t
  <2>3. QED BY <2>1, <2>2, <1>2
<1>5. n \in Int /\ i <= n /\ s.derived[r] <= n /\ s.derived[r] \in Int
  BY <1>2
<1> HIDE DEF t, a, n
<1>6. \A q \in Rings : s.derived[q] \in Int BY <1>2
<1>7. \A q \in Rings : t.derived[q] = IF q = r THEN n ELSE s.derived[q]
  BY <1>2, <1>4
<1>8. \A q \in Rings : s.derived[q] <= t.derived[q] BY <1>5, <1>6, <1>7
<1>9. a[2] <= t.derived[a[1]] BY <1>1, <1>5, <1>7
<1>10. QED BY <1>1, <1>3, <1>4, <1>8, <1>9, ShownLonger DEF t, a

(* A removal takes nothing else away.                                      *)
LEMMA ShownWithout ==
    ASSUME NEW s \in Signers, NEW a \in Held(s)
    PROVE  Shown(s) \ {a} \subseteq Shown(Without(s, a))
<1> DEFINE h == WithoutKey(Hiding(s, a), a)
           r == a[1]
<1>1. a \in Addresses BY DEF Held, OnRings, Signers
<1>2. h = [derived |-> s.derived, keys |-> s.keys \ {a}, hidden |-> s.hidden \cup {a},
           ringSources |-> s.ringSources, keySources |-> s.keySources \ {a}]
  <2> DEFINE g == Hiding(s, a)
  <2>1. g = [derived |-> s.derived, keys |-> s.keys, hidden |-> s.hidden \cup {a},
             ringSources |-> s.ringSources, keySources |-> s.keySources]
    <3>1. s = [derived |-> s.derived, keys |-> s.keys, hidden |-> s.hidden,
               ringSources |-> s.ringSources, keySources |-> s.keySources]
      BY Parts
    <3>2. QED BY <3>1 DEF Hiding
  <2>2. g \in Signers BY <1>1, <2>1 DEF Signers
  <2> HIDE DEF g
  <2>3. h = [derived |-> g.derived, keys |-> g.keys \ {a}, hidden |-> g.hidden,
             ringSources |-> g.ringSources, keySources |-> g.keySources \ {a}]
    BY <1>1, <2>2, WithoutKeyParts DEF g
  <2> HIDE DEF h
  <2>4. QED BY <2>1, <2>3
<1>3. OnRings(h) = OnRings(s) /\ OfRing(h, r) = OfRing(s, r)
  BY <1>2 DEF OnRings, OfRing
<1> HIDE DEF h, r
<1>4. CASE a \in OnRings(s) /\ OfRing(s, r) \subseteq h.hidden
  <2> DEFINE t == WithoutRing(h, r)
             gone == OfRing(h, r)
  <2>1. Without(s, a) = t BY <1>4 DEF Without, h, r
  <2>2. s.derived \in [Rings -> 0..MaxDerived] BY DEF Signers
  <2>3. t = [h EXCEPT !.derived[r] = 0, !.ringSources = @ \ {r}, !.hidden = @ \ gone]
    BY DEF WithoutRing
  <2>4. /\ t.derived = [s.derived EXCEPT ![r] = 0]
        /\ t.keys = s.keys \ {a} /\ t.hidden \subseteq s.hidden \cup {a}
    BY <2>2, <2>3, <1>2
  <2> HIDE DEF t, gone
  <2>5. ASSUME NEW b \in Shown(s) \ {a} PROVE b \in Shown(t)
    <3>1. CASE b \in s.keys BY <2>4, <2>5, <3>1 DEF Shown
    <3>2. CASE b \in OnRings(s) \ s.hidden
      <4>1. b \in Addresses /\ b = <<b[1], b[2]>> /\ b[1] \in Rings
            /\ b[2] \in 1..MaxDerived /\ b[2] <= s.derived[b[1]]
        BY <3>2 DEF OnRings, Addresses
      <4>2. b \notin h.hidden BY <1>2, <2>5, <3>2
      <4>3. b[1] # r
        <5>1. SUFFICES ASSUME b[1] = r PROVE FALSE OBVIOUS
        <5>2. b \in OfRing(s, r) BY <4>1, <5>1, RingAddresses
        <5>3. QED BY <5>2, <4>2, <1>4
      <4>4. t.derived[b[1]] = s.derived[b[1]] BY <2>2, <2>4, <4>1, <4>3
      <4>5. b \in OnRings(t) BY <4>1, <4>4 DEF OnRings
      <4>6. QED BY <4>5, <2>4, <2>5, <3>2 DEF Shown
    <3>3. QED BY <2>5, <3>1, <3>2 DEF Shown
  <2>6. QED BY <2>1, <2>5
<1>5. CASE ~(a \in OnRings(s) /\ OfRing(s, r) \subseteq h.hidden)
  <2>1. Without(s, a) = h BY <1>5 DEF Without, h, r
  <2>2. QED BY <1>2, <1>3, <2>1 DEF Shown
<1>6. QED BY <1>4, <1>5

LEMMA ShownHiding ==
    ASSUME NEW s \in Signers, NEW a \in Addresses \ Held(s)
    PROVE  Shown(Hiding(s, a)) = Shown(s)
<1> DEFINE t == Hiding(s, a)
<1>1. t.derived = s.derived /\ t.keys = s.keys /\ t.hidden = s.hidden \cup {a}
  BY DEF Hiding, Signers
<1>2. OnRings(t) = OnRings(s) BY <1>1 DEF OnRings
<1> HIDE DEF t
<1>3. Shown(t) = Shown(s) BY <1>1, <1>2 DEF Shown, Held
<1>4. QED BY <1>3 DEF t

---------------------------------------------------------------------------
(* Calls that come, go on and go.                                          *)

LEMMA IdleParts == ~Saving(Idle) /\ ~Opening(Idle) /\ Idle.at = "idle"
BY DEF Idle, Saving, Opening

(* Of a call that nothing overlapped, nothing is left when it ends.         *)
LEMMA Ending ==
    ASSUME IInv, Alone, NEW c \in Calls, call[c] # Idle, End(c)
    PROVE  /\ \A d \in Calls : call'[d] # Idle =>
                 d # c /\ call'[d] = call[d] /\ overlap = "now" /\ overlap' = "now"
           /\ overlap' = "never" => overlap = "never"
           /\ overlap' # "now" => \A d \in Calls : call'[d] = Idle
<1>1. call' = [call EXCEPT ![c] = Idle] /\ call \in [Calls -> CallStates]
  BY DEF End, IInv, TypeOK
<1>2. ASSUME NEW d \in Calls, call'[d] # Idle
      PROVE  d # c /\ call'[d] = call[d] /\ overlap = "now" /\ overlap' = "now"
  <2>1. d # c /\ call'[d] = call[d] BY <1>1, <1>2
  <2>2. overlap = "now" BY <1>2, <2>1 DEF Alone
  <2>3. UnderWay # {c} BY <1>2, <2>1 DEF UnderWay
  <2>4. QED BY <2>1, <2>2, <2>3 DEF End
<1>3. overlap' = "never" => overlap = "never" BY DEF End
<1>4. QED BY <1>2, <1>3

(* A call that begins or goes on is alone, or is overlapped.                *)
LEMMA GoingOn ==
    ASSUME IInv, Alone, NEW c \in Calls, NEW k,
           Begin(c, k) \/ (call[c] # Idle /\ Continue(c, k))
    PROVE  /\ call'[c] = k
           /\ overlap' \in {overlap, "now"}
           /\ \A d \in Calls \ {c} :
                 call'[d] = call[d] /\ (call'[d] # Idle => overlap' = "now")
<1>1. call' = [call EXCEPT ![c] = k] /\ call \in [Calls -> CallStates]
  BY DEF Begin, Continue, IInv, TypeOK
<1>2. overlap' \in {overlap, "now"} BY DEF Begin, Continue
<1>3. ASSUME NEW d \in Calls \ {c}
      PROVE  call'[d] = call[d] /\ (call'[d] # Idle => overlap' = "now")
  <2>1. call'[d] = call[d] BY <1>1
  <2>2. CASE Begin(c, k) BY <2>1, <2>2 DEF Begin, UnderWay
  <2>3. CASE call[c] # Idle /\ Continue(c, k) BY <2>1, <2>3 DEF Continue, Alone
  <2>4. QED BY <2>1, <2>2, <2>3
<1>4. QED BY <1>1, <1>2, <1>3

(* A step that ends a call.                                                *)
LEMMA EndStep ==
    ASSUME IInv, RInv, NEW c \in Calls, call[c] # Idle, End(c),
           \/ inStep' = inStep /\ (Unlocked' => Unlocked)
           \/ inStep' = Undisturbed
           \/ ~inStep',
           inStep' \in BOOLEAN,
           VaultIsCurrent',
           overlap = "never" => Shelf'
    PROVE  RInv'
<1>1. Alone BY DEF RInv
<1>2. Alone' BY <1>1, Ending DEF Alone
<1>3. OpeningLocked'
  <2> SUFFICES ASSUME NEW d \in Calls, Opening(call'[d]), Unlocked'
               PROVE  overlap' = "now" /\ ~inStep'
    BY DEF OpeningLocked, Opening
  <2>1. call'[d] # Idle BY IdleParts
  <2>2. call'[d] = call[d] /\ overlap = "now" /\ overlap' = "now" BY <1>1, <2>1, Ending
  <2>3. ~Undisturbed BY <2>2 DEF Undisturbed
  <2>4. Unlocked => ~inStep BY <2>2 DEF RInv, OpeningLocked
  <2>5. QED BY <2>2, <2>3, <2>4
<1>4. overlap' # "now" => \A d \in Calls : call'[d] = Idle BY <1>1, Ending
<1>5. Fresh'
  BY <1>4, IdleParts DEF Fresh, FreshCall, Saving
<1>6. Kept'
  <2>1. overlap' = "never" => overlap = "never" BY <1>1, Ending
  <2>2. QED BY <1>4, <2>1, IdleParts DEF Kept, KeptCall, Saving
<1>7. QED BY <1>2, <1>3, <1>5, <1>6 DEF RInv

(* A step that begins a call, or takes it to its next await.               *)
LEMMA GoOnStep ==
    ASSUME IInv, RInv, NEW c \in Calls, NEW k,
           Begin(c, k) \/ (call[c] # Idle /\ Continue(c, k)),
           (inStep' = inStep /\ (Unlocked' => Unlocked)) \/ ~inStep',
           inStep' \in BOOLEAN,
           Opening(k) /\ Unlocked' => overlap' = "now" /\ ~inStep',
           VaultIsCurrent',
           overlap' # "now" => FreshCall(call[c])',
           overlap' = "never" => Shelf' /\ KeptCall(call[c])'
    PROVE  RInv'
<1>1. /\ call'[c] = k
      /\ \A d \in Calls \ {c} :
            call'[d] = call[d] /\ (call'[d] # Idle => overlap' = "now")
  BY GoingOn DEF RInv
<1>2. Alone' BY <1>1 DEF Alone
<1>3. OpeningLocked'
  <2> SUFFICES ASSUME NEW d \in Calls, Opening(call'[d]), Unlocked'
               PROVE  overlap' = "now" /\ ~inStep'
    BY DEF OpeningLocked, Opening
  <2>1. CASE d = c BY <1>1, <2>1
  <2>2. CASE d # c
    <3>1. call'[d] # Idle /\ call'[d] = call[d] BY <1>1, <2>2, IdleParts
    <3>2. Unlocked => ~inStep BY <3>1 DEF RInv, OpeningLocked
    <3>3. QED BY <1>1, <2>2, <3>1, <3>2
  <2>3. QED BY <2>1, <2>2
<1>4. ASSUME overlap' # "now", NEW d \in Calls PROVE FreshCall(call[d])'
  <2>1. CASE d = c BY <1>4, <2>1
  <2>2. CASE d # c
    <3>1. call'[d] = Idle BY <1>1, <1>4, <2>2
    <3>2. QED BY <3>1, IdleParts DEF FreshCall, Saving
  <2>3. QED BY <2>1, <2>2
<1>5. ASSUME overlap' = "never", NEW d \in Calls PROVE KeptCall(call[d])'
  <2>1. CASE d = c BY <1>5, <2>1
  <2>2. CASE d # c
    <3>1. call'[d] = Idle BY <1>1, <1>5, <2>2
    <3>2. QED BY <3>1, IdleParts DEF KeptCall, Saving
  <2>3. QED BY <2>1, <2>2
<1>6. QED BY <1>2, <1>3, <1>4, <1>5 DEF RInv, Fresh, Kept

(* A step between calls: storage stays, and an unlocked memory shows what   *)
(* it did.                                                                  *)
LEMMA MemoryStep ==
    ASSUME IInv, RInv, UNCHANGED <<newest, stored, call, overlap, inStep>>,
           reported' \subseteq reported,
           Unlocked' => key' = key /\ Shown(signers') = Shown(signers)
    PROVE  RInv'
<1>1. Unlocked' => Unlocked BY DEF Unlocked
<1>2. Alone' /\ OpeningLocked' BY <1>1 DEF RInv, Alone, OpeningLocked, Opening
<1>3. Fresh' BY <1>1 DEF RInv, Fresh, FreshCall, Saving
<1>4. VaultIsCurrent' BY <1>1 DEF RInv, VaultIsCurrent
<1>5. ASSUME overlap' = "never" PROVE Shelf' /\ \A c \in Calls : KeptCall(call[c])'
  <2>1. Shelf /\ \A c \in Calls : KeptCall(call[c]) BY <1>5 DEF RInv, Kept
  <2>2. Shelf' BY <1>1, <2>1 DEF Shelf
  <2>3. \A c \in Calls : KeptCall(call[c])' BY <2>1 DEF KeptCall, Saving, Added
  <2>4. QED BY <2>2, <2>3
<1>6. QED BY <1>2, <1>3, <1>4, <1>5 DEF RInv, Kept

---------------------------------------------------------------------------
(* One step each.                                                          *)

LEMMA PersistingParts ==
    ASSUME NEW s, NEW v, NEW a
    PROVE  LET k == Persisting(s, v, a)
           IN  /\ Saving(k) /\ ~Opening(k) /\ k # Idle /\ k.at = "encrypting"
               /\ k.address = a /\ k.vault.signers = s /\ k.vault.version = v
               /\ k.vault # NoVault
<1> DEFINE k == Persisting(s, v, a)
<1>1. /\ k.at = "encrypting" /\ k.address = a
      /\ k.vault = [version |-> v, signers |-> s]
  BY DEF Persisting
<1>2. k.vault.signers = s /\ k.vault.version = v BY <1>1
<1>3. DOMAIN k.vault = {"version", "signers"} /\ DOMAIN NoVault = {"version"}
  BY <1>1 DEF NoVault
<1>4. "signers" \in DOMAIN k.vault /\ "signers" \notin DOMAIN NoVault BY <1>3
<1>5. k.vault # NoVault BY <1>4
<1>6. QED BY <1>1, <1>2, <1>5 DEF Saving, Opening, Idle

(* A change of memory, saved: all that was reported still shows, and so     *)
(* does the address that will be.                                           *)
LEMMA SavingStep ==
    ASSUME IInv, RInv, NEW c \in Calls, NEW v, NEW a,
           \/ Begin(c, Persisting(signers', v, a))
           \/ call[c] # Idle /\ Continue(c, Persisting(signers', v, a)),
           key' = v, inStep' = FALSE, UNCHANGED <<newest, stored>>,
           reported' \subseteq reported,
           overlap = "never" => /\ v = stored
                                /\ reported' \cup ({a} \ {NoAddress}) \subseteq Shown(signers')
    PROVE  RInv'
<1> DEFINE k == Persisting(signers', v, a)
<1>1. /\ Saving(k) /\ ~Opening(k) /\ k # Idle /\ k.at = "encrypting"
      /\ k.address = a /\ k.vault.signers = signers' /\ k.vault.version = v
      /\ k.vault # NoVault
  BY PersistingParts
<1> HIDE DEF k
<1>2. call'[c] = k /\ overlap' \in {overlap, "now"} BY GoingOn DEF RInv, k
<1>3. VaultIsCurrent' BY DEF VaultIsCurrent
<1>4. FreshCall(call[c])' BY <1>1, <1>2 DEF FreshCall, Saving
<1>5. ASSUME overlap' = "never" PROVE Shelf' /\ KeptCall(call[c])'
  <2>1. overlap = "never" /\ Shelf BY <1>2, <1>5 DEF RInv, Kept
  <2>2. Shelf' BY <2>1 DEF Shelf
  <2>3. KeptCall(call[c])' BY <1>1, <1>2, <2>1 DEF KeptCall, Saving, Added
  <2>4. QED BY <2>2, <2>3
<1>6. QED BY <1>1, <1>3, <1>4, <1>5, GoOnStep DEF k

(* A call whose first await comes before any change.                       *)
LEMMA WaitingStep ==
    ASSUME IInv, RInv, NEW c \in Calls, NEW stage, NEW a, NEW right \in BOOLEAN,
           stage \in {"decrypting", "reading", "creating"},
           Begin(c, Waiting(stage, a, right)),
           stage # "decrypting" => ~Unlocked,
           stage = "creating" => newest = NoVault,
           UNCHANGED <<key, signers, newest, stored, reported, inStep>>
    PROVE  RInv'
<1> DEFINE k == Waiting(stage, a, right)
<1>1. k.at = stage BY DEF Waiting
<1> HIDE DEF k
<1>2. call'[c] = k /\ overlap' \in {overlap, "now"} BY GoingOn DEF RInv, k
<1>3. Unlocked' = Unlocked BY DEF Unlocked
<1>4. Opening(k) => ~Unlocked' BY <1>1, <1>3 DEF Opening
<1>5. VaultIsCurrent' BY <1>3 DEF RInv, VaultIsCurrent
<1>6. FreshCall(call[c])' BY <1>1, <1>2 DEF FreshCall, Saving
<1>7. ASSUME overlap' = "never" PROVE Shelf' /\ KeptCall(call[c])'
  <2>1. overlap = "never" /\ Shelf BY <1>2, <1>7 DEF RInv, Kept
  <2>2. Shelf' BY <1>3, <2>1 DEF Shelf
  <2>3. KeptCall(call[c])' BY <1>1, <1>2 DEF KeptCall, Saving
  <2>4. QED BY <2>2, <2>3
<1>8. inStep' \in BOOLEAN BY DEF IInv, TypeOK
<1>9. QED BY <1>3, <1>4, <1>5, <1>6, <1>7, <1>8, GoOnStep DEF k

LEMMA RequestRecovery ==
    ASSUME IInv, RInv, NEW c \in Calls, Request(c)
    PROVE  RInv'
<1>0. /\ signers \in Signers /\ Sound(signers)
      /\ \A r \in Rings : <<r, 1>> \in Addresses
      /\ overlap = "never" /\ Unlocked => key = stored /\ reported \subseteq Shown(signers)
  BY SignerAssumption DEF IInv, TypeOK, Addresses, RInv, Kept, Shelf
<1>1. ASSUME NEW a \in Addresses, ImportPrivateKey(c, a) PROVE RInv'
  <2>1. Shown(signers) \cup {a} \subseteq Shown(signers')
    BY <1>0, <1>1, ShownWithKey DEF ImportPrivateKey, Change
  <2>2. QED BY <1>0, <1>1, <2>1, SavingStep DEF ImportPrivateKey, Change
<1>2. ASSUME NEW r \in Rings, ImportKeyring(c, r) PROVE RInv'
  <2>1. Shown(signers) \cup {<<r, 1>>} \subseteq Shown(signers')
    BY <1>0, <1>2, ShownWithRing DEF ImportKeyring, Change
  <2>2. QED BY <1>0, <1>2, <2>1, SavingStep DEF ImportKeyring, Change
<1>3. ASSUME NEW r \in Rings, NEW i \in 1..MaxDerived, DeriveAddress(c, r, i) PROVE RInv'
  <2>1. Shown(signers) \cup {<<r, i>>} \subseteq Shown(signers')
    BY <1>0, <1>3, ShownWithNext DEF DeriveAddress, Change
  <2>2. QED BY <1>0, <1>3, <2>1, SavingStep DEF DeriveAddress, Change
<1>4. ASSUME NEW a \in Addresses, RemoveAccount(c, a) PROVE RInv'
  <2>1. Shown(signers) \ {a} \subseteq Shown(signers')
    BY <1>0, <1>4, ShownWithout DEF RemoveAccount, Change
  <2>2. QED BY <1>0, <1>4, <2>1, SavingStep DEF RemoveAccount, Change
<1>5. ASSUME NEW a \in Addresses, ImportJSON(c, a) PROVE RInv'
  BY <1>5, WaitingStep DEF ImportJSON
<1>6. ASSUME NEW right \in BOOLEAN, Unlock(c, right) PROVE RInv'
  BY <1>6, WaitingStep DEF Unlock
<1>7. CASE CreatePassword(c) BY <1>7, WaitingStep DEF CreatePassword
<1>8. QED BY <1>1, <1>2, <1>3, <1>4, <1>5, <1>6, <1>7 DEF Request

(* A step that changes no more than where a call is, or ends it.           *)
LEMMA QuietEnd ==
    ASSUME IInv, RInv, NEW c \in Calls, call[c] # Idle, End(c),
           UNCHANGED <<key, newest, stored, reported>>,
           \/ UNCHANGED <<signers, inStep>>
           \/ ~Unlocked /\ inStep' = FALSE
    PROVE  RInv'
<1>1. Unlocked' = Unlocked BY DEF Unlocked
<1>2. VaultIsCurrent' BY <1>1 DEF RInv, VaultIsCurrent
<1>3. overlap = "never" => Shelf' BY <1>1 DEF RInv, Kept, Shelf
<1>4. inStep' \in BOOLEAN BY DEF IInv, TypeOK
<1>5. QED BY <1>1, <1>2, <1>3, <1>4, EndStep

LEMMA QuietStep ==
    ASSUME IInv, RInv, NEW c \in Calls, call[c] # Idle, NEW k, Continue(c, k),
           UNCHANGED <<key, signers, newest, stored, reported, inStep>>,
           Opening(k) => Opening(call[c]) \/ ~Unlocked,
           overlap # "now" => FreshCall(k),
           overlap = "never" => KeptCall(k)
    PROVE  RInv'
<1>1. Unlocked' = Unlocked BY DEF Unlocked
<1>2. call'[c] = k /\ overlap' = overlap BY GoingOn DEF RInv, Continue
<1>3. Opening(k) /\ Unlocked' => overlap' = "now" /\ ~inStep'
  BY <1>1, <1>2 DEF RInv, OpeningLocked
<1>4. VaultIsCurrent' BY <1>1 DEF RInv, VaultIsCurrent
<1>5. overlap' # "now" => FreshCall(call[c])'
  BY <1>1, <1>2 DEF FreshCall, Saving
<1>6. overlap' = "never" => Shelf' /\ KeptCall(call[c])'
  BY <1>1, <1>2 DEF RInv, Kept, Shelf, KeptCall, Saving, Added
<1>7. inStep' \in BOOLEAN BY DEF IInv, TypeOK
<1>8. QED BY <1>1, <1>3, <1>4, <1>5, <1>6, <1>7, GoOnStep

(* What is left of a call that is taken to its next await.                 *)
LEMMA NextParts ==
    ASSUME NEW k \in CallStates, k # Idle, NEW at, NEW v, NEW w
    PROVE  LET n == [k EXCEPT !.at = at, !.version = v, !.vault = w]
           IN  n.at = at /\ n.version = v /\ n.vault = w /\ n.address = k.address
BY DEF CallStates

LEMMA NextVersion ==
    ASSUME NEW k \in CallStates, k # Idle, NEW at, NEW v
    PROVE  LET n == [k EXCEPT !.at = at, !.version = v]
           IN  n.at = at /\ n.version = v /\ n.vault = k.vault /\ n.address = k.address
BY DEF CallStates

LEMMA NextAt ==
    ASSUME NEW k \in CallStates, k # Idle, NEW at
    PROVE  LET n == [k EXCEPT !.at = at]
           IN  n.at = at /\ n.version = k.version /\ n.vault = k.vault /\ n.address = k.address
BY DEF CallStates

LEMMA SavedRecovery ==
    ASSUME IInv, RInv, NEW c \in Calls, Saved(c)
    PROVE  RInv'
<1> DEFINE k == call[c]
<1>1. Saving(k) /\ k.at = "writing" /\ k # Idle BY DEF Saved, Saving, Idle
<1>2. Unlocked' = Unlocked BY DEF Saved, Unlocked
<1>3. VaultIsCurrent'
  <2>1. CASE overlap = "now" BY <2>1 DEF Saved, Undisturbed, VaultIsCurrent
  <2>2. CASE overlap # "now"
    <3>1. FreshCall(k) BY <2>2 DEF RInv, Fresh
    <3>2. QED BY <1>1, <1>2, <3>1 DEF FreshCall, VaultIsCurrent, Saved
  <2>3. QED BY <2>1, <2>2
<1>4. ASSUME overlap = "never" PROVE Shelf'
  <2>1. Shelf /\ KeptCall(k) /\ FreshCall(k) BY <1>4 DEF RInv, Kept, Fresh
  <2>2. /\ newest' = k.vault /\ stored' = k.version /\ UNCHANGED <<key, signers>>
        /\ reported' = reported \cup Added(k)
    BY DEF Saved, Added
  <2>3. /\ newest' # NoVault /\ newest'.version = stored' /\ stored' = stored
        /\ reported' \subseteq Shown(newest'.signers)
    BY <1>1, <2>1, <2>2 DEF KeptCall, FreshCall
  <2>4. Unlocked' => key' = stored' /\ reported' \subseteq Shown(signers')
    BY <1>1, <1>2, <2>1, <2>2, <2>3 DEF FreshCall, Shelf
  <2> HIDE DEF k
  <2>5. QED BY <2>3, <2>4 DEF Shelf
<1>5. End(c) /\ inStep' = Undisturbed /\ inStep' \in BOOLEAN
  BY DEF Saved, Undisturbed
<1>6. QED BY <1>1, <1>3, <1>4, <1>5, EndStep

LEMMA MigrateRecovery ==
    ASSUME IInv, RInv, NEW c \in Calls, MigrateVaults(c)
    PROVE  RInv'
<1> DEFINE k == call[c]
           w == Migrated(k.vault)
           n == [k EXCEPT !.at = "opening", !.version = "Argon2", !.vault = w]
<1>1. /\ k # Idle /\ k.at = "migrating" /\ Opening(k) /\ Continue(c, n)
      /\ newest' = w /\ stored' = "Argon2" /\ k.vault.version = "PBKDF2"
      /\ UNCHANGED <<key, signers, reported, inStep>>
  BY DEF MigrateVaults, Opening, Idle
<1>2. k \in CallStates /\ inStep \in BOOLEAN BY DEF IInv, TypeOK
<1>3. k.vault \in Vaults
  <2>1. k.vault \in Vaults \cup {NoVault} BY <1>1, <1>2, CallStateParts
  <2>2. QED BY <1>1, <2>1 DEF NoVault
<1>4. w.version = "Argon2" /\ w.signers = k.vault.signers BY <1>3 DEF Migrated, Vaults
<1>5. w # NoVault BY <1>4 DEF NoVault
<1> HIDE DEF w
<1>6. n.at = "opening" /\ n.version = "Argon2" /\ n.vault = w BY <1>1, <1>2, NextParts
<1> HIDE DEF n
<1>7. call'[c] = n /\ overlap' = overlap BY <1>1, GoingOn DEF RInv, Continue
<1>8. Unlocked' = Unlocked /\ (Unlocked => overlap = "now" /\ ~inStep)
  BY <1>1 DEF Unlocked, RInv, OpeningLocked
<1>9. VaultIsCurrent' BY <1>1, <1>8 DEF VaultIsCurrent
<1>10. FreshCall(call[c])' BY <1>1, <1>6, <1>7 DEF FreshCall, Saving
<1>11. ASSUME overlap' = "never" PROVE Shelf' /\ KeptCall(call[c])'
  <2>1. overlap = "never" /\ Shelf /\ FreshCall(k) BY <1>7, <1>11 DEF RInv, Kept, Fresh
  <2>2. k.vault = newest /\ newest # NoVault
    BY <1>1, <1>3, <2>1 DEF FreshCall, NoVault, Vaults
  <2>3. Shelf' BY <1>1, <1>4, <1>5, <1>7, <1>8, <2>1, <2>2 DEF Shelf
  <2>4. KeptCall(call[c])' BY <1>1, <1>6, <1>7 DEF KeptCall, Saving
  <2>5. QED BY <2>3, <2>4
<1> HIDE DEF k
<1>12. QED BY <1>1, <1>2, <1>7, <1>8, <1>9, <1>10, <1>11, GoOnStep DEF k

LEMMA OpenRecovery ==
    ASSUME IInv, RInv, NEW c \in Calls, OpenVault(c)
    PROVE  RInv'
<1> DEFINE k == call[c]
<1>1. /\ k # Idle /\ k.at = "opening" /\ k.vault # NoVault /\ k.vault.version = k.version
      /\ key' = k.version /\ signers' = k.vault.signers
      /\ inStep' = Undisturbed /\ inStep' \in BOOLEAN
      /\ End(c) /\ UNCHANGED <<newest, stored, reported>>
  BY DEF OpenVault, Opens, Idle, Undisturbed
<1>2. overlap # "now" => k.vault = newest BY <1>1 DEF RInv, Fresh, FreshCall
<1>3. VaultIsCurrent' BY <1>1, <1>2 DEF VaultIsCurrent, Undisturbed
<1>4. ASSUME overlap = "never" PROVE Shelf'
  <2>1. Shelf /\ k.version = stored BY <1>1, <1>4 DEF RInv, Kept, KeptCall
  <2>2. QED BY <1>1, <1>2, <1>4, <2>1 DEF Shelf
<1> HIDE DEF k
<1>5. QED BY <1>1, <1>3, <1>4, EndStep DEF k

LEMMA SaveNewRecovery ==
    ASSUME IInv, RInv, NEW c \in Calls, SaveNewVault(c)
    PROVE  RInv'
<1> DEFINE k == call[c]
<1>1. /\ k # Idle /\ k.at = "deriving" /\ key' = k.version /\ inStep' = FALSE
      /\ Continue(c, Persisting(signers', key', NoAddress))
      /\ UNCHANGED <<signers, newest, stored, reported>>
  BY DEF SaveNewVault, Idle
<1>2. ASSUME overlap = "never"
      PROVE  key' = stored /\ reported' \cup ({NoAddress} \ {NoAddress}) \subseteq Shown(signers')
  <2>1. Shelf /\ KeptCall(k) BY <1>2 DEF RInv, Kept
  <2>2. newest = NoVault /\ k.version = stored BY <1>1, <2>1 DEF KeptCall
  <2>3. reported = {} BY <2>1, <2>2 DEF Shelf
  <2>4. QED BY <1>1, <2>2, <2>3
<1>3. reported' \subseteq reported BY <1>1
<1> HIDE DEF k
<1>4. QED BY <1>1, <1>2, <1>3, SavingStep DEF k

LEMMA AddRecovery ==
    ASSUME IInv, RInv, NEW c \in Calls, AddDecrypted(c)
    PROVE  RInv'
<1> DEFINE k == call[c]
<1>1. /\ k # Idle /\ k.at = "decrypting" /\ signers' = WithKey(signers, k.address)
      /\ inStep' = FALSE /\ UNCHANGED <<key, newest, stored, reported>>
  BY DEF AddDecrypted, Idle
<1>2. k \in CallStates /\ SoundCall(k) /\ signers \in Signers
  BY <1>1 DEF IInv, TypeOK
<1>3. k.address \in Addresses BY <1>1, <1>2, CallStateParts DEF SoundCall
<1>4. Shown(signers) \cup {k.address} \subseteq Shown(signers')
  BY <1>1, <1>2, <1>3, ShownWithKey
<1>5. CASE Unlocked
  <2>1. Continue(c, Persisting(signers', key, k.address))
    BY <1>5 DEF AddDecrypted
  <2>2. overlap = "never" => key = stored /\ reported \subseteq Shown(signers)
    BY <1>5 DEF RInv, Kept, Shelf
  <2> HIDE DEF k
  <2>3. QED BY <1>1, <1>4, <2>1, <2>2, SavingStep DEF k
<1>6. CASE ~Unlocked
  <2>1. End(c) BY <1>6 DEF AddDecrypted
  <2> HIDE DEF k
  <2>2. QED BY <1>1, <1>6, <2>1, QuietEnd DEF k
<1>7. QED BY <1>5, <1>6

LEMMA ResumeRecovery ==
    ASSUME IInv, RInv, NEW c \in Calls, Resume(c)
    PROVE  RInv'
<1> DEFINE k == call[c]
<1>0. /\ k \in CallStates /\ k # Idle
      /\ overlap # "now" => FreshCall(k)
      /\ overlap = "never" => Shelf /\ KeptCall(k)
  <2>1. k # Idle
    BY DEF Resume, AddDecrypted, DecryptFails, Encrypted, Saved, SaveFails, ReadVaults,
           MigrateVaults, MigrationFails, OpenVault, OpenFails, DeriveKey, SaveNewVault,
           Idle
  <2>2. QED BY <2>1 DEF IInv, TypeOK, RInv, Fresh, Kept
<1>1. CASE AddDecrypted(c) BY <1>1, AddRecovery
<1>2. CASE DecryptFails(c) BY <1>0, <1>2, QuietEnd DEF DecryptFails
<1>3. CASE Encrypted(c)
  <2> DEFINE n == [k EXCEPT !.at = "writing", !.version = stored]
  <2>1. n.at = "writing" /\ n.version = stored /\ n.vault = k.vault /\ n.address = k.address
    BY <1>0, NextVersion
  <2>2. /\ k.at = "encrypting" /\ Continue(c, n)
        /\ UNCHANGED <<key, signers, newest, stored, reported, inStep>>
    BY <1>3 DEF Encrypted
  <2> HIDE DEF n, k
  <2>3. overlap # "now" => FreshCall(n) BY <1>0, <2>1, <2>2 DEF FreshCall, Saving
  <2>4. overlap = "never" => KeptCall(n) BY <1>0, <2>1, <2>2 DEF KeptCall, Saving, Added
  <2>5. ~Opening(n) BY <2>1 DEF Opening
  <2>6. QED BY <1>0, <2>2, <2>3, <2>4, <2>5, QuietStep DEF k
<1>4. CASE Saved(c) BY <1>4, SavedRecovery
<1>5. CASE SaveFails(c) BY <1>0, <1>5, QuietEnd DEF SaveFails
<1>6. CASE ReadVaults(c)
  <2> DEFINE stage == IF stored = "PBKDF2" THEN "migrating" ELSE "opening"
             n == [k EXCEPT !.at = stage, !.version = stored, !.vault = newest]
  <2>1. n.at = stage /\ n.version = stored /\ n.vault = newest
    BY <1>0, NextParts
  <2>2. /\ k.at = "reading" /\ Continue(c, n)
        /\ UNCHANGED <<key, signers, newest, stored, reported, inStep>>
    BY <1>6 DEF ReadVaults
  <2>3. stage \in {"migrating", "opening"} OBVIOUS
  <2> HIDE DEF n, k, stage
  <2>4. FreshCall(n) BY <2>1, <2>3 DEF FreshCall, Saving
  <2>5. KeptCall(n) BY <2>1, <2>3 DEF KeptCall, Saving
  <2>6. Opening(k) BY <2>2 DEF Opening
  <2>7. QED BY <1>0, <2>2, <2>4, <2>5, <2>6, QuietStep DEF k
<1>7. CASE MigrateVaults(c) BY <1>7, MigrateRecovery
<1>8. CASE MigrationFails(c)
  <2> DEFINE n == [k EXCEPT !.at = "opening"]
  <2>1. n.at = "opening" /\ n.version = k.version /\ n.vault = k.vault
    BY <1>0, NextAt
  <2>2. /\ k.at = "migrating" /\ Continue(c, n)
        /\ UNCHANGED <<key, signers, newest, stored, reported, inStep>>
    BY <1>8 DEF MigrationFails
  <2> HIDE DEF n, k
  <2>3. overlap # "now" => FreshCall(n) BY <1>0, <2>1, <2>2 DEF FreshCall, Saving
  <2>4. overlap = "never" => KeptCall(n) BY <1>0, <2>1, <2>2 DEF KeptCall, Saving
  <2>5. Opening(k) BY <2>2 DEF Opening
  <2>6. QED BY <1>0, <2>2, <2>3, <2>4, <2>5, QuietStep DEF k
<1>9. CASE OpenVault(c) BY <1>9, OpenRecovery
<1>10. CASE OpenFails(c) BY <1>0, <1>10, QuietEnd DEF OpenFails
<1>11. CASE DeriveKey(c)
  <2>1. CASE Unlocked BY <1>0, <1>11, <2>1, QuietEnd DEF DeriveKey
  <2>2. CASE ~Unlocked
    <3> DEFINE n == [k EXCEPT !.at = "deriving", !.version = stored]
    <3>1. n.at = "deriving" /\ n.version = stored BY <1>0, NextVersion
    <3>2. /\ k.at = "creating" /\ Continue(c, n)
          /\ UNCHANGED <<key, signers, newest, stored, reported, inStep>>
      BY <1>11, <2>2 DEF DeriveKey
    <3> HIDE DEF n, k
    <3>3. FreshCall(n) BY <3>1 DEF FreshCall, Saving
    <3>4. overlap = "never" => KeptCall(n) BY <1>0, <3>1, <3>2 DEF KeptCall, Saving
    <3>5. QED BY <1>0, <2>2, <3>2, <3>3, <3>4, QuietStep DEF k
  <2>3. QED BY <2>1, <2>2
<1>12. CASE SaveNewVault(c) BY <1>12, SaveNewRecovery
<1>13. QED
  BY <1>1, <1>2, <1>3, <1>4, <1>5, <1>6, <1>7, <1>8, <1>9, <1>10, <1>11, <1>12
     DEF Resume

LEMMA StepRecovery == IInv /\ RInv /\ [Next]_vars => RInv'
<1> SUFFICES ASSUME IInv, RInv, [Next]_vars PROVE RInv'
  OBVIOUS
<1>0. signers \in Signers BY DEF IInv, TypeOK
<1>1. ASSUME NEW c \in Calls, Request(c) PROVE RInv'
  BY <1>1, RequestRecovery
<1>2. ASSUME NEW c \in Calls, Resume(c) PROVE RInv'
  BY <1>2, ResumeRecovery
<1>3. ASSUME NEW a \in Addresses, RemoveUnknown(a) PROVE RInv'
  <2>1. Shown(signers') = Shown(signers)
    BY <1>0, <1>3, ShownHiding DEF RemoveUnknown
  <2>2. QED BY <1>3, <2>1, MemoryStep DEF RemoveUnknown
<1>4. ASSUME NEW a \in Addresses, RemoveLocked(a) PROVE RInv'
  <2>1. ~Unlocked' BY <1>4 DEF RemoveLocked, Unlocked
  <2>2. QED BY <1>4, <2>1, MemoryStep DEF RemoveLocked
<1>5. CASE Lock
  <2>1. ~Unlocked' BY <1>5 DEF Lock, Unlocked
  <2>2. QED BY <1>5, <2>1, MemoryStep DEF Lock
<1>6. CASE Restart
  <2>1. /\ ~Unlocked' /\ \A c \in Calls : call'[c] = Idle
        /\ UNCHANGED <<newest, stored, reported>>
        /\ overlap' = "never" => overlap = "never"
    BY <1>6 DEF Restart, Unlocked
  <2>2. Alone' /\ OpeningLocked' /\ VaultIsCurrent'
    BY <2>1 DEF Alone, OpeningLocked, VaultIsCurrent
  <2>3. Fresh' BY <2>1, IdleParts DEF Fresh, FreshCall, Saving
  <2>4. ASSUME overlap' = "never" PROVE Shelf' /\ \A c \in Calls : KeptCall(call[c])'
    <3>1. Shelf BY <2>1, <2>4 DEF RInv, Kept
    <3>2. Shelf' BY <2>1, <3>1 DEF Shelf
    <3>3. QED BY <2>1, <3>2, IdleParts DEF KeptCall, Saving
  <2>5. QED BY <2>2, <2>3, <2>4 DEF RInv, Kept
<1>7. CASE UNCHANGED vars
  <2>1. Unlocked' = Unlocked /\ Shown(signers') = Shown(signers)
    BY <1>7 DEF vars, Unlocked
  <2>2. QED BY <1>7, <2>1, MemoryStep DEF vars
<1>8. QED
  BY <1>1, <1>2, <1>3, <1>4, <1>5, <1>6, <1>7 DEF Next

LEMMA InitRecovery == Init => RInv
<1> SUFFICES ASSUME Init PROVE RInv
  OBVIOUS
<1>1. ~Unlocked /\ \A c \in Calls : call[c] = Idle BY DEF Init, Unlocked
<1>2. Alone /\ OpeningLocked /\ VaultIsCurrent
  BY <1>1 DEF Alone, OpeningLocked, VaultIsCurrent
<1>3. Fresh BY <1>1, IdleParts DEF Fresh, FreshCall, Saving
<1>4. \A c \in Calls : KeptCall(call[c]) BY <1>1, IdleParts DEF KeptCall, Saving
<1>5. Shelf
  <2>1. CASE newest = NoVault /\ reported = {} BY <1>1, <2>1 DEF Shelf
  <2>2. ASSUME NEW r \in Rings, NEW v \in Versions,
               newest = [version |-> v, signers |-> OneRing(r)],
               stored = v, reported = {<<r, 1>>}
        PROVE  Shelf
    <3>1. NoSigners \in Signers /\ Sound(NoSigners)
      BY NoSignersSound
    <3>2. reported \subseteq Shown(OneRing(r))
      BY <2>2, <3>1, ShownWithRing DEF OneRing
    <3>3. newest.version = stored /\ newest.signers = OneRing(r) BY <2>2
    <3>4. newest # NoVault
      <4>1. "signers" \in DOMAIN newest /\ "signers" \notin DOMAIN NoVault
        BY <2>2 DEF NoVault
      <4>2. QED BY <4>1
    <3>5. QED BY <1>1, <3>2, <3>3, <3>4 DEF Shelf
  <2>3. QED BY <2>1, <2>2 DEF Init
<1>6. QED BY <1>2, <1>3, <1>4, <1>5 DEF RInv, Kept

---------------------------------------------------------------------------
(* As long as no two calls overlapped, the newest vault opens and shows     *)
(* every account the wallet reported and did not remove, whatever locks,    *)
(* restarts, failed saves and failed migrations there were.                 *)
THEOREM NothingEverLost == Spec => []NothingLost
<1>1. RInv => NothingLost
  BY DEF RInv, Kept, Shelf, NothingLost, Opens
<1>2. QED
  BY <1>1, InitSound, StepSound, InitRecovery, StepRecovery, PTL DEF Spec

(* After a save or an unlock that nothing overlapped, memory shows what the *)
(* newest vault shows until the next change.                                *)
THEOREM VaultStaysCurrent == Spec => []VaultIsCurrent
<1>1. RInv => VaultIsCurrent
  BY DEF RInv
<1>2. QED
  BY <1>1, InitSound, StepSound, InitRecovery, StepRecovery, PTL DEF Spec

-----------------------------------------------------------------------------
(* A locked service.  What is left of LockedHoldsNoKeys, which does not    *)
(* hold: the keyrings are gone for good, and a key comes back only by the  *)
(* import that the lock has overtaken.                                     *)

(* A removal drops signers and adds none.                                   *)
LEMMA WithoutShrinks ==
    ASSUME NEW s \in Signers, NEW a \in Addresses
    PROVE  OnRings(Without(s, a)) \subseteq OnRings(s) /\ Without(s, a).keys \subseteq s.keys
<1> DEFINE g == Hiding(s, a)
           h == WithoutKey(g, a)
           t == WithoutRing(h, a[1])
<1>1. g \in Signers /\ g.derived = s.derived /\ g.keys = s.keys
  BY DEF Hiding, Signers
<1> HIDE DEF g
<1>2. h \in Signers /\ h.derived = s.derived /\ h.keys = s.keys \ {a}
  BY <1>1, WithoutKeyParts
<1> HIDE DEF h
<1>3. t.derived = [s.derived EXCEPT ![a[1]] = 0] /\ t.keys = s.keys \ {a}
  BY <1>2 DEF WithoutRing, Signers
<1>4. Without(s, a) \in {t, h} BY DEF Without, g, h
<1> HIDE DEF t
<1>5. s.derived \in [Rings -> 0..MaxDerived] BY DEF Signers
<1>6. OnRings(t) \subseteq OnRings(s) /\ OnRings(h) \subseteq OnRings(s)
  BY <1>2, <1>3, <1>5, SignerAssumption DEF OnRings, Addresses
<1> QED BY <1>2, <1>3, <1>4, <1>6

(* A step into, or of, the locked service: it clears the signers, or drops  *)
(* some and adds what was decrypted.                                        *)
Cleared == OnRings(signers') = {} /\ signers'.keys = {}

NothingNew ==
    /\ ~Unlocked
    /\ OnRings(signers') \subseteq OnRings(signers)
    /\ signers'.keys \subseteq signers.keys \cup Decrypting

LEMMA ClearedBy ==
    ASSUME NEW H, \/ signers' = NoSigners \/ signers' = [NoSigners EXCEPT !.hidden = H]
    PROVE  Cleared
<1>1. signers'.derived = [r \in Rings |-> 0] /\ signers'.keys = {} BY DEF NoSigners
<1> QED BY <1>1, SignerAssumption DEF Cleared, OnRings, Addresses

LEMMA LockedCall ==
    ASSUME IInv, NEW c \in Calls, Request(c) \/ Resume(c), ~Unlocked'
    PROVE  NothingNew
<1>0. signers \in Signers /\ key \in Versions \cup {"none"} /\ "none" \notin Versions
  BY DEF IInv, TypeOK, Versions
<1>1. ASSUME UNCHANGED <<key, signers>> PROVE NothingNew
  BY <1>1 DEF NothingNew, Unlocked
<1>2. CASE \/ \E a \in Addresses : ImportPrivateKey(c, a) \/ RemoveAccount(c, a)
           \/ \E r \in Rings : \/ ImportKeyring(c, r)
                               \/ \E i \in 1..MaxDerived : DeriveAddress(c, r, i)
  <2>1. Unlocked /\ UNCHANGED key
    BY <1>2 DEF ImportPrivateKey, RemoveAccount, ImportKeyring, DeriveAddress
  <2> QED BY <2>1 DEF Unlocked
<1>3. CASE \/ \E a \in Addresses : ImportJSON(c, a)
           \/ \E right \in BOOLEAN : Unlock(c, right)
           \/ CreatePassword(c)
  BY <1>1, <1>3 DEF ImportJSON, Unlock, CreatePassword
<1>4. CASE AddDecrypted(c)
  <2>1. call[c].at = "decrypting" /\ UNCHANGED key
        /\ signers' = WithKey(signers, call[c].address)
    BY <1>4 DEF AddDecrypted
  <2>2. call[c].address \in Decrypting BY <2>1 DEF Decrypting
  <2>3. /\ signers'.derived = signers.derived
        /\ signers'.keys \subseteq signers.keys \cup {call[c].address}
    BY <1>0, <2>1 DEF WithKey, Signers
  <2> QED BY <2>1, <2>2, <2>3 DEF NothingNew, Unlocked, OnRings
<1>5. CASE OpenVault(c) \/ SaveNewVault(c)
  <2>1. call[c] # Idle BY <1>5 DEF OpenVault, SaveNewVault, Idle
  <2>2. call[c] \in CallStates BY DEF IInv, TypeOK
  <2>3. call[c].version \in Versions BY <2>1, <2>2, CallStateParts
  <2>4. key' = call[c].version BY <1>5 DEF OpenVault, SaveNewVault
  <2> QED BY <1>0, <2>3, <2>4 DEF Unlocked
<1>6. CASE \/ DecryptFails(c) \/ Encrypted(c) \/ Saved(c) \/ SaveFails(c)
           \/ ReadVaults(c) \/ MigrateVaults(c) \/ MigrationFails(c)
           \/ OpenFails(c) \/ DeriveKey(c)
  BY <1>1, <1>6
     DEF DecryptFails, Encrypted, Saved, SaveFails, ReadVaults, MigrateVaults,
         MigrationFails, OpenFails, DeriveKey
<1> QED BY <1>2, <1>3, <1>4, <1>5, <1>6 DEF Request, Resume

LEMMA LockedStep ==
    ASSUME IInv, [Next]_vars, ~Unlocked'
    PROVE  Cleared \/ NothingNew
<1>0. signers \in Signers BY DEF IInv, TypeOK
<1>1. ASSUME NEW c \in Calls, Request(c) \/ Resume(c) PROVE NothingNew
  BY <1>1, LockedCall
<1>2. ASSUME NEW a \in Addresses, RemoveUnknown(a) PROVE NothingNew
  <2>1. UNCHANGED key /\ signers' = Hiding(signers, a) BY <1>2 DEF RemoveUnknown
  <2>2. signers'.derived = signers.derived /\ signers'.keys = signers.keys
    BY <1>0, <2>1 DEF Hiding, Signers
  <2> QED BY <2>1, <2>2 DEF NothingNew, Unlocked, OnRings
<1>3. ASSUME NEW a \in Addresses, RemoveLocked(a) PROVE NothingNew
  <2>1. ~Unlocked /\ signers' = Without(signers, a) BY <1>3 DEF RemoveLocked
  <2> QED BY <1>0, <2>1, WithoutShrinks DEF NothingNew
<1>4. CASE Lock \/ Restart
  BY <1>4, ClearedBy DEF Lock, Restart
<1>5. CASE UNCHANGED vars
  BY <1>5 DEF vars, NothingNew, Unlocked
<1> QED BY <1>1, <1>2, <1>3, <1>4, <1>5 DEF Next

(* No keyring is in the memory of a locked service, whatever calls the lock *)
(* has overtaken: no unlock, import or save that goes on after it brings    *)
(* one back without the password.                                           *)
THEOREM LockedHasNoRings == Spec => []LockedHoldsNoRings
<1>1. Init => LockedHoldsNoRings
  BY SignerAssumption DEF Init, LockedHoldsNoRings, NoSigners, OnRings, Addresses
<1>2. IInv /\ LockedHoldsNoRings /\ [Next]_vars => LockedHoldsNoRings'
  <2> SUFFICES ASSUME IInv, LockedHoldsNoRings, [Next]_vars, ~Unlocked'
               PROVE  OnRings(signers') = {}
    BY DEF LockedHoldsNoRings
  <2> QED BY LockedStep DEF Cleared, NothingNew, LockedHoldsNoRings
<1> QED BY <1>1, <1>2, InitSound, StepSound, PTL DEF Spec

(* A service that is locked, or becomes locked, gains no signer, except for *)
(* the key of a JSON file whose decryption was under way (importSigner).    *)
THEOREM LockedGainsLittle == Spec => LockedGainsOnlyDecrypted
<1>1. IInv /\ [Next]_vars
        => [~Unlocked' => Held(signers)' \subseteq Held(signers) \cup Decrypting]_vars
  <2> SUFFICES ASSUME IInv, [Next]_vars, ~Unlocked'
               PROVE  Held(signers)' \subseteq Held(signers) \cup Decrypting
    OBVIOUS
  <2> QED BY LockedStep DEF Cleared, NothingNew, Held
<1> QED BY <1>1, InitSound, StepSound, PTL DEF Spec, LockedGainsOnlyDecrypted
===============================================================================

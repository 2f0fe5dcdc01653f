---------------------------- MODULE InternalSigner ----------------------------
(***************************************************************************)
(* InternalSignerService: the keyrings and private keys of the wallet.     *)
(* They are in memory while the service is unlocked, and every change of   *)
(* them is written, encrypted, as a new vault behind the older ones in     *)
(* browser storage (storage.ts); an unlock reads the newest.  A call       *)
(* changes memory before its first await and saves after it, so calls      *)
(* overlap with each other, with the lock (by the user or the auto-lock    *)
(* timer) and with a restart of the service worker.                        *)
(*                                                                         *)
(* Key material is abstracted to the addresses it signs for: the i-th      *)
(* address of keyring r is <<r, i>>, and a private key is the address it   *)
(* is the key of.  Only the newest vault is kept here, the only one that   *)
(* is ever opened.  There is one password; an attempt has it or not.       *)
(***************************************************************************)
EXTENDS Integers, FiniteSets

CONSTANTS
    Rings,        \* mnemonics (with a path) the user can import
    MaxDerived,   \* bound: addresses derived from one keyring
    Calls,        \* bound: calls that can be under way together
    MaxCalls      \* bound: calls started

ASSUME SignerAssumption ==
    /\ MaxDerived \in Nat \ {0}
    /\ MaxCalls \in Nat

Addresses == Rings \X (1..MaxDerived)
Versions == {"PBKDF2", "Argon2"}
NoAddress == <<>>
NoVault == [version |-> "none"]

(* What a vault holds; SerializedKeyringData, and the fields of the service.  *)
Signers == [derived : [Rings -> 0..MaxDerived],  \* addresses of each keyring, 0 if absent
            keys : SUBSET Addresses,             \* imported private keys
            hidden : SUBSET Addresses,           \* hiddenAccounts that are true
            ringSources : SUBSET Rings,          \* signerMetadata of keyrings
            keySources : SUBSET Addresses]       \* signerMetadata of private keys

(* A vault and the key derivation of the key it is encrypted with.            *)
Vaults == [version : Versions, signers : Signers]

NoSigners == [derived |-> [r \in Rings |-> 0], keys |-> {}, hidden |-> {},
              ringSources |-> {}, keySources |-> {}]

VARIABLES
    key,        \* #cachedKey: "none" if locked, else the derivation of the key
    signers,    \* #keyrings, #privateKeys, #hiddenAccounts, #signerMetadata
    newest,     \* the last vault in storage
    stored,     \* the version noted beside the vaults in storage
    call,       \* the calls under way, each at one of its awaits
    overlap,    \* history: two calls under way "never", "now" or in the "past"
    reported,   \* history: addresses reported as added and not removed since
    inStep,     \* history: memory was saved or loaded, undisturbed, and not changed since
    started     \* number of calls started

vars == <<key, signers, newest, stored, call, overlap, reported, inStep, started>>

Stages == {"decrypting",   \* importSigner: a JSON file is decrypted
           "reading",      \* unlock: the vaults are read from storage
           "migrating",    \* unlock: vaults of version PBKDF2 are encrypted anew
           "opening",      \* unlock: the newest vault is decrypted
           "creating",     \* unlock, ignoring vaults: the vaults are read
           "deriving",     \* the same: the key is derived
           "encrypting",   \* #persistInternalSigners: the new vault is encrypted
           "writing"}      \* writeLatestEncryptedVault: the vaults were read

Idle == [at |-> "idle"]
CallStates ==
    {Idle} \cup
    [at : Stages,
     address : Addresses \cup {NoAddress},  \* imported or derived
     password : BOOLEAN,                    \* the right one was given
     version : Versions,                    \* of the vaults read from storage
     vault : Vaults \cup {NoVault}]         \* read from, or to be put into storage

TypeOK ==
    /\ key \in Versions \cup {"none"}
    /\ signers \in Signers
    /\ newest \in Vaults \cup {NoVault}
    /\ stored \in Versions
    /\ call \in [Calls -> CallStates]
    /\ overlap \in {"never", "now", "past"}
    /\ reported \subseteq Addresses
    /\ inStep \in BOOLEAN
    /\ started \in Nat

---------------------------------------------------------------------------
(* What a collection of signers can sign for.                              *)

OnRings(s) == {a \in Addresses : a[2] <= s.derived[a[1]]}
Held(s) == OnRings(s) \cup s.keys
Shown(s) == (OnRings(s) \ s.hidden) \cup s.keys

(* importSigner with a private key: #importPrivateKey, #importJSON; the key is *)
(* not added if a signer has its address already, and is shown again.          *)
WithKey(s, a) ==
    LET new == {a} \ OnRings(s)
    IN  [s EXCEPT !.keys = @ \cup new, !.keySources = @ \cup new, !.hidden = @ \ {a}]

WithoutKey(s, a) == [s EXCEPT !.keys = @ \ {a}, !.keySources = @ \ {a}]

(* importSigner with a mnemonic: #importKeyring; the keyring takes over from a *)
(* private key of its first address.                                           *)
WithRing(s, r) ==
    IF s.derived[r] > 0
    THEN [s EXCEPT !.hidden = @ \ {<<r, 1>>}]
    ELSE [WithoutKey(s, <<r, 1>>) EXCEPT !.derived[r] = 1,
                                         !.ringSources = @ \cup {r},
                                         !.hidden = @ \ {<<r, 1>>}]

(* deriveAddress shows the first hidden address before it adds one.            *)
OfRing(s, r) == {<<r, i>> : i \in 1..s.derived[r]}

IsNext(s, r, i) ==
    IF OfRing(s, r) \cap s.hidden = {}
    THEN i = s.derived[r] + 1
    ELSE /\ <<r, i>> \in OfRing(s, r) \cap s.hidden
         /\ \A j \in 1..(i - 1) : <<r, j>> \notin s.hidden

\* Mutant of WithNext: a private key of the derived address stays.
WithNextKeepsKey(s, r, i) ==
    [s EXCEPT !.derived[r] = IF i > @ THEN i ELSE @, !.hidden = @ \ {<<r, i>>}]

WithNext(s, r, i) ==
    [WithoutKey(s, <<r, i>>) EXCEPT !.derived[r] = IF i > @ THEN i ELSE @,
                                    !.hidden = @ \ {<<r, i>>}]

(* removeAccount hides the address; it drops a private key, and the keyring    *)
(* when all its addresses are hidden.                                          *)
Hiding(s, a) == [s EXCEPT !.hidden = @ \cup {a}]

WithoutRing(s, r) ==
    [s EXCEPT !.derived[r] = 0, !.ringSources = @ \ {r}, !.hidden = @ \ OfRing(s, r)]

\* Mutant of Without: a keyring whose addresses are all hidden stays.
WithoutHidesOnly(s, a) == WithoutKey(Hiding(s, a), a)

Without(s, a) ==
    LET h == WithoutKey(Hiding(s, a), a)
    IN  IF a \in OnRings(s) /\ OfRing(s, a[1]) \subseteq h.hidden
        THEN WithoutRing(h, a[1]) ELSE h

---------------------------------------------------------------------------
UnderWay == {c \in Calls : call[c] # Idle}

(* A call that starts at an await, and one that ends.                      *)
Begin(c, state) ==
    /\ call[c] = Idle
    /\ started < MaxCalls
    /\ started' = started + 1
    /\ call' = [call EXCEPT ![c] = state]
    /\ overlap' = IF UnderWay = {} THEN overlap ELSE "now"

Continue(c, state) ==
    /\ call' = [call EXCEPT ![c] = state]
    /\ UNCHANGED <<overlap, started>>

End(c) ==
    /\ call' = [call EXCEPT ![c] = Idle]
    /\ overlap' = IF overlap = "now" /\ UnderWay = {c} THEN "past" ELSE overlap
    /\ UNCHANGED started

Undisturbed == overlap # "now"

(* #persistInternalSigners copies the signers before its first await.      *)
Persisting(s, k, a) ==
    [at |-> "encrypting", address |-> a, password |-> TRUE, version |-> k,
     vault |-> [version |-> k, signers |-> s]]

Waiting(stage, a, right) ==
    [at |-> stage, address |-> a, password |-> right, version |-> "Argon2",
     vault |-> NoVault]

Unlocked == key # "none"

Change(c, s, a) ==
    /\ signers' = s
    /\ inStep' = FALSE
    /\ Begin(c, Persisting(s, key, a))

ImportPrivateKey(c, a) ==
    /\ Unlocked
    /\ Change(c, WithKey(signers, a), a)
    /\ UNCHANGED <<key, newest, stored, reported>>

ImportKeyring(c, r) ==
    /\ Unlocked
    /\ Change(c, WithRing(signers, r), <<r, 1>>)
    /\ UNCHANGED <<key, newest, stored, reported>>

DeriveAddress(c, r, i) ==
    /\ Unlocked
    /\ signers.derived[r] > 0
    /\ IsNext(signers, r, i)
    /\ Change(c, WithNext(signers, r, i), <<r, i>>)
    /\ UNCHANGED <<key, newest, stored, reported>>

(* The accounts the user can ask to remove: the popup lists what the       *)
(* wallet shows, and keeps the list when a lock comes before the removal.  *)
Listed == Shown(signers) \cup
          (IF newest = NoVault THEN {} ELSE Shown(newest.signers))

RemoveAccount(c, a) ==
    /\ Unlocked
    /\ a \in Listed \cap Held(signers)
    /\ Change(c, Without(signers, a), NoAddress)
    /\ reported' = reported \ {a}
    /\ UNCHANGED <<key, newest, stored>>

(* An address without a signer is only marked, and nothing is saved.       *)
RemoveUnknown(a) ==
    /\ a \in Listed \ Held(signers)
    /\ signers' = Hiding(signers, a)
    /\ reported' = reported \ {a}
    /\ UNCHANGED <<key, newest, stored, call, overlap, inStep, started>>

(* While the service is locked a removal that finds a signer changes       *)
(* memory, and then fails to save.                                         *)
RemoveLocked(a) ==
    /\ ~Unlocked
    /\ a \in Listed \cap Held(signers)
    /\ signers' = Without(signers, a)
    /\ reported' = reported \ {a}
    /\ UNCHANGED <<key, newest, stored, call, overlap, inStep, started>>

ImportJSON(c, a) ==
    /\ Unlocked
    /\ Begin(c, Waiting("decrypting", a, TRUE))
    /\ UNCHANGED <<key, signers, newest, stored, reported, inStep>>

\* Mutant of AddDecrypted: persisting while locked does nothing, where the code
\* throws.
AddDecryptedQuietly(c) ==
    /\ call[c].at = "decrypting"
    /\ signers' = WithKey(signers, call[c].address)
    /\ inStep' = FALSE
    /\ IF Unlocked THEN Continue(c, Persisting(signers', key, call[c].address))
                   ELSE End(c)
    /\ reported' = IF Unlocked THEN reported ELSE reported \cup {call[c].address}
    /\ UNCHANGED <<key, newest, stored>>

(* The decrypted key is added whether or not the service is still          *)
(* unlocked; if it is not, the import fails when it wants to save.         *)
AddDecrypted(c) ==
    /\ call[c].at = "decrypting"
    /\ signers' = WithKey(signers, call[c].address)
    /\ inStep' = FALSE
    /\ IF Unlocked THEN Continue(c, Persisting(signers', key, call[c].address))
                   ELSE End(c)
    /\ UNCHANGED <<key, newest, stored, reported>>

DecryptFails(c) ==
    /\ call[c].at = "decrypting"
    /\ End(c)
    /\ UNCHANGED <<key, signers, newest, stored, reported, inStep>>

(* Encryption, and the read of the vaults it is to be put behind.          *)
Encrypted(c) ==
    /\ call[c].at = "encrypting"
    /\ Continue(c, [call[c] EXCEPT !.at = "writing", !.version = stored])
    /\ UNCHANGED <<key, signers, newest, stored, reported, inStep>>

\* Mutant of Saved: a save that was not made for an address reports one.
SavedReportsAlways(c) ==
    /\ call[c].at = "writing"
    /\ newest' = call[c].vault
    /\ stored' = call[c].version
    /\ inStep' = Undisturbed
    /\ reported' = reported \cup {call[c].address}
    /\ End(c)
    /\ UNCHANGED <<key, signers>>

(* The list that was read is written back with the new vault and with the  *)
(* version that was read; the caller then reports the address.             *)
Saved(c) ==
    /\ call[c].at = "writing"
    /\ newest' = call[c].vault
    /\ stored' = call[c].version
    /\ inStep' = Undisturbed
    /\ reported' = reported \cup ({call[c].address} \ {NoAddress})
    /\ End(c)
    /\ UNCHANGED <<key, signers>>

SaveFails(c) ==
    /\ call[c].at \in {"encrypting", "writing"}
    /\ End(c)
    /\ UNCHANGED <<key, signers, newest, stored, reported, inStep>>

(* unlock, with a vault in storage; an unlocked service answers at once.   *)
Unlock(c, right) ==
    /\ ~Unlocked
    /\ newest # NoVault
    /\ Begin(c, Waiting("reading", NoAddress, right))
    /\ UNCHANGED <<key, signers, newest, stored, reported, inStep>>

ReadVaults(c) ==
    /\ call[c].at = "reading"
    /\ Continue(c, [call[c] EXCEPT !.at = IF stored = "PBKDF2" THEN "migrating"
                                                               ELSE "opening",
                                   !.version = stored, !.vault = newest])
    /\ UNCHANGED <<key, signers, newest, stored, reported, inStep>>

(* Every vault is decrypted and encrypted anew; the list that was read is  *)
(* replaced as a whole.  It takes the right password.                      *)
Migrated(v) == [v EXCEPT !.version = "Argon2"]

MigrateVaults(c) ==
    /\ call[c].at = "migrating"
    /\ call[c].password
    /\ call[c].vault.version = "PBKDF2"
    /\ newest' = Migrated(call[c].vault)
    /\ stored' = "Argon2"
    /\ Continue(c, [call[c] EXCEPT !.at = "opening", !.version = "Argon2",
                                   !.vault = Migrated(call[c].vault)])
    /\ UNCHANGED <<key, signers, reported, inStep>>

MigrationFails(c) ==
    /\ call[c].at = "migrating"
    /\ Continue(c, [call[c] EXCEPT !.at = "opening"])
    /\ UNCHANGED <<key, signers, newest, stored, reported, inStep>>

(* The vault opens if the password and the noted version give its key.     *)
Opens(v, version) == v # NoVault /\ v.version = version

\* Mutant of OpenVault: private keys in memory are kept beside those of the vault.
OpenVaultAdds(c) ==
    LET s == call[c].vault.signers
        kept == signers.keys \ OnRings(s)
    IN  /\ call[c].at = "opening"
        /\ call[c].password
        /\ Opens(call[c].vault, call[c].version)
        /\ key' = call[c].version
        /\ signers' = [s EXCEPT !.keys = @ \cup kept, !.keySources = @ \cup kept]
        /\ inStep' = Undisturbed
        /\ End(c)
        /\ UNCHANGED <<newest, stored, reported>>

OpenVault(c) ==
    /\ call[c].at = "opening"
    /\ call[c].password
    /\ Opens(call[c].vault, call[c].version)
    /\ key' = call[c].version
    /\ signers' = call[c].vault.signers
    /\ inStep' = Undisturbed
    /\ End(c)
    /\ UNCHANGED <<newest, stored, reported>>

OpenFails(c) ==
    /\ call[c].at = "opening"
    /\ ~(call[c].password /\ Opens(call[c].vault, call[c].version))
    /\ End(c)
    /\ UNCHANGED <<key, signers, newest, stored, reported, inStep>>

(* createPassword: unlock without regard to vaults, offered while there is *)
(* none; another such call may have made the key meanwhile.                *)
CreatePassword(c) ==
    /\ ~Unlocked
    /\ newest = NoVault
    /\ Begin(c, Waiting("creating", NoAddress, TRUE))
    /\ UNCHANGED <<key, signers, newest, stored, reported, inStep>>

DeriveKey(c) ==
    /\ call[c].at = "creating"
    /\ IF Unlocked THEN End(c)
       ELSE Continue(c, [call[c] EXCEPT !.at = "deriving", !.version = stored])
    /\ UNCHANGED <<key, signers, newest, stored, reported, inStep>>

SaveNewVault(c) ==
    /\ call[c].at = "deriving"
    /\ key' = call[c].version
    /\ inStep' = FALSE
    /\ Continue(c, Persisting(signers, key', NoAddress))
    /\ UNCHANGED <<signers, newest, stored, reported>>

(* lock, by the user or by the auto-lock timer; it keeps hiddenAccounts.   *)
Lock ==
    /\ Unlocked
    /\ key' = "none"
    /\ signers' = [NoSigners EXCEPT !.hidden = signers.hidden]
    /\ UNCHANGED <<newest, stored, call, overlap, reported, inStep, started>>

Restart ==
    /\ key' = "none"
    /\ signers' = NoSigners
    /\ call' = [c \in Calls |-> Idle]
    /\ overlap' = IF overlap = "now" THEN "past" ELSE overlap
    /\ UNCHANGED <<newest, stored, reported, inStep, started>>

---------------------------------------------------------------------------
(* A new wallet, or one with a keyring saved by this or an older version.  *)
OneRing(r) == WithRing(NoSigners, r)

Init ==
    /\ key = "none"
    /\ signers = NoSigners
    /\ call = [c \in Calls |-> Idle]
    /\ overlap = "never"
    /\ inStep = FALSE
    /\ started = 0
    /\ \/ newest = NoVault /\ stored = "Argon2" /\ reported = {}
       \/ \E r \in Rings, v \in Versions :
            /\ newest = [version |-> v, signers |-> OneRing(r)]
            /\ stored = v
            /\ reported = {<<r, 1>>}

Request(c) ==
    \/ \E a \in Addresses : \/ ImportPrivateKey(c, a)
                            \/ ImportJSON(c, a)
                            \/ RemoveAccount(c, a)
    \/ \E r \in Rings : \/ ImportKeyring(c, r)
                        \/ \E i \in 1..MaxDerived : DeriveAddress(c, r, i)
    \/ \E right \in BOOLEAN : Unlock(c, right)
    \/ CreatePassword(c)

Resume(c) ==
    \/ AddDecrypted(c) \/ DecryptFails(c)
    \/ Encrypted(c) \/ Saved(c) \/ SaveFails(c)
    \/ ReadVaults(c) \/ MigrateVaults(c) \/ MigrationFails(c)
    \/ OpenVault(c) \/ OpenFails(c)
    \/ DeriveKey(c) \/ SaveNewVault(c)

Next ==
    \/ \E c \in Calls : Request(c) \/ Resume(c)
    \/ \E a \in Addresses : RemoveUnknown(a) \/ RemoveLocked(a)
    \/ Lock
    \/ Restart

Spec == Init /\ [][Next]_vars

---------------------------------------------------------------------------
(* Every collection of signers there is: in memory, in storage, and on its *)
(* way between the two.                                                    *)
Collections ==
    {signers}
    \cup (IF newest = NoVault THEN {} ELSE {newest.signers})
    \cup {call[c].vault.signers : c \in {d \in UnderWay : call[d].vault # NoVault}}

(* No address ever has both a keyring and a private key, in memory or in a *)
(* vault: #findSigner would use the keyring, and a removal would drop the  *)
(* one and hide the other.                                                 *)
OneSigner == \A s \in Collections : OnRings(s) \cap s.keys = {}

(* A keyring whose addresses are all hidden is gone: the user could not    *)
(* reach it, and deriveAddress is only offered for keyrings that show.     *)
NoEmptyRing ==
    \A s \in Collections : \A r \in Rings :
        s.derived[r] > 0 => OfRing(s, r) \ s.hidden # {}

(* The signers that have metadata are those that exist:                    *)
(* getSignerSourceForAddress reads the source without a check.             *)
SourcesMatch ==
    \A s \in Collections :
        /\ s.ringSources = {r \in Rings : s.derived[r] > 0}
        /\ s.keySources = s.keys

(* As long as no two calls overlapped, every account the wallet reported   *)
(* and did not remove can be had back from the newest vault, whatever      *)
(* locks, restarts, failed saves and failed migrations there were.         *)
NothingLost ==
    overlap = "never" /\ newest # NoVault =>
        /\ Opens(newest, stored)
        /\ reported \subseteq Shown(newest.signers)

(* Whatever happened before: after a save or an unlock that nothing else   *)
(* overlapped, the unlocked wallet shows what the newest vault shows,      *)
(* until the next change.                                                  *)
VaultIsCurrent ==
    Unlocked /\ inStep => newest # NoVault /\ Shown(newest.signers) = Shown(signers)

(* "Keys are persisted in encrypted form when the service is locked"       *)
(* (index.ts:146) and lock deletes the keyrings: a locked service has no   *)
(* signer in memory.                                                       *)
LockedHoldsNoKeys == ~Unlocked => Held(signers) = {}

(* What breaks LockedHoldsNoKeys, and what cannot.  No keyring outlives a   *)
(* lock, and a locked service comes to a signer only by the decryption of   *)
(* a key file that was under way (lock, importSigner, #importJSON).         *)
LockedHoldsNoRings == ~Unlocked => OnRings(signers) = {}

Decrypting == {call[c].address : c \in {d \in Calls : call[d].at = "decrypting"}}

LockedGainsOnlyDecrypted ==
    [][~Unlocked' => Held(signers)' \subseteq Held(signers) \cup Decrypting]_vars
===============================================================================

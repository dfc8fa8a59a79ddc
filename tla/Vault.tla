------------------------------- MODULE Vault -------------------------------
(* The vault of the Cubensis Connect extension (WalletController and         *)
(* VaultController): the accounts in memory while it is unlocked, their      *)
(* encrypted copy in the extension's storage, and the key in the session     *)
(* storage that lets a restarted service worker go on unlocked.  The user's  *)
(* windows call its operations, which wait for the derivation of a key or    *)
(* the creation of a wallet between two steps, so they interleave; a lock    *)
(* comes at any time, and so does a restart, which loses what has not        *)
(* reached the storage.                                                      *)
(*                                                                           *)
(* A key is named by the salt it is derived from; the right password is what *)
(* lets an operation start, a wrong one changes nothing.  The trash, which   *)
(* nothing reads, is left out.                                               *)
EXTENDS Naturals, Sequences

CONSTANTS
  Accounts,     \* the accounts the user may add
  Windows,      \* user interfaces, each with one operation at a time
  Background,   \* the slot of the restoration at startup
  MaxSalt,      \* bound: salts generated
  MaxWrites,    \* bound: writes to the storage under way
  MaxRestarts   \* bound: restarts

ASSUME VaultAssumption ==
  /\ Background \notin Windows
  /\ {MaxSalt, MaxWrites, MaxRestarts} \subseteq Nat

VARIABLES
  stored,     \* store.WalletController: the salt and the encrypted accounts
  disk,       \* its copy in storage.local
  writes,     \* copies on their way there, oldest first
  session,    \* vaultKeyBytes in storage.session, 0 for none
  key,        \* #vaultKey, 0 for none
  wallets,    \* #wallets
  locked,     \* VaultController's flag, which the windows and pages see
  op,         \* the operation each window waits for
  salts,      \* salts generated so far
  restarts,   \* restarts so far
  kept,       \* history: accounts added, not removed and not lost in a restart
  crossed,    \* history: an operation went on from what another had changed
  torn        \* history: a restart lost a write of a new salt and its vault

memory == <<session, key, wallets>>
stores == <<stored, disk, writes>>
history == <<kept, crossed, torn>>
vars == <<stores, memory, locked, op, salts, restarts, history>>

Slots == Windows \cup {Background}
Keys == 0..MaxSalt
Vaults == [key : Keys, accounts : SUBSET Accounts]
Stores == [salt : Keys, vault : Vaults]

NoVault == [key |-> 0, accounts |-> {}]
NoStore == [salt |-> 0, vault |-> NoVault]

Kinds == {"none", "unlock", "create", "restore", "init", "change", "add", "recode"}
\* `vault` is what unlock and restore decrypt, `added` what add creates
Operations == [kind : Kinds, vault : Vaults, added : SUBSET Accounts]

NoOp == [kind |-> "none", vault |-> NoVault, added |-> {}]

Types ==
  /\ stored \in Stores /\ disk \in Stores
  /\ writes \in Seq(Stores) /\ Len(writes) <= MaxWrites
  /\ session \in Keys /\ key \in Keys
  /\ wallets \subseteq Accounts
  /\ locked \in BOOLEAN
  /\ op \in [Slots -> Operations]
  /\ salts \in 0..MaxSalt /\ restarts \in 0..MaxRestarts
  /\ kept \subseteq Accounts
  /\ crossed \in BOOLEAN /\ torn \in BOOLEAN

\* a vault without a key is no vault
Sensible(v) == v.key = 0 => v = NoVault

SensibleStores ==
  /\ Sensible(stored.vault) /\ Sensible(disk.vault)
  /\ \A i \in 1..Len(writes) : Sensible(writes[i].vault)

\* The types; and no copy of the accounts, wherever it is, is without a key.
TypeOK == Types /\ SensibleStores

Init ==
  /\ stored = NoStore /\ disk = NoStore /\ writes = << >>
  /\ session = 0 /\ key = 0 /\ wallets = {} /\ locked = TRUE
  /\ op = [s \in Slots |-> NoOp]
  /\ salts = 0 /\ restarts = 0
  /\ kept = {} /\ crossed = FALSE /\ torn = FALSE

---------------------------------------------------------------------------
HasVault == stored.vault # NoVault

\* the key in memory opens the vault, and the accounts in memory are its own
Steady ==
  /\ key # 0 /\ stored.salt = key
  /\ stored.vault = [key |-> key, accounts |-> wallets]

\* the wallets of a vault are being created, and not in memory yet
Filling(s) == op[s].kind \in {"create", "restore"}

Start(s, o) == op[s].kind = "none" /\ op' = [op EXCEPT ![s] = o]
Done(s) == op' = [op EXCEPT ![s] = NoOp]

SetVaultKey(k) == key' = k /\ session' = k

\* the writes of the values vs to the store, each of which follows to the disk
Store(vs) ==
  /\ Len(writes) + Len(vs) <= MaxWrites
  /\ stored' = vs[Len(vs)]
  /\ writes' = writes \o vs
  /\ UNCHANGED disk

\* #saveWallets with key k and salt s
Saved(s, k, W) == [salt |-> s, vault |-> [key |-> k, accounts |-> W]]

\* A faulty change of the key that leaves the vault under the old one.
RekeyUnsaved ==
  /\ salts < MaxSalt
  /\ salts' = salts + 1
  /\ SetVaultKey(salts + 1)
  /\ Store(<<[stored EXCEPT !.salt = salts + 1]>>)

\* a new salt in one write, the vault under its key in the next
Rekey ==
  /\ salts < MaxSalt
  /\ salts' = salts + 1
  /\ SetVaultKey(salts + 1)
  /\ Store(<<[stored EXCEPT !.salt = salts + 1], Saved(salts + 1, salts + 1, wallets)>>)

---------------------------------------------------------------------------
(* The operations of a window.  None of them looks at the flag `locked`, and *)
(* initVault not at an earlier vault: it is the windows that offer most only *)
(* while the vault is unlocked, and a lock may overtake what they offer.     *)

\* initVault waits for the key
StartInit(w) ==
  /\ Start(w, [NoOp EXCEPT !.kind = "init"])
  /\ UNCHANGED <<stores, memory, locked, salts, restarts, history>>

FinishInit(w) ==
  /\ op[w].kind = "init"
  /\ Rekey
  /\ locked' = FALSE
  /\ crossed' = (crossed \/ (HasVault /\ ~Steady))
  /\ Done(w)
  /\ UNCHANGED <<wallets, restarts, kept, torn>>

\* unlock reads the salt and the vault, and waits for the key
StartUnlock(w) ==
  /\ HasVault /\ stored.salt = stored.vault.key
  /\ Start(w, [NoOp EXCEPT !.kind = "unlock", !.vault = stored.vault])
  /\ UNCHANGED <<stores, memory, locked, salts, restarts, history>>

\* without a vault there is nothing to open
UnlockNothing(w) ==
  /\ ~HasVault /\ op[w].kind = "none"
  /\ locked' = FALSE
  /\ UNCHANGED <<stores, memory, op, salts, restarts, history>>

\* it has the key, and waits for the wallets
GetKey(w) ==
  /\ op[w].kind = "unlock"
  /\ SetVaultKey(op[w].vault.key)
  /\ crossed' = (crossed \/ stored.vault # op[w].vault)
  /\ op' = [op EXCEPT ![w].kind = "create"]
  /\ UNCHANGED <<stores, wallets, locked, salts, restarts, kept, torn>>

\* the wallets of an unlock or of the restoration are in memory
FillWallets(s) ==
  /\ Filling(s)
  /\ wallets' = op[s].vault.accounts
  /\ locked' = IF op[s].kind = "create" THEN FALSE ELSE locked
  /\ crossed' = (crossed \/ key # op[s].vault.key \/ stored.vault # op[s].vault)
  /\ Done(s)
  /\ UNCHANGED <<stores, session, key, salts, restarts, kept, torn>>

\* newPassword checks the old password and waits for the new key
StartChange(w) ==
  /\ HasVault /\ stored.salt = stored.vault.key
  /\ Start(w, [NoOp EXCEPT !.kind = "change"])
  /\ UNCHANGED <<stores, memory, locked, salts, restarts, history>>

FinishChange(w) ==
  /\ op[w].kind = "change"
  /\ Rekey
  /\ crossed' = (crossed \/ ~Steady)
  /\ Done(w)
  /\ UNCHANGED <<wallets, locked, restarts, kept, torn>>

\* addWallet and batchAddWallets wait for the new wallets
StartAdd(w, A) ==
  /\ Start(w, [NoOp EXCEPT !.kind = "add", !.added = A])
  /\ UNCHANGED <<stores, memory, locked, salts, restarts, history>>

\* A faulty addition that saves before the new wallets are in memory.
FinishAddUnsaved(w) ==
  LET A == op[w].added IN
  /\ op[w].kind = "add"
  /\ wallets' = wallets \cup A
  /\ crossed' = (crossed \/ ~Steady)
  /\ IF key = 0 THEN UNCHANGED <<stores, kept>>
     ELSE Store(<<Saved(stored.salt, key, wallets)>>) /\ kept' = kept \cup A
  /\ Done(w)
  /\ UNCHANGED <<session, key, locked, salts, restarts, torn>>

\* A faulty addition that saves the vault also when there is no key.
FinishAddKeyless(w) ==
  LET A == op[w].added IN
  /\ op[w].kind = "add"
  /\ IF A \subseteq wallets THEN UNCHANGED <<stores, memory, crossed, kept>>
     ELSE /\ wallets' = wallets \cup A
          /\ crossed' = (crossed \/ ~Steady)
          /\ Store(<<Saved(stored.salt, key, wallets \cup A)>>) /\ kept' = kept \cup A
          /\ UNCHANGED <<session, key>>
  /\ Done(w)
  /\ UNCHANGED <<locked, salts, restarts, torn>>

\* without a key the save throws when the wallets are already in memory
FinishAdd(w) ==
  LET A == op[w].added IN
  /\ op[w].kind = "add"
  /\ IF A \subseteq wallets THEN UNCHANGED <<stores, memory, crossed, kept>>
     ELSE /\ wallets' = wallets \cup A
          /\ crossed' = (crossed \/ ~Steady)
          /\ IF key = 0 THEN UNCHANGED <<stores, kept>>
             ELSE Store(<<Saved(stored.salt, key, wallets \cup A)>>) /\ kept' = kept \cup A
          /\ UNCHANGED <<session, key>>
  /\ Done(w)
  /\ UNCHANGED <<locked, salts, restarts, torn>>

\* updateNetworkCode creates the wallets of a network anew, and saves them all
StartRecode(w) ==
  /\ wallets # {}
  /\ Start(w, [NoOp EXCEPT !.kind = "recode"])
  /\ UNCHANGED <<stores, memory, locked, salts, restarts, history>>

FinishRecode(w) ==
  /\ op[w].kind = "recode"
  /\ IF key = 0 THEN UNCHANGED <<stores, crossed>>
     ELSE /\ Store(<<Saved(stored.salt, key, wallets)>>)
          /\ crossed' = (crossed \/ ~Steady)
  /\ Done(w)
  /\ UNCHANGED <<memory, locked, salts, restarts, kept, torn>>

\* removeWallet; the trash needs the key
Remove(a) ==
  /\ key # 0
  /\ a \in wallets
  /\ wallets' = wallets \ {a}
  /\ Store(<<Saved(stored.salt, key, wallets \ {a})>>)
  /\ kept' = kept \ {a}
  /\ crossed' = (crossed \/ ~Steady)
  /\ UNCHANGED <<session, key, locked, op, salts, restarts, torn>>

---------------------------------------------------------------------------
\* A faulty lock that leaves the key in the session.
LockInMemory ==
  /\ key' = 0 /\ UNCHANGED session
  /\ wallets' = {} /\ locked' = TRUE
  /\ UNCHANGED <<stores, op, salts, restarts, history>>

Lock ==
  /\ SetVaultKey(0)
  /\ wallets' = {} /\ locked' = TRUE
  /\ UNCHANGED <<stores, op, salts, restarts, history>>

\* deleteVault; it throws when there are wallets and no key for the trash
Delete ==
  /\ ~(wallets # {} /\ key = 0)
  /\ SetVaultKey(0)
  /\ wallets' = {} /\ locked' = TRUE
  /\ Store(<<NoStore>>)
  /\ kept' = {}
  /\ UNCHANGED <<op, salts, restarts, crossed, torn>>

\* subscribe: the next copy reaches the storage
Persist ==
  /\ writes # << >>
  /\ disk' = Head(writes)
  /\ writes' = Tail(writes)
  /\ UNCHANGED <<stored, memory, locked, op, salts, restarts, history>>

\* A faulty start that takes the key from the session and restores nothing.
RestartUnrestored(s) ==
  /\ restarts < MaxRestarts
  /\ restarts' = restarts + 1
  /\ s \in {0, session}
  /\ stored' = disk /\ writes' = << >>
  /\ SetVaultKey(s)
  /\ wallets' = {}
  /\ locked' = (s = 0)
  /\ op' = [x \in Slots |-> NoOp]
  /\ kept' = IF writes = << >> THEN kept ELSE kept \cap disk.vault.accounts
  /\ torn' = (torn \/ stored.salt # disk.vault.key \/ disk.salt # disk.vault.key)
  /\ UNCHANGED <<disk, salts, crossed>>

\* The service worker, or with session storage emptied the browser, starts
\* again.  A session key that does not open the vault is dropped, after the
\* flag was set from it.
Restart(s) ==
  LET v == disk.vault
      opens == s # 0 /\ v # NoVault /\ v.key = s
      usable == opens \/ v = NoVault IN
  /\ restarts < MaxRestarts
  /\ restarts' = restarts + 1
  /\ s \in {0, session}
  /\ stored' = disk /\ writes' = << >>
  /\ SetVaultKey(IF usable THEN s ELSE 0)
  /\ wallets' = {}
  /\ locked' = (s = 0)
  /\ op' = [x \in Slots |->
              IF x = Background /\ opens THEN [NoOp EXCEPT !.kind = "restore", !.vault = v] ELSE NoOp]
  /\ kept' = IF writes = << >> THEN kept ELSE kept \cap v.accounts
  /\ torn' = (torn \/ stored.salt # v.key \/ disk.salt # v.key)
  /\ UNCHANGED <<disk, salts, crossed>>

---------------------------------------------------------------------------
Operation(w) ==
  \/ StartInit(w) \/ FinishInit(w)
  \/ StartUnlock(w) \/ UnlockNothing(w) \/ GetKey(w)
  \/ StartChange(w) \/ FinishChange(w)
  \/ \E A \in (SUBSET Accounts) \ {{}} : StartAdd(w, A)
  \/ FinishAdd(w) \/ StartRecode(w) \/ FinishRecode(w)

Next ==
  \/ \E w \in Windows : Operation(w)
  \/ \E s \in Slots : FillWallets(s)
  \/ \E a \in Accounts : Remove(a)
  \/ Lock \/ Delete \/ Persist
  \/ \E s \in Keys : Restart(s)

Spec == Init /\ [][Next]_vars

---------------------------------------------------------------------------
(* Properties.  Each holds as long as no operation has gone on from what     *)
(* another changed while it waited (crossed), and no restart has come before *)
(* the salt of a new password and its vault were both written (torn).        *)

Undisturbed == ~crossed /\ ~torn

\* The key in memory, which a restarted service worker finds in the session,
\* opens the stored vault, and the salt beside the vault leads to it: no mix of
\* password changes, locks and restarts shuts the accounts away.
KeyOpensVault ==
  Undisturbed =>
    /\ stored.salt = stored.vault.key
    /\ key # 0 => stored.vault.key = key

\* An account that was added is in the stored vault until it is removed, even
\* if the service worker restarts.
AccountsKept == Undisturbed => kept \subseteq stored.vault.accounts

\* An unlocked vault has the accounts in memory that its copy has, or is being
\* filled with them.
UnlockedIsReady ==
  Undisturbed /\ ~locked /\ HasVault => Steady \/ \E s \in Slots : Filling(s)

\* While the windows see the vault locked nothing of it is left in memory or
\* in the session, unless an unlock is about to end.
LockedIsClean ==
  Undisturbed /\ locked =>
    \/ session = 0 /\ key = 0 /\ wallets = {}
    \/ \E w \in Windows : op[w].kind = "create"

\* storage.ts of the key in the session: "Cleared on lock and on browser
\* restart".
KeyClearedOnLock ==
  locked /\ (\A s \in Slots : op[s] = NoOp) => session = 0
============================================================================

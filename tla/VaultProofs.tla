---------------------------- MODULE VaultProofs ----------------------------
(* Proofs about Vault: its types, and that while no operation is crossed and *)
(* no restart torn, the key opens the stored vault, accounts are kept, and   *)
(* unlocked and locked mean what the windows think.                          *)
EXTENDS Vault, TLAPS

---------------------------------------------------------------------------
(* The inductive invariant.  What the operations carry over their waits, and *)
(* what is on its way to the storage, holds in every history; the rest only  *)
(* in an undisturbed one.                                                    *)

\* the newest write under way is the store, and without one the disk is
Latest == IF writes = << >> THEN disk = stored ELSE writes[Len(writes)] = stored

\* an unlock and the restoration carry a vault that a key opens
Carried ==
  \A s \in Slots : op[s].kind \in {"unlock", "create", "restore"} => op[s].vault.key # 0

Always == Types /\ session = key /\ Latest /\ SensibleStores /\ Carried

\* the bodies of the properties
Opens == stored.salt = stored.vault.key /\ (key # 0 => stored.vault.key = key)
Keeps == kept \subseteq stored.vault.accounts
Ready == ~locked /\ HasVault => Steady \/ \E s \in Slots : Filling(s)
Clean ==
  locked => \/ session = 0 /\ key = 0 /\ wallets = {}
            \/ \E w \in Windows : op[w].kind = "create"

Calm == Opens /\ Keeps /\ Ready /\ Clean

Inv == Always /\ (Undisturbed => Calm)

---------------------------------------------------------------------------
(* What the shared steps do.                                                 *)

LEMMA StoreMeans ==
  ASSUME Types, SensibleStores, NEW vs \in Seq(Stores), Len(vs) > 0,
         \A i \in 1..Len(vs) : Sensible(vs[i].vault), Store(vs)
  PROVE  /\ stored' = vs[Len(vs)] /\ stored' \in Stores
         /\ disk' = disk
         /\ writes' \in Seq(Stores) /\ Len(writes') <= MaxWrites
         /\ Latest'
         /\ SensibleStores'
  <1>1. writes \in Seq(Stores) /\ Len(writes) \in Nat /\ Len(vs) \in Nat
    BY DEF Types
  <1>2. /\ writes' = writes \o vs /\ disk' = disk
        /\ stored' = vs[Len(vs)] /\ Len(writes) + Len(vs) <= MaxWrites
    BY DEF Store
  <1>3. /\ writes' \in Seq(Stores) /\ Len(writes') = Len(writes) + Len(vs)
        /\ \A i \in 1..Len(writes') :
             writes'[i] = IF i <= Len(writes) THEN writes[i] ELSE vs[i - Len(writes)]
    BY <1>1, <1>2
  <1>4. Latest'
    BY <1>1, <1>2, <1>3 DEF Latest
  <1>5. \A i \in 1..Len(writes') : Sensible(writes'[i].vault)
    <2> SUFFICES ASSUME NEW i \in 1..Len(writes') PROVE Sensible(writes'[i].vault)
      OBVIOUS
    <2>1. CASE i <= Len(writes)
      <3>1. i \in 1..Len(writes) /\ writes'[i] = writes[i]
        BY <1>1, <1>3, <2>1
      <3> QED
        BY <3>1 DEF SensibleStores
    <2>2. CASE ~(i <= Len(writes))
      <3>1. i - Len(writes) \in 1..Len(vs) /\ writes'[i] = vs[i - Len(writes)]
        BY <1>1, <1>3, <2>2
      <3> QED
        BY <3>1
    <2> QED
      BY <2>1, <2>2
  <1>6. Sensible(stored'.vault) /\ stored' \in Stores
    BY <1>1, <1>2
  <1>7. SensibleStores'
    BY <1>2, <1>5, <1>6 DEF SensibleStores, Sensible
  <1> QED
    BY <1>2, <1>3, <1>4, <1>6, <1>7

\* one write: the accounts W under the key in memory
LEMMA SaveMeans ==
  ASSUME Types, SensibleStores, key # 0, NEW W \in SUBSET Accounts,
         Store(<<Saved(stored.salt, key, W)>>)
  PROVE  /\ stored' = Saved(stored.salt, key, W) /\ stored' \in Stores
         /\ disk' \in Stores
         /\ writes' \in Seq(Stores) /\ Len(writes') <= MaxWrites
         /\ Latest'
         /\ SensibleStores'
  <1> DEFINE v == Saved(stored.salt, key, W)
  <1>1. v \in Stores /\ Sensible(v.vault)
    BY DEF Types, Stores, Vaults, Saved, Sensible
  <1> HIDE DEF v
  <1>2. /\ <<v>> \in Seq(Stores) /\ Len(<<v>>) = 1 /\ <<v>>[1] = v
        /\ \A i \in 1..Len(<<v>>) : Sensible(<<v>>[i].vault)
    BY <1>1
  <1>3. Store(<<v>>)
    BY DEF v
  <1>4. /\ stored' = v /\ disk' = disk
        /\ writes' \in Seq(Stores) /\ Len(writes') <= MaxWrites
        /\ Latest' /\ SensibleStores'
    <2> DEFINE vs == <<v>>
    <2>1. /\ vs \in Seq(Stores) /\ Len(vs) = 1 /\ vs[1] = v /\ Store(vs)
          /\ \A i \in 1..Len(vs) : Sensible(vs[i].vault)
      BY <1>2, <1>3
    <2> HIDE DEF vs
    <2> QED
      BY <2>1, StoreMeans
  <1>5. disk' \in Stores
    BY <1>4 DEF Types
  <1> QED
    BY <1>1, <1>4, <1>5 DEF v

\* the vault is emptied
LEMMA ClearMeans ==
  ASSUME Types, SensibleStores, Store(<<NoStore>>)
  PROVE  /\ stored' = NoStore /\ stored' \in Stores
         /\ disk' \in Stores
         /\ writes' \in Seq(Stores) /\ Len(writes') <= MaxWrites
         /\ Latest'
         /\ SensibleStores'
  <1>1. NoStore \in Stores /\ Sensible(NoStore.vault)
    BY VaultAssumption DEF Stores, Vaults, NoStore, NoVault, Sensible, Keys
  <1>2. /\ <<NoStore>> \in Seq(Stores) /\ Len(<<NoStore>>) = 1 /\ <<NoStore>>[1] = NoStore
        /\ \A i \in 1..Len(<<NoStore>>) : Sensible(<<NoStore>>[i].vault)
    BY <1>1
  <1>3. /\ stored' = NoStore /\ disk' = disk
        /\ writes' \in Seq(Stores) /\ Len(writes') <= MaxWrites
        /\ Latest' /\ SensibleStores'
    <2> DEFINE vs == <<NoStore>>
    <2>1. /\ vs \in Seq(Stores) /\ Len(vs) = 1 /\ vs[1] = NoStore /\ Store(vs)
          /\ \A i \in 1..Len(vs) : Sensible(vs[i].vault)
      BY <1>2
    <2> HIDE DEF vs
    <2> QED
      BY <2>1, StoreMeans
  <1> QED
    BY <1>1, <1>3 DEF Types

\* a new key, and the accounts in memory under it
LEMMA RekeyMeans ==
  ASSUME Types, SensibleStores, Rekey
  PROVE  /\ salts' \in 0..MaxSalt /\ key' \in Keys /\ key' # 0 /\ session' = key'
         /\ stored' = Saved(key', key', wallets) /\ stored' \in Stores
         /\ disk' \in Stores
         /\ writes' \in Seq(Stores) /\ Len(writes') <= MaxWrites
         /\ Latest'
         /\ SensibleStores'
  <1> DEFINE k == salts + 1
             u == [stored EXCEPT !.salt = k]
             v == Saved(k, k, wallets)
  <1>1. k \in Keys /\ k # 0 /\ k \in 0..MaxSalt
    BY VaultAssumption DEF Types, Rekey, Keys
  <1>2. salts' = k /\ key' = k /\ session' = k /\ Store(<<u, v>>)
    BY DEF Rekey, SetVaultKey
  <1> HIDE DEF k
  <1>3. u \in Stores /\ Sensible(u.vault)
    BY <1>1 DEF Types, Stores, SensibleStores
  <1>4. v \in Stores /\ Sensible(v.vault)
    BY <1>1 DEF Types, Stores, Vaults, Saved, Sensible
  <1> HIDE DEF u, v
  <1>5. /\ <<u, v>> \in Seq(Stores) /\ Len(<<u, v>>) = 2 /\ <<u, v>>[1] = u /\ <<u, v>>[2] = v
        /\ \A i \in 1..Len(<<u, v>>) : Sensible(<<u, v>>[i].vault)
    <2>1. \A i \in 1..2 : i = 1 \/ i = 2
      OBVIOUS
    <2> QED
      BY <1>3, <1>4, <2>1
  <1>6. /\ stored' = v /\ disk' = disk
        /\ writes' \in Seq(Stores) /\ Len(writes') <= MaxWrites
        /\ Latest' /\ SensibleStores'
    <2> DEFINE vs == <<u, v>>
    <2>1. vs \in Seq(Stores) /\ Len(vs) = 2 /\ vs[2] = v
      BY <1>5
    <2>2. \A i \in 1..Len(vs) : Sensible(vs[i].vault)
      BY <1>5
    <2>3. Store(vs)
      BY <1>2
    <2> HIDE DEF vs
    <2>4. Len(vs) > 0
      BY <2>1
    <2>5. /\ stored' = vs[Len(vs)] /\ disk' = disk
          /\ writes' \in Seq(Stores) /\ Len(writes') <= MaxWrites
          /\ Latest' /\ SensibleStores'
      BY <2>1, <2>2, <2>3, <2>4, StoreMeans
    <2> QED
      BY <2>1, <2>5
  <1> QED
    BY <1>1, <1>2, <1>4, <1>6 DEF Types, v

\* the operations that begin and end
LEMMA OperationFacts ==
  /\ \A k \in {"init", "change", "recode"} :
       [NoOp EXCEPT !.kind = k] \in Operations /\ [NoOp EXCEPT !.kind = k].kind = k
  /\ \A A \in SUBSET Accounts :
       /\ [NoOp EXCEPT !.kind = "add", !.added = A] \in Operations
       /\ [NoOp EXCEPT !.kind = "add", !.added = A].kind = "add"
       /\ [NoOp EXCEPT !.kind = "add", !.added = A].added = A
  /\ \A v \in Vaults, k \in {"unlock", "restore"} :
       /\ [NoOp EXCEPT !.kind = k, !.vault = v] \in Operations
       /\ [NoOp EXCEPT !.kind = k, !.vault = v].kind = k
       /\ [NoOp EXCEPT !.kind = k, !.vault = v].vault = v
  /\ NoOp \in Operations /\ NoOp.kind = "none"
  <1>1. NoVault \in Vaults
    BY VaultAssumption DEF NoVault, Vaults, Keys
  <1> QED
    BY <1>1 DEF NoOp, Operations, Kinds

\* an operation begins
LEMMA StartMeans ==
  ASSUME Types, Carried, NEW s \in Slots, NEW o \in Operations,
         o.kind \notin {"unlock", "create", "restore"} \/ o.vault.key # 0, Start(s, o)
  PROVE  /\ op' \in [Slots -> Operations] /\ Carried'
         /\ op[s].kind = "none" /\ op'[s] = o
         /\ \A t \in Slots \ {s} : op'[t] = op[t]
  BY DEF Start, Types, Carried

\* an operation ends
LEMMA DoneMeans ==
  ASSUME Types, Carried, NEW s \in Slots, Done(s)
  PROVE  /\ op' \in [Slots -> Operations] /\ Carried'
         /\ \A t \in Slots \ {s} : op'[t] = op[t]
  <1>1. NoOp \in Operations /\ NoOp.kind = "none"
    BY OperationFacts
  <1> QED
    BY <1>1 DEF Done, Types, Carried

---------------------------------------------------------------------------
(* What holds in every history.                                              *)

LEMMA AlwaysInit == Init => Always
  <1> SUFFICES ASSUME Init PROVE Always
    OBVIOUS
  <1>1. NoStore \in Stores /\ Sensible(NoStore.vault)
    BY VaultAssumption DEF Stores, Vaults, NoStore, NoVault, Sensible, Keys
  <1>2. << >> \in Seq(Stores) /\ Len(<< >>) = 0
    OBVIOUS
  <1>3. op \in [Slots -> Operations] /\ \A s \in Slots : op[s].kind = "none"
    BY OperationFacts DEF Init
  <1>4. Types
    <2>1. MaxSalt \in Nat /\ MaxWrites \in Nat /\ MaxRestarts \in Nat
      BY VaultAssumption
    <2>2. 0 \in 0..MaxSalt /\ 0 \in 0..MaxRestarts /\ 0 \in Keys /\ Len(<< >>) <= MaxWrites
      BY <2>1, <1>2 DEF Keys
    <2>3. writes \in Seq(Stores) /\ Len(writes) <= MaxWrites
      BY <1>2, <2>2 DEF Init
    <2> QED
      BY <1>1, <1>3, <2>2, <2>3 DEF Types, Init
  <1>5. Latest /\ SensibleStores /\ Carried /\ session = key
    BY <1>1, <1>2, <1>3 DEF Latest, SensibleStores, Carried, Init
  <1> QED
    BY <1>4, <1>5 DEF Always

\* the part of the invariant about the stores, while they do not change
LEMMA StoresUnchanged ==
  ASSUME Always, UNCHANGED stores
  PROVE  /\ stored' \in Stores /\ disk' \in Stores /\ writes' \in Seq(Stores)
         /\ Len(writes') <= MaxWrites /\ Latest' /\ SensibleStores'
  BY DEF Always, Types, stores, Latest, SensibleStores, Sensible

LEMMA VaultOfStored ==
  ASSUME Always
  PROVE  /\ stored.vault \in Vaults /\ disk.vault \in Vaults
         /\ stored.vault.key \in Keys /\ disk.vault.key \in Keys
         /\ stored.vault.accounts \subseteq Accounts /\ disk.vault.accounts \subseteq Accounts
         /\ stored.salt \in Keys /\ disk.salt \in Keys
         /\ HasVault => stored.vault.key # 0
         /\ disk.vault # NoVault => disk.vault.key # 0
  BY DEF Always, Types, Stores, Vaults, SensibleStores, Sensible, HasVault

LEMMA AlwaysOperation ==
  ASSUME Always, NEW w \in Windows, Operation(w)
  PROVE  Always'
  <1> USE DEF Always
  <1>0. w \in Slots
    BY DEF Slots
  <1>1. CASE StartInit(w)
    <2>1. op' \in [Slots -> Operations] /\ Carried'
      BY <1>0, <1>1, OperationFacts, StartMeans DEF StartInit
    <2>2. UNCHANGED stores
      BY <1>1 DEF StartInit
    <2> QED
      BY <1>1, <2>1, <2>2, StoresUnchanged DEF StartInit, Types, memory, history
  <1>2. CASE FinishInit(w)
    <2>1. op' \in [Slots -> Operations] /\ Carried'
      BY <1>0, <1>2, DoneMeans DEF FinishInit
    <2> QED
      BY <1>2, <2>1, RekeyMeans DEF FinishInit, Types
  <1>3. CASE StartUnlock(w)
    <2>1. op' \in [Slots -> Operations] /\ Carried'
      <3> DEFINE o == [NoOp EXCEPT !.kind = "unlock", !.vault = stored.vault]
      <3>1. stored.vault \in Vaults /\ stored.vault.key # 0
        BY <1>3, VaultOfStored DEF StartUnlock
      <3>2. o \in Operations /\ o.vault.key # 0
        BY <3>1, OperationFacts
      <3>3. Start(w, o)
        BY <1>3 DEF StartUnlock
      <3> HIDE DEF o
      <3> QED
        BY <1>0, <3>2, <3>3, StartMeans
    <2>2. UNCHANGED stores
      BY <1>3 DEF StartUnlock
    <2> QED
      BY <1>3, <2>1, <2>2, StoresUnchanged DEF StartUnlock, Types, memory, history
  <1>4. CASE UnlockNothing(w)
    <2>1. UNCHANGED stores
      BY <1>4 DEF UnlockNothing
    <2>2. Carried'
      BY <1>4 DEF UnlockNothing, Carried
    <2> QED
      BY <1>4, <2>1, <2>2, StoresUnchanged DEF UnlockNothing, Types, memory, history
  <1>5. CASE GetKey(w)
    <2>1. op[w] \in Operations /\ op[w].vault.key \in Keys /\ op[w].vault.key # 0
      BY <1>0, <1>5 DEF GetKey, Types, Operations, Vaults, Carried
    <2>2. [op[w] EXCEPT !.kind = "create"] \in Operations
      BY <2>1 DEF Operations, Kinds
    <2>3. op' = [op EXCEPT ![w] = [op[w] EXCEPT !.kind = "create"]]
      BY <1>0, <1>5 DEF GetKey, Types
    <2>4. op' \in [Slots -> Operations] /\ Carried'
      BY <1>0, <2>1, <2>2, <2>3 DEF Types, Carried, Operations
    <2>5. UNCHANGED stores
      BY <1>5 DEF GetKey
    <2>6. crossed' \in BOOLEAN
      BY <1>5 DEF GetKey
    <2> QED
      BY <1>5, <2>1, <2>4, <2>5, <2>6, StoresUnchanged DEF GetKey, SetVaultKey, Types
  <1>6. CASE StartChange(w)
    <2>1. op' \in [Slots -> Operations] /\ Carried'
      BY <1>0, <1>6, OperationFacts, StartMeans DEF StartChange
    <2>2. UNCHANGED stores
      BY <1>6 DEF StartChange
    <2> QED
      BY <1>6, <2>1, <2>2, StoresUnchanged DEF StartChange, Types, memory, history
  <1>7. CASE FinishChange(w)
    <2>1. op' \in [Slots -> Operations] /\ Carried'
      BY <1>0, <1>7, DoneMeans DEF FinishChange
    <2> QED
      BY <1>7, <2>1, RekeyMeans DEF FinishChange, Types
  <1>8. ASSUME NEW A \in (SUBSET Accounts) \ {{}}, StartAdd(w, A)
        PROVE  Always'
    <2>1. op' \in [Slots -> Operations] /\ Carried'
      BY <1>0, <1>8, OperationFacts, StartMeans DEF StartAdd
    <2>2. UNCHANGED stores
      BY <1>8 DEF StartAdd
    <2> QED
      BY <1>8, <2>1, <2>2, StoresUnchanged DEF StartAdd, Types, memory, history
  <1>9. CASE FinishAdd(w)
    <2> DEFINE A == op[w].added
    <2>1. op' \in [Slots -> Operations] /\ Carried'
      BY <1>0, <1>9, DoneMeans DEF FinishAdd
    <2>2. A \subseteq Accounts
      BY <1>0 DEF Types, Operations
    <2>3. CASE UNCHANGED <<stores, memory, crossed, kept>>
      <3>1. UNCHANGED stores
        BY <2>3
      <3> QED
        BY <1>9, <2>1, <2>3, <3>1, StoresUnchanged DEF FinishAdd, Types, memory
    <2>4. CASE /\ wallets' = wallets \cup A /\ key = 0 /\ UNCHANGED <<stores, kept>>
               /\ UNCHANGED <<session, key>> /\ crossed' = (crossed \/ ~Steady)
      <3>1. UNCHANGED stores
        BY <2>4
      <3>2. crossed' \in BOOLEAN
        BY <2>4
      <3> QED
        BY <1>9, <2>1, <2>2, <2>4, <3>1, <3>2, StoresUnchanged DEF FinishAdd, Types
    <2>5. CASE /\ wallets' = wallets \cup A /\ key # 0 /\ kept' = kept \cup A
               /\ Store(<<Saved(stored.salt, key, wallets \cup A)>>)
               /\ UNCHANGED <<session, key>> /\ crossed' = (crossed \/ ~Steady)
      <3>1. wallets \cup A \in SUBSET Accounts
        BY <2>2 DEF Types
      <3>2. crossed' \in BOOLEAN
        BY <2>5
      <3>3. /\ stored' \in Stores /\ disk' \in Stores /\ writes' \in Seq(Stores)
            /\ Len(writes') <= MaxWrites /\ Latest' /\ SensibleStores'
        BY <2>5, <3>1, SaveMeans
      <3> QED
        BY <1>9, <2>1, <2>2, <2>5, <3>1, <3>2, <3>3 DEF FinishAdd, Types
    <2> QED
      BY <1>9, <2>3, <2>4, <2>5 DEF FinishAdd
  <1>10. CASE StartRecode(w)
    <2>1. op' \in [Slots -> Operations] /\ Carried'
      BY <1>0, <1>10, OperationFacts, StartMeans DEF StartRecode
    <2>2. UNCHANGED stores
      BY <1>10 DEF StartRecode
    <2> QED
      BY <1>10, <2>1, <2>2, StoresUnchanged DEF StartRecode, Types, memory, history
  <1>11. CASE FinishRecode(w)
    <2>1. op' \in [Slots -> Operations] /\ Carried'
      BY <1>0, <1>11, DoneMeans DEF FinishRecode
    <2>2. crossed' \in BOOLEAN
      BY <1>11 DEF FinishRecode, Types
    <2>3. /\ stored' \in Stores /\ disk' \in Stores /\ writes' \in Seq(Stores)
          /\ Len(writes') <= MaxWrites /\ Latest' /\ SensibleStores'
      <3>1. CASE key = 0
        BY <1>11, <3>1, StoresUnchanged DEF FinishRecode
      <3>2. CASE key # 0
        <4>1. wallets \in SUBSET Accounts
          BY DEF Types
        <4> QED
          BY <1>11, <3>2, <4>1, SaveMeans DEF FinishRecode
      <3> QED
        BY <3>1, <3>2
    <2> QED
      BY <1>11, <2>1, <2>2, <2>3 DEF FinishRecode, Types, memory
  <1> QED
    BY <1>1, <1>2, <1>3, <1>4, <1>5, <1>6, <1>7, <1>8, <1>9, <1>10, <1>11 DEF Operation

LEMMA PersistMeans ==
  ASSUME Always, Persist
  PROVE  /\ stored' = stored /\ disk' \in Stores /\ writes' \in Seq(Stores)
         /\ Len(writes') <= MaxWrites /\ Latest' /\ SensibleStores'
  <1>1. /\ writes \in Seq(Stores) /\ writes # << >> /\ Len(writes) \in Nat \ {0}
        /\ Len(writes) <= MaxWrites /\ MaxWrites \in Nat
    BY VaultAssumption DEF Always, Types, Persist
  <1>2. /\ writes' = Tail(writes) /\ disk' = Head(writes) /\ stored' = stored
        /\ stored = writes[Len(writes)]
    BY <1>1 DEF Always, Latest, Persist
  <1>3. /\ Tail(writes) \in Seq(Stores) /\ Len(Tail(writes)) = Len(writes) - 1
        /\ \A i \in 1..Len(Tail(writes)) : Tail(writes)[i] = writes[i + 1]
        /\ Head(writes) = writes[1] /\ writes[1] \in Stores
    BY <1>1
  <1>4. Latest'
    <2>1. CASE Len(writes) = 1
      BY <1>1, <1>2, <1>3, <2>1 DEF Latest
    <2>2. CASE Len(writes) # 1
      <3>1. Len(Tail(writes)) \in 1..Len(Tail(writes)) /\ Len(Tail(writes)) + 1 = Len(writes)
        BY <1>1, <1>3, <2>2
      <3>2. Tail(writes)[Len(Tail(writes))] = writes[Len(writes)]
        BY <1>3, <3>1
      <3>3. writes'[Len(writes')] = stored'
        BY <1>2, <3>2
      <3>4. writes' # << >>
        <4>1. Len(writes') # 0
          BY <1>2, <3>1
        <4> QED
          BY <4>1
      <3> QED
        BY <3>3, <3>4 DEF Latest
    <2> QED
      BY <2>1, <2>2
  <1>5. \A i \in 1..Len(writes) : Sensible(writes[i].vault)
    BY DEF Always, SensibleStores
  <1>6. SensibleStores'
    <2>1. Sensible(disk'.vault)
      <3>1. 1 \in 1..Len(writes)
        BY <1>1
      <3> QED
        BY <1>2, <1>3, <1>5, <3>1
    <2>2. \A i \in 1..Len(writes') : Sensible(writes'[i].vault)
      <3> SUFFICES ASSUME NEW i \in 1..Len(Tail(writes)) PROVE Sensible(Tail(writes)[i].vault)
        BY <1>2
      <3>1. i + 1 \in 1..Len(writes) /\ Tail(writes)[i] = writes[i + 1]
        BY <1>1, <1>3
      <3> QED
        BY <1>5, <3>1
    <2>3. Sensible(stored'.vault)
      BY <1>2 DEF Always, SensibleStores
    <2> QED
      BY <2>1, <2>2, <2>3 DEF SensibleStores, Sensible
  <1> QED
    BY <1>1, <1>2, <1>3, <1>4, <1>6

\* after a restart the operations are gone, but for the restoration
LEMMA RestartMeans ==
  ASSUME Always, NEW s \in Keys, Restart(s)
  PROVE  /\ op' \in [Slots -> Operations] /\ Carried'
         /\ stored' = disk /\ disk' = disk /\ writes' = << >>
         /\ Latest' /\ SensibleStores'
         /\ s # 0 /\ disk.vault # NoVault /\ disk.vault.key = s =>
              op'[Background].kind = "restore"
         /\ key' \in {0, s} /\ session' = key'
         /\ key' # 0 => disk.vault.key = s \/ disk.vault = NoVault
  <1> DEFINE v == disk.vault
             opens == s # 0 /\ v # NoVault /\ v.key = s
             r == [NoOp EXCEPT !.kind = "restore", !.vault = v]
             next == [x \in Slots |-> IF x = Background /\ opens THEN r ELSE NoOp]
  <1>1. op' = next
    BY DEF Restart
  <1>2. v \in Vaults /\ (v # NoVault => v.key # 0)
    BY VaultOfStored
  <1>3. r \in Operations /\ r.kind = "restore" /\ r.vault = v
    BY <1>2, OperationFacts
  <1>4. Background \in Slots
    BY DEF Slots
  <1> HIDE DEF v, r
  <1>5. op' \in [Slots -> Operations] /\ Carried' /\ (opens => op'[Background].kind = "restore")
    <2>1. next \in [Slots -> Operations]
      BY <1>3, OperationFacts
    <2>2. \A x \in Slots : (next[x] = r /\ opens) \/ next[x] = NoOp
      OBVIOUS
    <2>3. opens => next[Background] = r
      BY <1>4
    <2> HIDE DEF next
    <2> QED
      BY <1>1, <1>2, <1>3, <2>1, <2>2, <2>3, OperationFacts DEF Carried
  <1>6. stored' = disk /\ disk' = disk /\ writes' = << >>
    BY DEF Restart
  <1>7. << >> \in Seq(Stores) /\ Len(<< >>) = 0
    OBVIOUS
  <1>8. Latest' /\ SensibleStores'
    BY <1>6, <1>7 DEF Always, Latest, SensibleStores, Sensible
  <1>9. /\ key' = (IF opens \/ v = NoVault THEN s ELSE 0) /\ session' = key'
    BY DEF Restart, SetVaultKey, v
  <1> QED
    BY <1>5, <1>6, <1>8, <1>9 DEF v

LEMMA AlwaysKept == Always /\ [Next]_vars => Always'
  <1> SUFFICES ASSUME Always, [Next]_vars PROVE Always'
    OBVIOUS
  <1> USE DEF Always
  <1>1. ASSUME NEW w \in Windows, Operation(w)
        PROVE  Always'
    BY <1>1, AlwaysOperation
  <1>2. ASSUME NEW s \in Slots, FillWallets(s)
        PROVE  Always'
    <2>1. op' \in [Slots -> Operations] /\ Carried'
      BY <1>2, DoneMeans DEF FillWallets
    <2>2. UNCHANGED stores
      BY <1>2 DEF FillWallets
    <2>3. op[s].vault.accounts \subseteq Accounts
      BY DEF Types, Operations, Vaults
    <2>4. crossed' \in BOOLEAN /\ locked' \in BOOLEAN
      BY <1>2 DEF FillWallets, Types
    <2> QED
      BY <1>2, <2>1, <2>2, <2>3, <2>4, StoresUnchanged DEF FillWallets, Types
  <1>3. ASSUME NEW a \in Accounts, Remove(a)
        PROVE  Always'
    <2>1. key # 0 /\ wallets \ {a} \in SUBSET Accounts /\ crossed' \in BOOLEAN
      BY <1>3 DEF Remove, Types
    <2>2. /\ stored' \in Stores /\ disk' \in Stores /\ writes' \in Seq(Stores)
          /\ Len(writes') <= MaxWrites /\ Latest' /\ SensibleStores'
      BY <1>3, <2>1, SaveMeans DEF Remove
    <2> QED
      BY <1>3, <2>1, <2>2 DEF Remove, Types, Carried
  <1>4. CASE Lock
    <2>1. UNCHANGED stores /\ 0 \in Keys /\ Carried'
      BY <1>4, VaultAssumption DEF Lock, Keys, Carried
    <2> QED
      BY <1>4, <2>1, StoresUnchanged DEF Lock, SetVaultKey, Types, history
  <1>5. CASE Delete
    <2>1. 0 \in Keys /\ Carried'
      BY <1>5, VaultAssumption DEF Delete, Keys, Carried
    <2> QED
      BY <1>5, <2>1, ClearMeans DEF Delete, SetVaultKey, Types
  <1>6. CASE Persist
    <2>1. Carried'
      BY <1>6 DEF Persist, Carried
    <2> QED
      BY <1>6, <2>1, PersistMeans DEF Persist, Types, memory, history
  <1>7. ASSUME NEW s \in Keys, Restart(s)
        PROVE  Always'
    <2>1. restarts' \in 0..MaxRestarts
      BY <1>7, VaultAssumption DEF Restart, Types
    <2>2. kept' \subseteq Accounts
      BY <1>7 DEF Restart, Types
    <2>3. key' \in Keys /\ session' = key' /\ wallets' = {} /\ locked' \in BOOLEAN
      <3>1. 0 \in Keys
        BY VaultAssumption DEF Keys
      <3>2. wallets' = {} /\ locked' = (s = 0)
        BY <1>7 DEF Restart
      <3>3. locked' \in BOOLEAN
        BY <3>2
      <3>4. key' \in {0, s} /\ session' = key'
        BY <1>7, RestartMeans
      <3> QED
        BY <3>1, <3>2, <3>3, <3>4
    <2>4. << >> \in Seq(Stores) /\ Len(<< >>) <= MaxWrites
      BY VaultAssumption
    <2>5. torn' \in BOOLEAN /\ salts' = salts /\ crossed' = crossed
      BY <1>7 DEF Restart
    <2> QED
      BY <1>7, <2>1, <2>2, <2>3, <2>4, <2>5, RestartMeans DEF Types
  <1>8. CASE UNCHANGED vars
    <2>1. UNCHANGED stores /\ Carried'
      BY <1>8 DEF vars, Carried
    <2> QED
      BY <1>8, <2>1, StoresUnchanged DEF vars, memory, history, Types
  <1> QED
    BY <1>1, <1>2, <1>3, <1>4, <1>5, <1>6, <1>7, <1>8 DEF Next

---------------------------------------------------------------------------
(* An undisturbed history stays calm.                                        *)

\* the key has just been replaced, or a vault filled or saved
LEMMA SteadyIsCalm ==
  ASSUME Steady', kept' \subseteq wallets',
         locked' => \E w \in Windows : op'[w].kind = "create"
  PROVE  Calm'
  <1>1. /\ key' # 0 /\ stored'.salt = key' /\ stored'.vault = [key |-> key', accounts |-> wallets']
    BY DEF Steady
  <1>2. stored'.vault.key = key' /\ stored'.vault.accounts = wallets'
    BY <1>1
  <1>3. Opens' /\ Keeps'
    BY <1>1, <1>2 DEF Opens, Keeps
  <1>4. Ready'
    BY DEF Ready
  <1>5. Clean'
    BY DEF Clean
  <1> QED
    BY <1>3, <1>4, <1>5 DEF Calm

\* operations that do not change what the windows and the stores say
LEMMA CalmBetween ==
  ASSUME Calm, NEW w \in Windows, NEW k, NEW j, UNCHANGED <<stores, memory, locked, kept>>,
         op[w].kind = k, k \notin {"create", "restore"},
         op'[w].kind = j, \A t \in Slots \ {w} : op'[t] = op[t]
  PROVE  Calm'
  <1>1. \A t \in Slots : Filling(t) => Filling(t)'
    BY DEF Filling
  <1>2. \A u \in Windows : op[u].kind = "create" => op'[u].kind = "create"
    BY DEF Slots
  <1>3. /\ stored' = stored /\ session' = session /\ key' = key /\ wallets' = wallets
        /\ locked' = locked /\ kept' = kept
    BY DEF stores, memory
  <1>4. Opens' /\ Keeps' /\ Clean'
    BY <1>2, <1>3 DEF Calm, Opens, Keeps, Clean
  <1>5. HasVault' = HasVault /\ Steady' = Steady
    BY <1>3 DEF HasVault, Steady
  <1>6. Ready'
    BY <1>1, <1>3, <1>5 DEF Calm, Ready
  <1> QED
    BY <1>4, <1>6 DEF Calm

\* where a key is in memory, a locked vault has an unlock about to end
LEMMA KeyMeansEnding ==
  ASSUME Calm, key # 0, locked
  PROVE  \E w \in Windows : op[w].kind = "create"
  BY DEF Calm, Clean

\* and it still has it when another operation has ended
LEMMA OthersEnd ==
  ASSUME Calm, key # 0, NEW s \in Slots, op[s].kind # "create",
         \A t \in Slots \ {s} : op'[t] = op[t]
  PROVE  locked => \E w \in Windows : op'[w].kind = "create"
  BY KeyMeansEnding DEF Slots

LEMMA KeptInSteady ==
  ASSUME Calm, Steady
  PROVE  kept \subseteq wallets
  <1>1. stored.vault.accounts = wallets
    BY DEF Steady
  <1> QED
    BY <1>1 DEF Calm, Keeps

LEMMA SavedIsSteady ==
  ASSUME key' # 0, stored' = Saved(key', key', wallets')
  PROVE  Steady'
  BY DEF Steady, Saved

LEMMA CalmOperation ==
  ASSUME Always, Calm, NEW w \in Windows, Operation(w), Undisturbed'
  PROVE  Calm'
  <1> USE DEF Always
  <1>0. w \in Slots
    BY DEF Slots
  <1>1. CASE StartInit(w)
    <2>1. op[w].kind = "none" /\ op'[w].kind = "init" /\ \A t \in Slots \ {w} : op'[t] = op[t]
      BY <1>0, <1>1 DEF StartInit, Start, Types, NoOp
    <2> QED
      BY <1>1, <2>1, CalmBetween DEF StartInit, history
  <1>2. CASE FinishInit(w)
    <2>1. HasVault => Steady
      BY <1>2 DEF FinishInit, Undisturbed
    <2>2. kept \subseteq wallets
      <3>1. CASE HasVault
        BY <2>1, <3>1, KeptInSteady
      <3>2. CASE ~HasVault
        BY <3>2 DEF HasVault, NoVault, Calm, Keeps
      <3> QED
        BY <3>1, <3>2
    <2>3. wallets' = wallets /\ kept' = kept /\ locked' = FALSE
      BY <1>2 DEF FinishInit
    <2>4. Steady'
      BY <1>2, <2>3, RekeyMeans, SavedIsSteady DEF FinishInit
    <2> QED
      BY <2>2, <2>3, <2>4, SteadyIsCalm
  <1>3. CASE StartUnlock(w)
    <2>1. stored.vault \in Vaults /\ stored.vault.key # 0
      BY <1>3, VaultOfStored DEF StartUnlock
    <2> DEFINE o == [NoOp EXCEPT !.kind = "unlock", !.vault = stored.vault]
    <2>2. o \in Operations /\ o.kind = "unlock" /\ o.vault.key # 0
      BY <2>1, OperationFacts
    <2>3. Start(w, o)
      BY <1>3 DEF StartUnlock
    <2> HIDE DEF o
    <2>4. op[w].kind = "none" /\ op'[w].kind = "unlock" /\ \A t \in Slots \ {w} : op'[t] = op[t]
      BY <1>0, <2>2, <2>3, StartMeans
    <2> QED
      BY <1>3, <2>4, CalmBetween DEF StartUnlock, history
  <1>4. CASE UnlockNothing(w)
    <2>1. /\ UNCHANGED <<stores, session, key, wallets, kept, op>> /\ locked' = FALSE /\ ~HasVault
      BY <1>4 DEF UnlockNothing, memory, history
    <2>2. ~HasVault'
      BY <2>1 DEF HasVault, stores
    <2>3. stored' = stored
      BY <2>1 DEF stores
    <2> QED
      BY <2>1, <2>2, <2>3 DEF Calm, Opens, Keeps, Ready, Clean
  <1>5. CASE GetKey(w)
    <2>1. stored.vault = op[w].vault /\ key' = op[w].vault.key /\ stored' = stored /\ kept' = kept
      BY <1>5 DEF GetKey, SetVaultKey, Undisturbed, stores
    <2>2. op'[w].kind = "create"
      BY <1>0, <1>5 DEF GetKey, Types, Operations
    <2>3. Opens' /\ Keeps'
      BY <2>1 DEF Calm, Opens, Keeps
    <2>4. Ready'
      BY <1>0, <2>2 DEF Ready, Filling
    <2>5. Clean'
      BY <2>2 DEF Clean
    <2> QED
      BY <2>3, <2>4, <2>5 DEF Calm
  <1>6. CASE StartChange(w)
    <2>1. op[w].kind = "none" /\ op'[w].kind = "change" /\ \A t \in Slots \ {w} : op'[t] = op[t]
      BY <1>0, <1>6 DEF StartChange, Start, Types, NoOp
    <2> QED
      BY <1>6, <2>1, CalmBetween DEF StartChange, history
  <1>7. CASE FinishChange(w)
    <2>1. Steady /\ key # 0
      BY <1>7 DEF FinishChange, Undisturbed, Steady
    <2>2. kept \subseteq wallets
      BY <2>1, KeptInSteady
    <2>3. wallets' = wallets /\ kept' = kept /\ locked' = locked
      BY <1>7 DEF FinishChange
    <2>4. Steady'
      BY <1>7, <2>3, RekeyMeans, SavedIsSteady DEF FinishChange
    <2>5. op[w].kind # "create" /\ \A t \in Slots \ {w} : op'[t] = op[t]
      BY <1>0, <1>7, DoneMeans DEF FinishChange
    <2>6. locked' => \E u \in Windows : op'[u].kind = "create"
      BY <1>0, <2>1, <2>3, <2>5, OthersEnd
    <2> QED
      BY <2>2, <2>3, <2>4, <2>6, SteadyIsCalm
  <1>8. ASSUME NEW A \in (SUBSET Accounts) \ {{}}, StartAdd(w, A)
        PROVE  Calm'
    <2>1. op[w].kind = "none" /\ op'[w].kind = "add" /\ \A t \in Slots \ {w} : op'[t] = op[t]
      BY <1>0, <1>8 DEF StartAdd, Start, Types, NoOp
    <2> QED
      BY <1>8, <2>1, CalmBetween DEF StartAdd, history
  <1>9. CASE FinishAdd(w)
    <2> DEFINE A == op[w].added
    <2>1. op[w].kind = "add" /\ \A t \in Slots \ {w} : op'[t] = op[t]
      BY <1>0, <1>9, DoneMeans DEF FinishAdd
    <2>2. op'[w].kind = "none"
      BY <1>0, <1>9, OperationFacts DEF FinishAdd, Done, Types
    <2>3. CASE UNCHANGED <<stores, memory, crossed, kept>>
      BY <1>9, <2>1, <2>2, <2>3, CalmBetween DEF FinishAdd
    <2>4. CASE ~(UNCHANGED <<stores, memory, crossed, kept>>)
      <3>1. /\ wallets' = wallets \cup A /\ Steady /\ key # 0 /\ key' = key
            /\ kept' = kept \cup A /\ Store(<<Saved(stored.salt, key, wallets \cup A)>>)
            /\ locked' = locked
        BY <1>9, <2>4 DEF FinishAdd, Undisturbed, Steady
      <3>2. wallets \cup A \in SUBSET Accounts
        BY <1>0 DEF Types, Operations
      <3>3. stored' = Saved(stored.salt, key, wallets \cup A)
        BY <3>1, <3>2, SaveMeans
      <3>4. Steady'
        BY <3>1, <3>3, SavedIsSteady DEF Steady
      <3>5. kept' \subseteq wallets'
        BY <3>1, KeptInSteady
      <3>6. locked' => \E u \in Windows : op'[u].kind = "create"
        BY <1>0, <2>1, <3>1, OthersEnd
      <3> QED
        BY <3>4, <3>5, <3>6, SteadyIsCalm
    <2> QED
      BY <2>3, <2>4
  <1>10. CASE StartRecode(w)
    <2>1. op[w].kind = "none" /\ op'[w].kind = "recode" /\ \A t \in Slots \ {w} : op'[t] = op[t]
      BY <1>0, <1>10 DEF StartRecode, Start, Types, NoOp
    <2> QED
      BY <1>10, <2>1, CalmBetween DEF StartRecode, history
  <1>11. CASE FinishRecode(w)
    <2>1. op[w].kind = "recode" /\ \A t \in Slots \ {w} : op'[t] = op[t]
      BY <1>0, <1>11, DoneMeans DEF FinishRecode
    <2>2. op'[w].kind = "none"
      BY <1>0, <1>11, OperationFacts DEF FinishRecode, Done, Types
    <2>3. CASE key = 0
      BY <1>11, <2>1, <2>2, <2>3, CalmBetween DEF FinishRecode
    <2>4. CASE key # 0
      <3>1. /\ UNCHANGED <<memory, locked, kept>> /\ Steady
            /\ Store(<<Saved(stored.salt, key, wallets)>>)
        BY <1>11, <2>4 DEF FinishRecode, Undisturbed
      <3>2. wallets \in SUBSET Accounts
        BY DEF Types
      <3>3. stored' = Saved(stored.salt, key, wallets)
        BY <2>4, <3>1, <3>2, SaveMeans
      <3>4. key' = key /\ wallets' = wallets
        BY <3>1 DEF memory
      <3>5. Steady'
        BY <2>4, <3>1, <3>3, <3>4, SavedIsSteady DEF Steady
      <3>6. locked' => \E u \in Windows : op'[u].kind = "create"
        BY <1>0, <2>1, <2>4, <3>1, OthersEnd
      <3> QED
        BY <3>1, <3>4, <3>5, <3>6, KeptInSteady, SteadyIsCalm
    <2> QED
      BY <2>3, <2>4
  <1> QED
    BY <1>1, <1>2, <1>3, <1>4, <1>5, <1>6, <1>7, <1>8, <1>9, <1>10, <1>11 DEF Operation

LEMMA CalmRestart ==
  ASSUME Always, Calm, NEW s \in Keys, Restart(s), Undisturbed'
  PROVE  Calm'
  <1>1. /\ stored' = disk /\ session' = key' /\ key' \in {0, s}
        /\ key' # 0 => disk.vault.key = s \/ disk.vault = NoVault
        /\ s # 0 /\ disk.vault # NoVault /\ disk.vault.key = s => op'[Background].kind = "restore"
    BY RestartMeans
  <1>2. /\ stored.salt = disk.vault.key /\ disk.salt = disk.vault.key
        /\ s \in {0, session} /\ wallets' = {} /\ locked' = (s = 0)
    BY DEF Restart, Undisturbed
  <1>3. session = key /\ stored.salt = stored.vault.key /\ (key # 0 => stored.vault.key = key)
    BY DEF Always, Calm, Opens
  <1>4. s # 0 => disk.vault.key = s
    BY <1>2, <1>3
  <1>5. Opens'
    BY <1>1, <1>2, <1>4 DEF Opens
  <1>6. Keeps'
    <2>1. CASE writes = << >>
      BY <1>1, <2>1 DEF Restart, Always, Latest, Calm, Keeps
    <2>2. CASE writes # << >>
      BY <1>1, <2>2 DEF Restart, Keeps
    <2> QED
      BY <2>1, <2>2
  <1>7. Ready'
    <2>1. Background \in Slots
      BY DEF Slots
    <2>2. ASSUME ~locked', HasVault' PROVE Filling(Background)'
      <3>1. s # 0 /\ disk.vault # NoVault
        BY <1>1, <1>2, <2>2 DEF HasVault
      <3> QED
        BY <1>1, <1>4, <3>1 DEF Filling
    <2> QED
      BY <2>1, <2>2 DEF Ready
  <1>8. Clean'
    <2>1. ASSUME locked' PROVE session' = 0 /\ key' = 0 /\ wallets' = {}
      BY <1>1, <1>2, <2>1
    <2> QED
      BY <2>1 DEF Clean
  <1> QED
    BY <1>5, <1>6, <1>7, <1>8 DEF Calm

LEMMA CalmFill ==
  ASSUME Always, Calm, NEW s \in Slots, FillWallets(s), Undisturbed'
  PROVE  Calm'
  <1>1. /\ stored' = stored /\ key' = key /\ kept' = kept
        /\ wallets' = op[s].vault.accounts /\ stored.vault = op[s].vault /\ key = op[s].vault.key
        /\ op[s].kind \in {"create", "restore"}
        /\ locked' = IF op[s].kind = "create" THEN FALSE ELSE locked
    BY DEF FillWallets, Filling, Undisturbed, stores
  <1>2. op[s].vault.key # 0 /\ op[s].vault \in Vaults
    BY <1>1 DEF Always, Carried, Types, Operations
  <1>3. Steady'
    BY <1>1, <1>2 DEF Steady, Vaults, Calm, Opens
  <1>4. kept' \subseteq wallets'
    BY <1>1 DEF Calm, Keeps
  <1>5. locked' => \E w \in Windows : op'[w].kind = "create"
    <2>1. CASE op[s].kind = "create"
      BY <1>1, <2>1
    <2>2. CASE op[s].kind # "create"
      <3>1. \A t \in Slots \ {s} : op'[t] = op[t]
        BY DoneMeans DEF FillWallets, Always
      <3>2. key # 0 /\ locked' = locked
        BY <1>1, <1>2, <2>2
      <3> QED
        BY <2>2, <3>1, <3>2, OthersEnd
    <2> QED
      BY <2>1, <2>2
  <1> QED
    BY <1>3, <1>4, <1>5, SteadyIsCalm

LEMMA CalmRemove ==
  ASSUME Always, Calm, NEW a \in Accounts, Remove(a), Undisturbed'
  PROVE  Calm'
  <1>1. /\ key # 0 /\ key' = key /\ wallets' = wallets \ {a} /\ kept' = kept \ {a} /\ Steady
        /\ locked' = locked /\ op' = op /\ Store(<<Saved(stored.salt, key, wallets \ {a})>>)
    BY DEF Remove, Undisturbed
  <1>2. wallets \ {a} \in SUBSET Accounts
    BY DEF Always, Types
  <1>3. stored' = Saved(stored.salt, key, wallets \ {a})
    BY <1>1, <1>2, SaveMeans DEF Always
  <1>4. Steady'
    BY <1>1, <1>3, SavedIsSteady DEF Steady
  <1>5. kept' \subseteq wallets'
    BY <1>1, KeptInSteady
  <1>6. locked' => \E w \in Windows : op'[w].kind = "create"
    BY <1>1 DEF Calm, Clean
  <1> QED
    BY <1>4, <1>5, <1>6, SteadyIsCalm

LEMMA CalmKept == Always /\ Calm /\ [Next]_vars /\ Undisturbed' => Calm'
  <1> SUFFICES ASSUME Always, Calm, [Next]_vars, Undisturbed' PROVE Calm'
    OBVIOUS
  <1>1. CASE Lock
    <2>1. stored' = stored /\ key' = 0 /\ session' = 0 /\ wallets' = {} /\ locked' = TRUE /\ kept' = kept
      BY <1>1 DEF Lock, SetVaultKey, stores, history
    <2> QED
      BY <2>1 DEF Calm, Opens, Keeps, Ready, Clean
  <1>2. CASE Delete
    <2>1. key' = 0 /\ session' = 0 /\ wallets' = {} /\ locked' = TRUE /\ kept' = {}
      BY <1>2 DEF Delete, SetVaultKey
    <2>2. stored' = NoStore
      BY <1>2, ClearMeans DEF Delete, Always
    <2> QED
      BY <2>1, <2>2 DEF Calm, Opens, Keeps, Ready, Clean, NoStore, NoVault
  <1>3. CASE Persist \/ UNCHANGED vars
    <2>1. /\ stored' = stored /\ UNCHANGED <<session, key, wallets, locked, op, kept>>
      BY <1>3 DEF Persist, vars, stores, memory, history
    <2>2. HasVault' = HasVault /\ Steady' = Steady /\ \A s \in Slots : Filling(s)' = Filling(s)
      BY <2>1 DEF HasVault, Steady, Filling
    <2> QED
      BY <2>1, <2>2 DEF Calm, Opens, Keeps, Ready, Clean
  <1> QED
    BY <1>1, <1>2, <1>3, CalmOperation, CalmFill, CalmRemove, CalmRestart DEF Next

---------------------------------------------------------------------------
(* The theorems.                                                             *)

\* A history that is undisturbed has been undisturbed all along.
LEMMA DisturbedForGood == [Next]_vars /\ Undisturbed' => Undisturbed
  <1> SUFFICES ASSUME [Next]_vars, Undisturbed' PROVE Undisturbed
    OBVIOUS
  <1>1. ASSUME NEW w \in Windows, Operation(w)
        PROVE  Undisturbed
    <2>1. torn' = torn /\ (crossed => crossed')
      BY <1>1 DEF Operation, StartInit, FinishInit, StartUnlock, UnlockNothing, GetKey, StartChange,
                  FinishChange, StartAdd, FinishAdd, StartRecode, FinishRecode, history
    <2> QED
      BY <2>1 DEF Undisturbed
  <1>2. ASSUME NEW s \in Slots, FillWallets(s)
        PROVE  Undisturbed
    BY <1>2 DEF FillWallets, Undisturbed
  <1>3. ASSUME NEW a \in Accounts, Remove(a)
        PROVE  Undisturbed
    BY <1>3 DEF Remove, Undisturbed
  <1>4. ASSUME NEW s \in Keys, Restart(s)
        PROVE  Undisturbed
    <2>1. crossed' = crossed /\ (torn => torn')
      BY <1>4 DEF Restart
    <2> QED
      BY <2>1 DEF Undisturbed
  <1>5. CASE Lock \/ Delete \/ Persist \/ UNCHANGED vars
    <2>1. UNCHANGED <<crossed, torn>>
      BY <1>5 DEF Lock, Delete, Persist, history, vars
    <2> QED
      BY <2>1 DEF Undisturbed
  <1> QED
    BY <1>1, <1>2, <1>3, <1>4, <1>5 DEF Next

\* The inductive invariant: whatever happens, the session has the key in
\* memory, the newest write is the store, and an unlock carries a vault with a
\* key; as long as nothing is crossed or torn, the four properties hold.
THEOREM Invariant == Spec => []Inv
  <1>1. Init => Inv
    <2> SUFFICES ASSUME Init PROVE Inv
      OBVIOUS
    <2>1. Calm
      BY DEF Init, Calm, Opens, Keeps, Ready, Clean, NoStore, NoVault
    <2> QED
      BY <2>1, AlwaysInit DEF Inv
  <1>2. Inv /\ [Next]_vars => Inv'
    <2> SUFFICES ASSUME Inv, [Next]_vars PROVE Inv'
      OBVIOUS
    <2>1. Always'
      BY AlwaysKept DEF Inv
    <2>2. ASSUME Undisturbed' PROVE Calm'
      BY <2>2, DisturbedForGood, CalmKept DEF Inv
    <2> QED
      BY <2>1, <2>2 DEF Inv
  <1> QED
    BY <1>1, <1>2, PTL DEF Spec

\* The store, its copies on the way, the memory and the operations keep their
\* types, for any accounts, windows and bounds.
THEOREM TypeCorrect == Spec => []TypeOK
  <1>1. Inv => TypeOK
    BY DEF Inv, Always, TypeOK
  <1> QED
    BY <1>1, Invariant, PTL

\* The key in memory opens the stored vault (newPassword, unlock, restart).
THEOREM KeyOpens == Spec => []KeyOpensVault
  <1>1. Inv => KeyOpensVault
    BY DEF Inv, Calm, Opens, KeyOpensVault
  <1> QED
    BY <1>1, Invariant, PTL

\* No operation, lock or restart loses an account (#saveWallets).
THEOREM NothingLost == Spec => []AccountsKept
  <1>1. Inv => AccountsKept
    BY DEF Inv, Calm, Keeps, AccountsKept
  <1> QED
    BY <1>1, Invariant, PTL

\* An unlocked vault has its accounts in memory, or is about to.
THEOREM Unlocked == Spec => []UnlockedIsReady
  <1>1. Inv => UnlockedIsReady
    BY DEF Inv, Calm, Ready, UnlockedIsReady
  <1> QED
    BY <1>1, Invariant, PTL

\* A locked vault leaves nothing in memory or in the session (lock).
THEOREM Locked == Spec => []LockedIsClean
  <1>1. Inv => LockedIsClean
    BY DEF Inv, Calm, Clean, LockedIsClean
  <1> QED
    BY <1>1, Invariant, PTL
============================================================================

---------------------------- MODULE WalletProofs ----------------------------
(***************************************************************************)
(* keosd keeps what it acknowledged, for every set of wallets and keys.    *)
(*                                                                         *)
(* WalletInv is the inductive invariant: AckedKeysKept with the types.     *)
(* Memory and file need each other: open takes the keys from the file, and *)
(* saving takes them from memory.  The cipher of an unlocked wallet may be *)
(* behind its keys, so the invariant speaks of whichever of the two lock   *)
(* and unlock will use next.                                               *)
(***************************************************************************)
EXTENDS Wallet, TLAPS

Ciphers == [keys : SUBSET Keys, pw : Nat]

SoftWallets == [keys : SUBSET Keys, checksum : Nat, cipher : Ciphers]

WalletTypes ==
  /\ wallets \in [Names -> SoftWallets \cup {NoWallet}]
  /\ file \in [Names -> Ciphers \cup {NoWallet, Torn}]
  /\ acked \in [Names -> Ciphers]
  /\ passwords \in Nat

\* A wallet that has every certain key under the acknowledged password.
Keeps(w, pw, certain) ==
  /\ w.cipher.pw = pw
  /\ IF is_locked(w) THEN w.keys = {} /\ certain \subseteq w.cipher.keys
     ELSE w.checksum = pw /\ certain \subseteq w.keys

WalletInv == WalletTypes /\ AckedKeysKept

\* The invariant for one name.
Kept(n) ==
  /\ wallets[n] # NoWallet => Keeps(wallets[n], acked[n].pw, Certain(n))
  /\ file[n] \notin {NoWallet, Torn} => file[n].pw = acked[n].pw /\ Certain(n) \subseteq file[n].keys
-----------------------------------------------------------------------------
(* soft_wallet *)

\* Encrypting the keys, locking and unlocking keep what a wallet keeps.
LEMMA Encrypted ==
  ASSUME NEW w \in SoftWallets, NEW pw \in Nat, NEW certain, Keeps(w, pw, certain)
  PROVE  /\ encrypt_keys(w) \in SoftWallets /\ Keeps(encrypt_keys(w), pw, certain)
         /\ encrypt_keys(w).cipher \in Ciphers /\ encrypt_keys(w).cipher.pw = pw
         /\ certain \subseteq encrypt_keys(w).cipher.keys
<1>1. CASE is_locked(w)
  <2>1. encrypt_keys(w) = w
    BY <1>1 DEF encrypt_keys
  <2> QED BY <1>1, <2>1 DEF Keeps, SoftWallets
<1>2. CASE ~is_locked(w)
  <2> DEFINE e == encrypt_keys(w)
  <2>1. e = [w EXCEPT !.cipher = Cipher(w.keys, w.checksum)]
    BY <1>2 DEF encrypt_keys
  <2>2. /\ w.keys \in SUBSET Keys /\ w.checksum \in Nat /\ w.checksum # 0 /\ w.checksum = pw
        /\ certain \subseteq w.keys
    BY <1>2 DEF Keeps, SoftWallets, is_locked
  <2>3. /\ e.keys = w.keys /\ e.checksum = w.checksum
        /\ e.cipher = [keys |-> w.keys, pw |-> w.checksum] /\ e \in SoftWallets
    BY <2>1, <2>2 DEF SoftWallets, Cipher, Ciphers
  <2>4. e.cipher.keys = w.keys /\ e.cipher.pw = w.checksum /\ e.cipher \in Ciphers
    BY <2>2, <2>3 DEF Ciphers
  <2> HIDE DEF e
  <2>5. Keeps(e, pw, certain)
    BY <2>2, <2>3, <2>4 DEF Keeps, is_locked
  <2> QED BY <2>2, <2>3, <2>4, <2>5 DEF e
<1> QED BY <1>1, <1>2

\* lock forgets the keys and the password and leaves them in the cipher.
LEMMA Locked ==
  ASSUME NEW w \in SoftWallets, NEW pw \in Nat, NEW certain, Keeps(w, pw, certain)
  PROVE  /\ lock(w) \in SoftWallets /\ Keeps(lock(w), pw, certain) /\ is_locked(lock(w))
<1> DEFINE e == encrypt_keys(w)
           l == lock(w)
<1>1. /\ e \in SoftWallets /\ e.cipher \in Ciphers /\ e.cipher.pw = pw
      /\ certain \subseteq e.cipher.keys
  BY Encrypted
<1>2. l = [e EXCEPT !.keys = {}, !.checksum = 0]
  BY DEF lock
<1> HIDE DEF e, l
<1>3. l.keys = {} /\ l.checksum = 0 /\ l.cipher = e.cipher /\ l \in SoftWallets
  BY <1>1, <1>2, Zenon DEF SoftWallets
<1>4. Keeps(l, pw, certain) /\ is_locked(l)
  BY <1>1, <1>3 DEF Keeps, is_locked
<1> QED BY <1>3, <1>4 DEF l

\* unlock with the password of the cipher brings back its keys.
LEMMA Unlocked ==
  ASSUME NEW w \in SoftWallets, NEW pw \in Nat \ {0}, NEW certain, is_locked(w), Keeps(w, pw, certain)
  PROVE  unlock(w, pw) \in SoftWallets /\ Keeps(unlock(w, pw), pw, certain)
<1> DEFINE u == unlock(w, pw)
<1>1. u = [w EXCEPT !.keys = w.cipher.keys, !.checksum = pw]
  BY DEF unlock
<1>2. w.cipher \in Ciphers /\ w.cipher.keys \in SUBSET Keys
  BY DEF SoftWallets, Ciphers
<1> HIDE DEF u
<1>3. u.keys = w.cipher.keys /\ u.checksum = pw /\ u.cipher = w.cipher /\ u \in SoftWallets
  BY <1>1, <1>2, Zenon DEF SoftWallets
<1>4. Keeps(u, pw, certain)
  BY <1>3 DEF Keeps, is_locked
<1> QED BY <1>3, <1>4 DEF u

\* The wallet that create makes, locking and unlocking it twice.
LEMMA NewWallet ==
  ASSUME NEW pw \in Nat \ {0}
  PROVE  new_wallet(pw) \in SoftWallets /\ Keeps(new_wallet(pw), pw, {})
<1> DEFINE w == [keys |-> {}, checksum |-> pw, cipher |-> Nothing]
           a == lock(w)
           b == unlock(a, pw)
           c == lock(b)
           d == unlock(c, pw)
<1>1. Nothing \in Ciphers /\ w \in SoftWallets /\ ~is_locked(w)
  BY DEF Nothing, Ciphers, SoftWallets, is_locked
<1>2. a \in SoftWallets /\ is_locked(a) /\ Keeps(a, pw, {})
  <2>1. encrypt_keys(w) = [w EXCEPT !.cipher = Cipher(w.keys, w.checksum)]
    BY <1>1 DEF encrypt_keys
  <2>2. encrypt_keys(w) = [keys |-> {}, checksum |-> pw, cipher |-> [keys |-> {}, pw |-> pw]]
    BY <2>1 DEF Cipher
  <2>3. a = [keys |-> {}, checksum |-> 0, cipher |-> [keys |-> {}, pw |-> pw]]
    <3> DEFINE e == encrypt_keys(w)
    <3>1. a = [e EXCEPT !.keys = {}, !.checksum = 0]
      BY DEF lock
    <3> HIDE DEF a, w
    <3>2. e = [keys |-> {}, checksum |-> pw, cipher |-> [keys |-> {}, pw |-> pw]]
      BY <2>2
    <3> HIDE DEF e
    <3> QED BY <3>1, <3>2, Zenon
  <2> HIDE DEF a
  <2>4. [keys |-> {}, pw |-> pw] \in Ciphers
    BY DEF Ciphers
  <2> QED BY <2>3, <2>4 DEF SoftWallets, is_locked, Keeps
<1> HIDE DEF w, a
<1>3. b \in SoftWallets /\ Keeps(b, pw, {})
  BY <1>2, Unlocked
<1> HIDE DEF b
<1>4. c \in SoftWallets /\ is_locked(c) /\ Keeps(c, pw, {})
  BY <1>3, Locked
<1> HIDE DEF c
<1>5. d \in SoftWallets /\ Keeps(d, pw, {})
  BY <1>4, Unlocked
<1> QED BY <1>5 DEF new_wallet, w, a, b, c

-----------------------------------------------------------------------------
(* wallet_manager *)

\* The invariant, name by name.
LEMMA NameByName == AckedKeysKept <=> \A n \in Names : Kept(n)
BY DEF AckedKeysKept, AckedKeysInFile, AckedKeysInMemory, Kept, Keeps, OpenWallets

\* No wallet of the map is NoWallet, and no contents of a file are.
LEMMA RealWallets ==
  /\ NoWallet \notin SoftWallets
  /\ NoWallet \notin Ciphers /\ Torn \notin Ciphers
BY WalletAssumption DEF SoftWallets, Ciphers

\* lock_all and check_timeout keep the wallets in the map, and what they keep.
LEMMA AllLocked ==
  ASSUME WalletInv
  PROVE  /\ lock_all(wallets) \in [Names -> SoftWallets \cup {NoWallet}]
         /\ \A n \in Names :
              /\ lock_all(wallets)[n] = NoWallet <=> wallets[n] = NoWallet
              /\ wallets[n] # NoWallet => Keeps(lock_all(wallets)[n], acked[n].pw, Certain(n))
<1> DEFINE l(n) == IF wallets[n] = NoWallet THEN NoWallet
                   ELSE IF is_locked(wallets[n]) THEN wallets[n] ELSE lock(wallets[n])
<1>1. ASSUME NEW n \in Names
      PROVE  /\ l(n) \in SoftWallets \cup {NoWallet} /\ (l(n) = NoWallet <=> wallets[n] = NoWallet)
             /\ wallets[n] # NoWallet => Keeps(l(n), acked[n].pw, Certain(n))
  <2>1. CASE wallets[n] = NoWallet
    BY <2>1
  <2>2. CASE wallets[n] # NoWallet
    <3>1. wallets[n] \in SoftWallets /\ acked[n].pw \in Nat /\ Keeps(wallets[n], acked[n].pw, Certain(n))
      BY <2>2, NameByName DEF WalletInv, WalletTypes, Kept, Ciphers
    <3>2. lock(wallets[n]) \in SoftWallets /\ Keeps(lock(wallets[n]), acked[n].pw, Certain(n))
      BY <3>1, Locked
    <3> QED BY <2>2, <3>1, <3>2, RealWallets
  <2> QED BY <2>1, <2>2
<1>2. lock_all(wallets) = [n \in Names |-> l(n)]
  BY DEF lock_all
<1> HIDE DEF l
<1> QED BY <1>1, <1>2

\* check_timeout locks wallets and opens or closes none.
LEMMA Checked ==
  ASSUME WalletInv
  PROVE  /\ check_timeout \in [Names -> SoftWallets \cup {NoWallet}]
         /\ \A n \in Names :
              /\ check_timeout[n] = NoWallet <=> wallets[n] = NoWallet
              /\ wallets[n] # NoWallet => Keeps(check_timeout[n], acked[n].pw, Certain(n))
<1>1. CASE idle
  <2>1. check_timeout = lock_all(wallets)
    BY <1>1 DEF check_timeout
  <2> QED BY <2>1, AllLocked
<1>2. CASE ~idle
  <2>1. check_timeout = wallets
    BY <1>2 DEF check_timeout
  <2> QED BY <2>1, NameByName DEF WalletInv, WalletTypes, Kept
<1> QED BY <1>1, <1>2

\* A name that a step does not concern.
LEMMA OthersKept ==
  ASSUME WalletInv, NEW m \in Names, acked'[m] = acked[m],
         \A k : <<m, k>> \in refused' <=> <<m, k>> \in refused,
         wallets'[m] \in {NoWallet, wallets[m], check_timeout[m], lock_all(wallets)[m]},
         file'[m] \in {file[m], NoWallet, Torn}
  PROVE  Kept(m)'
<1>1. Certain(m)' = Certain(m)
  BY DEF Certain
<1>2. Kept(m)
  BY NameByName DEF WalletInv
<1>3. wallets'[m] # NoWallet => Keeps(wallets'[m], acked[m].pw, Certain(m))
  <2>1. wallets[m] # NoWallet => /\ Keeps(wallets[m], acked[m].pw, Certain(m))
                                 /\ Keeps(check_timeout[m], acked[m].pw, Certain(m))
                                 /\ Keeps(lock_all(wallets)[m], acked[m].pw, Certain(m))
    BY <1>2, Checked, AllLocked DEF Kept
  <2>2. wallets'[m] # NoWallet => wallets[m] # NoWallet
    BY Checked, AllLocked
  <2> QED BY <2>1, <2>2
<1>4. file'[m] \notin {NoWallet, Torn} => file'[m].pw = acked[m].pw /\ Certain(m) \subseteq file'[m].keys
  BY <1>2 DEF Kept
<1> QED BY <1>1, <1>3, <1>4 DEF Kept

\* A step that leaves the types, and what it leaves of each name.
LEMMA FromNames ==
  ASSUME WalletTypes', \A m \in Names : Kept(m)'
  PROVE  WalletInv'
<1>1. AckedKeysKept' <=> \A n \in Names : Kept(n)'
  BY DEF AckedKeysKept, AckedKeysInFile, AckedKeysInMemory, Kept, Keeps, OpenWallets
<1> QED BY <1>1 DEF WalletInv

\* The process dies while it saves a file.
LEMMA SaveDies ==
  ASSUME WalletInv, NEW n \in Names, save_dies(n)
  PROVE  WalletInv'
<1>1. /\ file' = [file EXCEPT ![n] = Torn] /\ wallets' = [m \in Names |-> NoWallet]
      /\ UNCHANGED <<passwords, acked, refused>>
  BY DEF save_dies
<1>2. WalletTypes'
  BY <1>1 DEF WalletInv, WalletTypes
<1>3. ASSUME NEW m \in Names PROVE Kept(m)'
  <2>1. wallets'[m] = NoWallet /\ file'[m] \in {file[m], Torn}
    BY <1>1 DEF WalletInv, WalletTypes
  <2> QED BY <1>1, <2>1, OthersKept
<1> QED BY <1>2, <1>3, FromNames

\* A wallet w that keeps what is acknowledged is saved, cut short or not saved,
\* and put in the map.
LEMMA PutWallet ==
  ASSUME WalletInv, NEW n \in Names, NEW w \in SoftWallets,
         wallets' = [check_timeout EXCEPT ![n] = w],
         acked' \in [Names -> Ciphers], \A m \in Names \ {n} : acked'[m] = acked[m],
         \A m \in Names \ {n} : \A k : <<m, k>> \in refused' <=> <<m, k>> \in refused,
         passwords' \in Nat,
         Keeps(w, acked'[n].pw, Certain(n)'),
         \/ /\ file' = file
            /\ file[n] \notin {NoWallet, Torn} =>
                 file[n].pw = acked'[n].pw /\ Certain(n)' \subseteq file[n].keys
         \/ file' = [file EXCEPT ![n] = encrypt_keys(w).cipher]
         \/ file' = [file EXCEPT ![n] = Torn]
  PROVE  WalletInv'
<1>1. check_timeout \in [Names -> SoftWallets \cup {NoWallet}]
  BY Checked
<1>2. wallets' \in [Names -> SoftWallets \cup {NoWallet}] /\ wallets'[n] = w
  BY <1>1
<1>3. /\ encrypt_keys(w).cipher \in Ciphers /\ encrypt_keys(w).cipher.pw = acked'[n].pw
      /\ Certain(n)' \subseteq encrypt_keys(w).cipher.keys
  <2>1. acked'[n].pw \in Nat
    BY DEF Ciphers
  <2> QED BY <2>1, Encrypted
<1>4. file \in [Names -> Ciphers \cup {NoWallet, Torn}]
  BY DEF WalletInv, WalletTypes
<1>5. file' \in [Names -> Ciphers \cup {NoWallet, Torn}]
  BY <1>3, <1>4
<1>6. WalletTypes'
  BY <1>2, <1>5 DEF WalletTypes
<1>7. ASSUME NEW m \in Names, m # n PROVE Kept(m)'
  <2>1. wallets'[m] = check_timeout[m] /\ file'[m] = file[m]
    BY <1>1, <1>4, <1>7
  <2>2. \A k : <<m, k>> \in refused' <=> <<m, k>> \in refused
    BY <1>7
  <2> QED BY <1>7, <2>1, <2>2, OthersKept
<1>8. Kept(n)'
  <2>1. file'[n] \notin {NoWallet, Torn} => file'[n].pw = acked'[n].pw /\ Certain(n)' \subseteq file'[n].keys
    BY <1>3, <1>4
  <2> QED BY <1>2, <2>1 DEF Kept
<1> QED BY <1>6, <1>7, <1>8, FromNames

\* The server starts with no wallets.
LEMMA InitInv == WalletInit => WalletInv
<1> SUFFICES ASSUME WalletInit PROVE WalletInv
  OBVIOUS
<1>1. WalletTypes
  BY DEF WalletInit, WalletTypes, Nothing, Ciphers
<1>2. AckedKeysKept
  BY DEF WalletInit, AckedKeysKept, AckedKeysInFile, AckedKeysInMemory, OpenWallets
<1> QED BY <1>1, <1>2 DEF WalletInv

\* Every call, crash and restart keeps the invariant.
LEMMA StepInv == WalletInv /\ [WalletNext]_wallet_vars => WalletInv'
<1> SUFFICES ASSUME WalletInv, [WalletNext]_wallet_vars PROVE WalletInv'
  OBVIOUS
<1>1. /\ wallets \in [Names -> SoftWallets \cup {NoWallet}] /\ passwords \in Nat
      /\ file \in [Names -> Ciphers \cup {NoWallet, Torn}] /\ acked \in [Names -> Ciphers]
      /\ check_timeout \in [Names -> SoftWallets \cup {NoWallet}]
  BY Checked DEF WalletInv, WalletTypes
<1>2. ASSUME NEW n \in Names
      PROVE  /\ acked[n].pw \in Nat /\ acked[n].keys \in SUBSET Keys /\ Kept(n)
             /\ n \in OpenWallets => /\ check_timeout[n] \in SoftWallets
                                     /\ Keeps(check_timeout[n], acked[n].pw, Certain(n))
  BY <1>1, Checked, NameByName DEF WalletInv, Ciphers, OpenWallets
<1>3. ASSUME wallets' \in [Names -> SoftWallets \cup {NoWallet}], UNCHANGED <<acked, refused, passwords>>,
             \A m \in Names : wallets'[m] \in {NoWallet, wallets[m], check_timeout[m], lock_all(wallets)[m]},
             file' \in [Names -> Ciphers \cup {NoWallet, Torn}],
             \A m \in Names : file'[m] \in {file[m], NoWallet}
      PROVE  WalletInv'
  <2>1. WalletTypes'
    BY <1>1, <1>3 DEF WalletTypes
  <2>2. ASSUME NEW m \in Names PROVE Kept(m)'
    BY <1>3, OthersKept
  <2> QED BY <2>1, <2>2, FromNames
<1>4. ASSUME NEW n \in Names, create(n) PROVE WalletInv'
  <2> DEFINE pw == passwords + 1
             w == new_wallet(pw)
  <2>1. CASE /\ save_wallet_file(n, w) /\ wallets' = [check_timeout EXCEPT ![n] = w]
             /\ acked' = [acked EXCEPT ![n] = [pw |-> pw, keys |-> {}]]
             /\ refused' = {r \in refused : r[1] # n} /\ passwords' = pw
    <3>1. pw \in Nat \ {0} /\ pw \in Nat
      BY <1>1
    <3> HIDE DEF pw
    <3>2. w \in SoftWallets /\ Keeps(w, pw, {})
      BY <3>1, NewWallet
    <3> HIDE DEF w
    <3>3. \/ file' = [file EXCEPT ![n] = encrypt_keys(w).cipher]
          \/ file' = [file EXCEPT ![n] = Torn]
      BY <2>1 DEF save_wallet_file
    <3>4. /\ acked'[n] = [pw |-> pw, keys |-> {}] /\ acked' \in [Names -> Ciphers]
          /\ \A m \in Names \ {n} : acked'[m] = acked[m]
      BY <1>1, <2>1, <3>1 DEF Ciphers
    <3>5. Certain(n)' = {} /\ acked'[n].pw = pw
      BY <3>4 DEF Certain
    <3>6. \A m \in Names \ {n} : \A k : <<m, k>> \in refused' <=> <<m, k>> \in refused
      BY <2>1
    <3> QED BY <2>1, <3>1, <3>2, <3>3, <3>4, <3>5, <3>6, PutWallet, ZenonT(40)
  <2>2. CASE /\ save_throws /\ wallets' = check_timeout /\ UNCHANGED <<acked, refused>>
             /\ passwords' = pw
    <3>1. file' = file
      BY <2>2 DEF save_throws
    <3>2. WalletTypes'
      BY <1>1, <2>2, <3>1 DEF WalletTypes
    <3>3. ASSUME NEW m \in Names PROVE Kept(m)'
      BY <2>2, <3>1, OthersKept
    <3> QED BY <3>2, <3>3, FromNames
  <2>3. CASE save_dies(n)
    BY <2>3, SaveDies
  <2> QED BY <1>4, <2>1, <2>2, <2>3 DEF create
<1>5. ASSUME NEW n \in Names, NEW w \in SoftWallets, Keeps(w, acked[n].pw, Certain(n)),
             wallets' = [check_timeout EXCEPT ![n] = w], UNCHANGED <<file, passwords, acked, refused>>
      PROVE  WalletInv'
  <2>1. Certain(n)' = Certain(n)
    BY <1>5 DEF Certain
  <2>2. file[n] \notin {NoWallet, Torn} => file[n].pw = acked'[n].pw /\ Certain(n)' \subseteq file[n].keys
    BY <1>2, <1>5, <2>1 DEF Kept
  <2> QED BY <1>1, <1>5, <2>1, <2>2, PutWallet, Zenon
<1>6. ASSUME NEW n \in Names, file[n] \notin {NoWallet, Torn}
      PROVE  /\ load_wallet_file(n) \in SoftWallets /\ is_locked(load_wallet_file(n))
             /\ Keeps(load_wallet_file(n), acked[n].pw, Certain(n))
  <2>1. file[n] \in Ciphers /\ file[n].pw = acked[n].pw /\ Certain(n) \subseteq file[n].keys
    BY <1>1, <1>2, <1>6 DEF Kept
  <2> QED BY <2>1 DEF load_wallet_file, SoftWallets, Keeps, is_locked
<1>7. ASSUME NEW n \in Names, open(n) PROVE WalletInv'
  BY <1>5, <1>6, <1>7, Zenon DEF open
<1>8. ASSUME NEW n \in Names, lock_wallet(n) PROVE WalletInv'
  <2>1. /\ n \in OpenWallets /\ wallets' = [check_timeout EXCEPT ![n] = lock(check_timeout[n])]
        /\ UNCHANGED <<file, passwords, acked, refused>>
    BY <1>8 DEF lock_wallet
  <2>2. /\ lock(check_timeout[n]) \in SoftWallets
        /\ Keeps(lock(check_timeout[n]), acked[n].pw, Certain(n))
    BY <1>2, <2>1, Locked
  <2> QED BY <1>5, <2>1, <2>2, Zenon
<1>9. ASSUME NEW n \in Names, NEW pw \in 1 .. MaxPassword, unlock_wallet(n, pw) PROVE WalletInv'
  <2> DEFINE w == IF n \in OpenWallets THEN check_timeout[n] ELSE load_wallet_file(n)
             v == IF unlocks(w, pw) THEN unlock(w, pw) ELSE w
  <2>1. /\ n \notin OpenWallets => file[n] \notin {NoWallet, Torn}
        /\ is_locked(w) /\ wallets' = [check_timeout EXCEPT ![n] = v]
        /\ UNCHANGED <<file, passwords, acked, refused>>
    BY <1>9 DEF unlock_wallet
  <2>2. w \in SoftWallets /\ Keeps(w, acked[n].pw, Certain(n))
    BY <1>2, <1>6, <2>1
  <2> HIDE DEF w
  <2>3. pw \in Nat \ {0}
    BY WalletAssumption
  <2>4. unlocks(w, pw) => pw = acked[n].pw
    BY <2>2 DEF unlocks, Keeps
  <2>5. v \in SoftWallets /\ Keeps(v, acked[n].pw, Certain(n))
    BY <2>1, <2>2, <2>3, <2>4, Unlocked
  <2> HIDE DEF v
  <2> QED BY <1>5, <2>1, <2>5, Zenon
<1>10. ASSUME NEW n \in Names, Usable(n), NEW keys \in SUBSET Keys,
              NEW w, w = [check_timeout[n] EXCEPT !.keys = keys],
              wallets' = [check_timeout EXCEPT ![n] = encrypt_keys(w)], passwords' = passwords,
              acked' \in [Names -> Ciphers], \A m \in Names \ {n} : acked'[m] = acked[m],
              acked'[n].pw = acked[n].pw, Certain(n)' \subseteq keys,
              \A m \in Names \ {n} : \A k : <<m, k>> \in refused' <=> <<m, k>> \in refused,
              \/ file' = [file EXCEPT ![n] = encrypt_keys(w).cipher]
              \/ file' = [file EXCEPT ![n] = Torn]
              \/ file' = file /\ Certain(n)' \subseteq Certain(n)
       PROVE  WalletInv'
  <2>1. /\ check_timeout[n] \in SoftWallets /\ ~is_locked(check_timeout[n])
        /\ Keeps(check_timeout[n], acked[n].pw, Certain(n))
    BY <1>2, <1>10 DEF Usable
  <2>2. /\ w \in SoftWallets /\ w.keys = keys /\ w.checksum = check_timeout[n].checksum
        /\ w.cipher = check_timeout[n].cipher
    BY <1>10, <2>1 DEF SoftWallets
  <2>3. ~is_locked(w) /\ Keeps(w, acked'[n].pw, Certain(n)')
    BY <1>10, <2>1, <2>2 DEF Keeps, is_locked
  <2>4. acked'[n].pw \in Nat
    BY <1>2, <1>10
  <2> DEFINE e == encrypt_keys(w)
  <2>5. e \in SoftWallets /\ Keeps(e, acked'[n].pw, Certain(n)')
    BY <2>2, <2>3, <2>4, Encrypted
  <2>6. encrypt_keys(e).cipher = e.cipher
    <3>1. e = [w EXCEPT !.cipher = Cipher(w.keys, w.checksum)]
      BY <2>3 DEF encrypt_keys
    <3>2. e.keys = w.keys /\ e.checksum = w.checksum /\ e.cipher = Cipher(w.keys, w.checksum)
      BY <2>2, <3>1 DEF SoftWallets
    <3> HIDE DEF e
    <3>3. encrypt_keys(e) = [e EXCEPT !.cipher = Cipher(e.keys, e.checksum)]
      BY <2>3, <3>2 DEF encrypt_keys, is_locked
    <3> QED BY <2>5, <3>2, <3>3 DEF SoftWallets
  <2>7. file[n] \notin {NoWallet, Torn} => file[n].pw = acked[n].pw /\ Certain(n) \subseteq file[n].keys
    BY <1>2 DEF Kept
  <2> HIDE DEF e
  <2>8. CASE file' = [file EXCEPT ![n] = e.cipher]
    <3>1. file' = [file EXCEPT ![n] = encrypt_keys(e).cipher]
      BY <2>6, <2>8
    <3>2. wallets' = [check_timeout EXCEPT ![n] = e]
      BY <1>10 DEF e
    <3> QED BY <1>1, <1>10, <2>5, <3>1, <3>2, PutWallet, Zenon
  <2>9. CASE file' = file /\ Certain(n)' \subseteq Certain(n)
    <3>1. wallets' = [check_timeout EXCEPT ![n] = e]
      BY <1>10 DEF e
    <3>2. file[n] \notin {NoWallet, Torn} =>
            file[n].pw = acked'[n].pw /\ Certain(n)' \subseteq file[n].keys
      BY <1>10, <2>7, <2>9
    <3> QED BY <1>1, <1>10, <2>5, <2>9, <3>1, <3>2, PutWallet, Zenon
  <2>10. CASE file' = [file EXCEPT ![n] = Torn]
    <3>1. wallets' = [check_timeout EXCEPT ![n] = e]
      BY <1>10 DEF e
    <3> QED BY <1>1, <1>10, <2>5, <2>10, <3>1, PutWallet, Zenon
  <2> QED BY <1>10, <2>8, <2>9, <2>10 DEF e
<1>11. ASSUME NEW n \in Names, NEW k \in Keys, import_key(n, k) PROVE WalletInv'
  <2> DEFINE keys == check_timeout[n].keys \cup {k}
             w == [check_timeout[n] EXCEPT !.keys = keys]
  <2>1. Usable(n)
    BY <1>11 DEF import_key
  <2>2. keys \in SUBSET Keys /\ Certain(n) \subseteq keys
    BY <1>2, <2>1 DEF Usable, SoftWallets, Keeps
  <2>3. CASE save_dies(n)
    BY <2>3, SaveDies
  <2>4. CASE ~save_dies(n)
    <3>1. wallets' = [check_timeout EXCEPT ![n] = encrypt_keys(w)] /\ passwords' = passwords
      BY <1>11, <2>4 DEF import_key
    <3>2. CASE /\ save_wallet_file(n, w) /\ acked' = [acked EXCEPT ![n].keys = @ \cup {k}]
               /\ refused' = refused \ {<<n, k>>}
      <4>1. \/ file' = [file EXCEPT ![n] = encrypt_keys(w).cipher]
            \/ file' = [file EXCEPT ![n] = Torn]
        BY <3>2 DEF save_wallet_file
      <4>2. /\ acked' \in [Names -> Ciphers] /\ \A m \in Names \ {n} : acked'[m] = acked[m]
            /\ acked'[n].pw = acked[n].pw /\ acked'[n].keys = acked[n].keys \cup {k}
        BY <1>1, <3>2 DEF Ciphers
      <4>3. Certain(n)' \subseteq Certain(n) \cup {k}
        BY <3>2, <4>2 DEF Certain
      <4>4. \A m \in Names \ {n} : \A j : <<m, j>> \in refused' <=> <<m, j>> \in refused
        BY <3>2
      <4>5. Certain(n)' \subseteq keys
        BY <2>2, <4>3
      <4> HIDE DEF keys
      <4> QED BY <1>10, <2>1, <2>2, <3>1, <4>1, <4>2, <4>4, <4>5, Zenon
    <3>3. CASE save_throws /\ UNCHANGED <<acked, refused>>
      <4>1. file' = file
        BY <3>3 DEF save_throws
      <4>2. Certain(n)' = Certain(n)
        BY <3>3 DEF Certain
      <4> HIDE DEF keys
      <4> QED BY <1>1, <1>10, <2>1, <2>2, <3>1, <3>3, <4>1, <4>2, ZenonT(40)
    <3> QED BY <1>11, <2>4, <3>2, <3>3 DEF import_key
  <2> QED BY <2>3, <2>4
<1>12. ASSUME NEW n \in Names, NEW k \in Keys, NEW pw \in 1 .. MaxPassword, remove_key(n, pw, k)
       PROVE  WalletInv'
  <2> DEFINE keys == check_timeout[n].keys \ {k}
             w == [check_timeout[n] EXCEPT !.keys = keys]
  <2>1. Usable(n)
    BY <1>12 DEF remove_key
  <2>2. keys \in SUBSET Keys /\ Certain(n) \ {k} \subseteq keys
    BY <1>2, <2>1 DEF Usable, SoftWallets, Keeps
  <2>3. CASE save_dies(n)
    BY <2>3, SaveDies
  <2>4. CASE ~save_dies(n)
    <3>1. wallets' = [check_timeout EXCEPT ![n] = encrypt_keys(w)] /\ passwords' = passwords
      BY <1>12, <2>4 DEF remove_key
    <3>2. CASE /\ save_wallet_file(n, w) /\ acked' = [acked EXCEPT ![n].keys = @ \ {k}]
               /\ refused' = refused \ {<<n, k>>}
      <4>1. \/ file' = [file EXCEPT ![n] = encrypt_keys(w).cipher]
            \/ file' = [file EXCEPT ![n] = Torn]
        BY <3>2 DEF save_wallet_file
      <4>2. /\ acked' \in [Names -> Ciphers] /\ \A m \in Names \ {n} : acked'[m] = acked[m]
            /\ acked'[n].pw = acked[n].pw /\ acked'[n].keys = acked[n].keys \ {k}
        BY <1>1, <3>2 DEF Ciphers
      <4>3. Certain(n)' \subseteq Certain(n) \ {k}
        BY <3>2, <4>2 DEF Certain
      <4>4. \A m \in Names \ {n} : \A j : <<m, j>> \in refused' <=> <<m, j>> \in refused
        BY <3>2
      <4>5. Certain(n)' \subseteq keys
        BY <2>2, <4>3
      <4> HIDE DEF keys
      <4> QED BY <1>10, <2>1, <2>2, <3>1, <4>1, <4>2, <4>4, <4>5, Zenon
    <3>3. CASE save_throws /\ refused' = refused \cup {<<n, k>>} /\ UNCHANGED acked
      <4>1. file' = file
        BY <3>3 DEF save_throws
      <4>2. Certain(n)' \subseteq Certain(n) \ {k}
        BY <3>3 DEF Certain
      <4>3. \A m \in Names \ {n} : \A j : <<m, j>> \in refused' <=> <<m, j>> \in refused
        BY <3>3
      <4>4. Certain(n)' \subseteq keys /\ Certain(n)' \subseteq Certain(n)
        BY <2>2, <4>2
      <4> HIDE DEF keys
      <4> QED BY <1>1, <1>10, <2>1, <2>2, <3>1, <3>3, <4>1, <4>3, <4>4, Zenon
    <3> QED BY <1>12, <2>4, <3>2, <3>3 DEF remove_key
  <2> QED BY <2>3, <2>4
<1>13. CASE read
  BY <1>1, <1>3, <1>13 DEF read
<1>14. CASE lock_all_wallets
  BY <1>1, <1>3, <1>14, AllLocked DEF lock_all_wallets
<1>15. CASE set_timeout \/ Tick \/ UNCHANGED wallet_vars
  BY <1>1, <1>3, <1>15 DEF set_timeout, Tick, wallet_vars
<1>16. CASE RestartKeosd
  BY <1>1, <1>3, <1>16 DEF RestartKeosd
<1>17. ASSUME NEW n \in Names, RemoveFile(n) PROVE WalletInv'
  BY <1>1, <1>3, <1>17 DEF RemoveFile
<1> QED BY <1>4, <1>7, <1>8, <1>9, <1>11, <1>12, <1>13, <1>14, <1>15, <1>16, <1>17 DEF WalletNext
-----------------------------------------------------------------------------
\* For every set of names and keys: until its removal is asked for, a key whose
\* import returned is in the open wallet, and in the wallet's file unless the
\* file was removed or cannot be read, under the password create returned.
THEOREM AckedKeysAlwaysKept == WalletSpec => []AckedKeysKept
<1>1. WalletInv => AckedKeysKept
  BY DEF WalletInv
<1> QED BY <1>1, InitInv, StepInv, PTL DEF WalletSpec
=============================================================================

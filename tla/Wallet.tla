------------------------------- MODULE Wallet -------------------------------
(***************************************************************************)
(* keosd's wallets: wallet_manager's map of soft_wallets, their keys in    *)
(* memory, the encrypted keys (_wallet.cipher_keys) next to them, and the  *)
(* file of each wallet.                                                    *)
(*                                                                         *)
(* A call either returns or throws; what it throws is left out, what it    *)
(* has changed by then is not.  Every call begins with check_timeout, so a *)
(* call is modelled on the wallets as check_timeout leaves them.           *)
(* Encrypting keys with a password is the pair [keys, pw], which opens     *)
(* with pw only.                                                           *)
(***************************************************************************)
EXTENDS Naturals, FiniteSets

CONSTANTS
  Names, Keys,
  NoWallet,      \* no wallet in the map, no file
  Torn,          \* a file without its contents, or with part of them
  MaxPassword,   \* bound on the passwords generated
  MaxFailures,   \* bound on the files that cannot be opened or written in full
  MaxFaults      \* bound on restarts and files removed

ASSUME WalletAssumption ==
  /\ {MaxPassword, MaxFailures, MaxFaults} \subseteq Nat /\ NoWallet # Torn
  /\ {NoWallet, Torn} \cap [keys : SUBSET Keys, pw : Nat] = {}
  /\ NoWallet \notin [keys : SUBSET Keys, checksum : Nat, cipher : [keys : SUBSET Keys, pw : Nat]]

VARIABLES
  wallets,   \* name -> [keys, checksum, cipher] or NoWallet; checksum 0: locked
  file,      \* name -> [keys, pw], Torn or NoWallet
  idle,      \* has the time since the last call reached the timeout?
  passwords, \* the passwords generated so far
  failures, faults,
  acked,     \* history: name -> the password create returned, the keys imported and not removed
  refused    \* history: <<name, key>>, a remove_key that threw because it could not save

wallet_vars == <<wallets, file, idle, passwords, failures, faults, acked, refused>>

Cipher(keys, pw) == [keys |-> keys, pw |-> pw]
Nothing == [pw |-> 0, keys |-> {}]
is_locked(w) == w.checksum = 0

-----------------------------------------------------------------------------
(* soft_wallet *)

encrypt_keys(w) == IF is_locked(w) THEN w ELSE [w EXCEPT !.cipher = Cipher(w.keys, w.checksum)]

lock(w) == [encrypt_keys(w) EXCEPT !.keys = {}, !.checksum = 0]

unlocks(w, pw) == w.cipher.pw = pw
unlock(w, pw) == [w EXCEPT !.keys = w.cipher.keys, !.checksum = pw]

load_wallet_file(n) == [keys |-> {}, checksum |-> 0, cipher |-> file[n]]

\* set_password, unlock, lock and unlock of a wallet that has no keys.
new_wallet(pw) == unlock(lock(unlock(lock([keys |-> {}, checksum |-> pw, cipher |-> Nothing]), pw)), pw)

-----------------------------------------------------------------------------
(* wallet_manager *)

OpenWallets == {n \in Names : wallets[n] # NoWallet}

lock_all(ws) ==
  [n \in Names |-> IF ws[n] = NoWallet THEN NoWallet ELSE IF is_locked(ws[n]) THEN ws[n] ELSE lock(ws[n])]

\* The wallets after check_timeout, with which every call begins.
check_timeout == IF idle THEN lock_all(wallets) ELSE wallets

\* save_wallet_file encrypts the keys and opens the file, which may fail;
\* opening it empties it, and only then is it written.  Nothing looks at the
\* stream after write, flush and close: on a full disk the call returns as
\* usual, with a file that cannot be read.
save_wallet_file(n, w) ==
  \/ /\ file' = [file EXCEPT ![n] = encrypt_keys(w).cipher]
     /\ UNCHANGED failures
  \/ /\ failures < MaxFailures
     /\ failures' = failures + 1
     /\ file' = [file EXCEPT ![n] = Torn]

save_throws ==
  /\ failures < MaxFailures
  /\ failures' = failures + 1
  /\ UNCHANGED file

\* The process dies between the opening of the file and its writing.
save_dies(n) ==
  /\ faults < MaxFaults
  /\ faults' = faults + 1
  /\ file' = [file EXCEPT ![n] = Torn]
  /\ wallets' = [m \in Names |-> NoWallet]
  /\ idle' = FALSE
  /\ UNCHANGED <<passwords, failures, acked, refused>>

\* A call that throws before it changes anything, and the calls that only
\* read: list_wallets, list_keys, get_public_keys, sign_transaction and
\* sign_digest, which use the keys of the wallets that are not locked.
read ==
  /\ wallets' = check_timeout
  /\ idle' = FALSE
  /\ UNCHANGED <<file, passwords, failures, faults, acked, refused>>

\* create replaces the wallet of that name, whose file was removed.
create(n) ==
  /\ passwords < MaxPassword
  /\ file[n] = NoWallet
  /\ \/ /\ \/ /\ save_wallet_file(n, new_wallet(passwords + 1))
              /\ wallets' = [check_timeout EXCEPT ![n] = new_wallet(passwords + 1)]
              /\ acked' = [acked EXCEPT ![n] = [pw |-> passwords + 1, keys |-> {}]]
              /\ refused' = {r \in refused : r[1] # n}
           \/ /\ save_throws
              /\ wallets' = check_timeout
              /\ UNCHANGED <<acked, refused>>
        /\ passwords' = passwords + 1
        /\ idle' = FALSE
        /\ UNCHANGED faults
     \/ save_dies(n)

\* A wallet that is open already is replaced by the locked one of its file.
open(n) ==
  /\ file[n] \notin {NoWallet, Torn}
  /\ wallets' = [check_timeout EXCEPT ![n] = load_wallet_file(n)]
  /\ idle' = FALSE
  /\ UNCHANGED <<file, passwords, failures, faults, acked, refused>>

lock_wallet(n) ==
  /\ n \in OpenWallets
  /\ ~is_locked(check_timeout[n])
  /\ wallets' = [check_timeout EXCEPT ![n] = lock(@)]
  /\ idle' = FALSE
  /\ UNCHANGED <<file, passwords, failures, faults, acked, refused>>

\* lock_all does not check the timeout, and leaves it as it is.
lock_all_wallets ==
  /\ wallets' = lock_all(wallets)
  /\ UNCHANGED <<file, idle, passwords, failures, faults, acked, refused>>

\* unlock opens a wallet that is not in the map, and leaves it there when the
\* password is wrong.
unlock_wallet(n, pw) ==
  /\ n \notin OpenWallets => file[n] \notin {NoWallet, Torn}
  /\ LET w == IF n \in OpenWallets THEN check_timeout[n] ELSE load_wallet_file(n)
     IN /\ is_locked(w)
        /\ wallets' = [check_timeout EXCEPT ![n] = IF unlocks(w, pw) THEN unlock(w, pw) ELSE w]
  /\ idle' = FALSE
  /\ UNCHANGED <<file, passwords, failures, faults, acked, refused>>

Usable(n) == n \in OpenWallets /\ ~is_locked(check_timeout[n])

import_key_Unsaved(n, k) ==
  /\ Usable(n)
  /\ k \notin check_timeout[n].keys
  /\ LET w == [check_timeout[n] EXCEPT !.keys = @ \cup {k}]
     IN /\ wallets' = [check_timeout EXCEPT ![n] = encrypt_keys(w)]
        /\ acked' = [acked EXCEPT ![n].keys = @ \cup {k}]
        /\ UNCHANGED <<file, failures, refused, faults>>
  /\ idle' = FALSE
  /\ UNCHANGED passwords

\* create_key imports the key it has generated.
import_key(n, k) ==
  /\ Usable(n)
  /\ k \notin check_timeout[n].keys
  /\ LET w == [check_timeout[n] EXCEPT !.keys = @ \cup {k}]
     IN \/ /\ wallets' = [check_timeout EXCEPT ![n] = encrypt_keys(w)]
           /\ \/ /\ save_wallet_file(n, w)
                 /\ acked' = [acked EXCEPT ![n].keys = @ \cup {k}]
                 /\ refused' = refused \ {<<n, k>>}
              \/ save_throws /\ UNCHANGED <<acked, refused>>
           /\ idle' = FALSE
           /\ UNCHANGED <<passwords, faults>>
        \/ save_dies(n)

\* The key is erased before the wallet is saved.
remove_key(n, pw, k) ==
  /\ Usable(n)
  /\ unlocks(check_timeout[n], pw)
  /\ k \in check_timeout[n].keys
  /\ LET w == [check_timeout[n] EXCEPT !.keys = @ \ {k}]
     IN \/ /\ wallets' = [check_timeout EXCEPT ![n] = encrypt_keys(w)]
           /\ \/ /\ save_wallet_file(n, w)
                 /\ acked' = [acked EXCEPT ![n].keys = @ \ {k}]
                 /\ refused' = refused \ {<<n, k>>}
              \/ save_throws /\ refused' = refused \cup {<<n, k>>} /\ UNCHANGED acked
           /\ idle' = FALSE
           /\ UNCHANGED <<passwords, faults>>
        \/ save_dies(n)

set_timeout ==
  /\ idle' = FALSE
  /\ UNCHANGED <<wallets, file, passwords, failures, faults, acked, refused>>

\* The idle time reaches the timeout.
Tick ==
  /\ ~idle /\ idle' = TRUE
  /\ UNCHANGED <<wallets, file, passwords, failures, faults, acked, refused>>

\* keosd ends, as when its lock file is removed, and is started again.
RestartKeosd ==
  /\ faults < MaxFaults
  /\ faults' = faults + 1
  /\ wallets' = [n \in Names |-> NoWallet]
  /\ idle' = FALSE
  /\ UNCHANGED <<file, passwords, failures, acked, refused>>

\* "This can happen if the wallet file is removed while eos-walletd is running."
RemoveFile(n) ==
  /\ faults < MaxFaults
  /\ faults' = faults + 1
  /\ file[n] # NoWallet
  /\ file' = [file EXCEPT ![n] = NoWallet]
  /\ UNCHANGED <<wallets, idle, passwords, failures, acked, refused>>

WalletInit ==
  /\ wallets = [n \in Names |-> NoWallet]
  /\ file = [n \in Names |-> NoWallet]
  /\ idle = FALSE
  /\ passwords = 0 /\ failures = 0 /\ faults = 0
  /\ acked = [n \in Names |-> Nothing]
  /\ refused = {}

WalletNext ==
  \/ \E n \in Names : create(n) \/ open(n) \/ lock_wallet(n) \/ RemoveFile(n)
  \/ \E n \in Names, pw \in 1..MaxPassword : unlock_wallet(n, pw)
  \/ \E n \in Names, k \in Keys : import_key(n, k)
  \/ \E n \in Names, k \in Keys, pw \in 1..MaxPassword : remove_key(n, pw, k)
  \/ read \/ lock_all_wallets \/ set_timeout \/ Tick \/ RestartKeosd

WalletSpec == WalletInit /\ [][WalletNext]_wallet_vars

-----------------------------------------------------------------------------
(* Properties *)

WalletTypeOK ==
  /\ \A n \in Names :
       /\ wallets[n] = NoWallet \/ (/\ wallets[n].keys \subseteq Keys
                                   /\ wallets[n].checksum \in 0..MaxPassword
                                   /\ wallets[n].cipher \in [keys : SUBSET Keys, pw : 1..MaxPassword])
       /\ file[n] \in [keys : SUBSET Keys, pw : 1..MaxPassword] \cup {NoWallet, Torn}
  /\ acked \in [Names -> [keys : SUBSET Keys, pw : 0..MaxPassword]]
  /\ idle \in BOOLEAN
  /\ refused \subseteq Names \X Keys

Certain(n) == {k \in acked[n].keys : <<n, k>> \notin refused}

\* What is acknowledged is on disk as long as the file can be read at all: the
\* file of a wallet, unless it was removed, emptied by a crash or cut short by a
\* write that failed unnoticed, opens with the password create returned and
\* holds every key whose import (or creation) returned and whose removal was
\* not asked for, whatever was locked, reopened, refused or restarted since
\* (soft_wallet::import_key saves before it returns).
AckedKeysInFile ==
  \A n \in Names : file[n] \notin {NoWallet, Torn} =>
    file[n].pw = acked[n].pw /\ Certain(n) \subseteq file[n].keys

\* The wallet in memory never falls behind, whatever became of its file: an
\* unlocked wallet holds every acknowledged key, a locked one opens with the
\* password create returned and gives them all back, also when the idle timeout
\* locked it or open replaced it.  So the next save that succeeds writes the
\* keys that an earlier one lost.
AckedKeysInMemory ==
  \A n \in OpenWallets :
    /\ wallets[n].cipher.pw = acked[n].pw
    /\ IF is_locked(wallets[n]) THEN wallets[n].keys = {} /\ Certain(n) \subseteq wallets[n].cipher.keys
       ELSE wallets[n].checksum = acked[n].pw /\ Certain(n) \subseteq wallets[n].keys

\* Until its removal is asked for, a key whose import returned is in every
\* wallet that can still be used, under the password create returned: in the
\* open wallet, and in the file when the file can be read.  It is lost only
\* with a file that a crash or an unnoticed write error left unreadable, when
\* no open wallet is left to save it again (wallet_manager, soft_wallet).
AckedKeysKept == AckedKeysInFile /\ AckedKeysInMemory

=============================================================================

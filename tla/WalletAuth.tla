----------------------------- MODULE WalletAuth -----------------------------
(***************************************************************************)
(* Unlocking, creating, re-keying and erasing the wallet that Jade keeps   *)
(* encrypted in flash: the 'auth_user' handler (process/auth_user.c) with  *)
(* the PIN-oracle client it calls (process/pinclient.c), the in-memory     *)
(* keychain (keychain.c) and the flash records behind it (storage.c).      *)
(*                                                                         *)
(* The main task runs one handler at a time, so a handler is a sequence of *)
(* steps named by pc.  A step ends wherever something else can happen:     *)
(* where the handler waits (for the user or for the next message), and at  *)
(* every commit to flash, because power can be lost between two commits    *)
(* and a commit can fail.  Everything that is in RAM is lost by Reboot.    *)
(*                                                                         *)
(* The blind PIN oracle and the host that relays its messages are not part *)
(* of the repository; they are modelled from how pinclient.c uses them:    *)
(* 'set_pin' makes the oracle pick a fresh random key for the PIN,         *)
(* 'get_pin' returns that key for the right PIN and an unrelated one for   *)
(* any other PIN.                                                          *)
(***************************************************************************)
EXTENDS Naturals

CONSTANTS
    Wallets,        \* wallets the user sets up to be kept on the device
    TempWallets,    \* wallets the user only ever loads as temporary
    Pins,           \* the PINs a user may enter
    ServerKeys,     \* the random keys the oracle draws from
    Networks,       \* network types of the 'network' parameter: MAIN, TEST
    Sources,        \* where messages come from: serial, ble, internal (QR)
    None,           \* no wallet / no pin / SOURCE_NONE / NETWORK_TYPE_NONE
    NvsMayFail,     \* may an access to flash fail?
    MayCrash        \* may power be lost (or the idle timer reboot the unit)?

\* storage_restore_counter() always writes this value.
MaxAttempts == 3

\* The final aes-key is hmac(server key, pin): one value per pair.
AesKeys == [key : ServerKeys, pin : Pins]

\* The blob in flash is a wallet encrypted (and hmac'd) with an aes-key.
Blobs == [wallet : Wallets \cup TempWallets, aes : AesKeys]

ASSUME ConstantsAssumption ==
    /\ None \notin Wallets \cup TempWallets \cup Pins \cup ServerKeys
                   \cup Networks \cup Sources \cup AesKeys \cup Blobs
    /\ Wallets \cap TempWallets = {}
    /\ Sources \subseteq {"serial", "ble", "internal"}
    /\ NvsMayFail \in BOOLEAN
    /\ MayCrash \in BOOLEAN

VARIABLES
    \* Flash, survives a reboot
    counter,        \* PIN_COUNTER_FIELD; a missing record reads as 0
    blob,           \* BLOB_FIELD
    nvsNetwork,     \* NETWORK_TYPE_FIELD
    erasePin,       \* WALLET_ERASE_PIN
    \* RAM, the statics of keychain.c and auth_user.c
    keys,           \* keychain_data
    owner,          \* keychain_userdata: source the keys answer to
    temporary,      \* keychain_temporary
    hasPin,         \* has_encrypted_blob, the cached 'wallet stored' flag
    network,        \* network_type_restriction
    changePin,      \* change_pin_requested
    relogin,        \* internal_relogin_source: whom to hand the session back to
                    \* after a change of PIN by QR
    \* The handler in progress and its locals
    pc,             \* the next step of the handler, "idle" for none
    job,            \* what the PIN work is for: unlock, change or save
    cause,          \* why an erase is in progress
    src,            \* ctx.source of the current message, None when there is none
    rejected,       \* has the current message been answered with an error?
    net,            \* network type of the auth_user request
    pin,            \* PIN just entered
    aes,            \* aes-key for the current PIN
    newAes,         \* aes-key for the PIN being set
    \* The oracle and the host (external)
    server,         \* the oracle's record for this device
    posted,         \* PIN of a set_pin request not yet processed by the oracle
    \* History
    spent,          \* wrong guesses made against the stored blob since it was
                    \* written or last opened
    condemned       \* the erasure of the stored blob has begun

nvs    == <<counter, blob, nvsNetwork, erasePin>>
cached == <<keys, temporary, hasPin, network, changePin>>
ram    == <<cached, owner, relogin>>
locals == <<job, cause, src, rejected, net, pin, aes, newAes>>
oracle == <<server, posted>>
ghost  == <<spent, condemned>>
vars   == <<nvs, ram, pc, locals, oracle, ghost>>

Labels == {"idle", "get_pin", "get_request", "get_wait",
           "decrement", "decrypt", "erase_counter", "erase_blob",
           "erase_network", "load_failed", "restore", "ask_change", "new_pin",
           "set_request", "set_wait", "save_counter", "save_blob",
           "save_network", "shutdown", "reply_ok", "menu_network"}

TypeOK ==
    /\ counter \in 0..MaxAttempts
    /\ blob \in Blobs \cup {None}
    /\ nvsNetwork \in Networks \cup {None}
    /\ erasePin \in Pins \cup {None}
    /\ keys \in Wallets \cup TempWallets \cup {None}
    /\ owner \in Sources \cup {None}
    /\ temporary \in BOOLEAN
    /\ hasPin \in BOOLEAN
    /\ network \in Networks \cup {None}
    /\ changePin \in BOOLEAN
    /\ relogin \in Sources \cup {None}
    /\ pc \in Labels
    /\ job \in {"none", "unlock", "change", "save"}
    /\ cause \in {"none", "no_attempts", "no_blob", "bad_pin", "erase_pin"}
    /\ src \in Sources \cup {None}
    /\ rejected \in BOOLEAN
    /\ net \in Networks \cup {None}
    /\ pin \in Pins \cup {None}
    /\ aes \in AesKeys \cup {None}
    /\ newAes \in AesKeys \cup {None}
    /\ server \in AesKeys \cup {None}
    /\ posted \in Pins \cup {None}
    /\ spent \in 0..MaxAttempts + 1
    /\ condemned \in BOOLEAN

Init ==     \* a new (or factory-reset) unit
    /\ counter = 0 /\ blob = None /\ nvsNetwork = None /\ erasePin = None
    /\ keys = None /\ owner = None /\ temporary = FALSE /\ hasPin = FALSE
    /\ network = None /\ changePin = FALSE /\ relogin = None
    /\ pc = "idle" /\ job = "none" /\ cause = "none" /\ src = None
    /\ rejected = FALSE /\ net = None /\ pin = None /\ aes = None /\ newAes = None
    /\ server = None /\ posted = None
    /\ spent = 0 /\ condemned = FALSE

-----------------------------------------------------------------------------
(* Helpers *)

\* What a flash record may hold after writing 'new' over 'old': after an error
\* either value, as NVS may have written before it failed.
Commit(old, new) == {new} \cup (IF NvsMayFail THEN {old} ELSE {})

\* What reading a record may return: after an error, the default.
Read(record, default) == {record} \cup (IF NvsMayFail THEN {default} ELSE {})
ReadCounter == Read(counter, 0)

\* A random key: differs from every key still in use anywhere.
KeyOf(a) == IF a = None THEN {} ELSE {a.key}
KeysInUse == KeyOf(server) \cup KeyOf(aes) \cup KeyOf(newAes)
                \cup (IF blob = None THEN {} ELSE {blob.aes.key})
FreshKeys == ServerKeys \ KeysInUse

\* The stored blob can still be opened by somebody who knows the PIN.
Live == blob # None /\ server # None /\ blob.aes.key = server.key

\* The handler returns: its locals are zeroed, its message freed.
EndHandler ==
    /\ pc' = "idle" /\ job' = "none" /\ cause' = "none" /\ src' = None
    /\ rejected' = FALSE /\ net' = None /\ pin' = None /\ aes' = None
    /\ newAes' = None

\* What dispatch_message() does when auth_user returns: after a QR login to the
\* stored wallet the interrupted session is handed back to its source, otherwise
\* the note of it is dropped.  (What the code keeps 'relogin' for, no wallet but
\* tries remaining, is never met: with no keys the owner is not "internal".)
Relogin(o) ==
    IF temporary \/ ~hasPin \/ o # "internal" THEN owner' = o /\ relogin' = None
    ELSE IF keys = None \/ relogin = None THEN owner' = o /\ UNCHANGED relogin
    ELSE owner' = relogin /\ relogin' = None

EndAuthUser == EndHandler /\ Relogin(owner)

\* The handler goes on at another step.
Goto(l) == pc' = l /\ UNCHANGED locals

\* keychain_clear()
KeychainClear == keys' = None /\ owner' = None /\ temporary' = FALSE

\* keychain_is_network_type_consistent()
NetworkConsistent(n) == network \in {None, n}

\* keychain_set_network_type_restriction()
RestrictNetwork(n) ==
    IF network = None
    THEN /\ nvsNetwork' \in IF hasPin /\ ~temporary
                            THEN Commit(nvsNetwork, n) ELSE {nvsNetwork}
         /\ network' = IF keys # None THEN n ELSE None
    ELSE UNCHANGED <<nvsNetwork, network>>

\* Boot: RAM is lost, keychain_init_cache() reads the flash records again.
Restart ==
    /\ KeychainClear
    /\ hasPin' \in {c # 0 : c \in ReadCounter}
    /\ network' \in Read(nvsNetwork, None)
    /\ changePin' = FALSE /\ relogin' = None
    /\ EndHandler
    /\ UNCHANGED <<nvs, oracle, ghost>>

-----------------------------------------------------------------------------
(* What the user does from the menus while no handler runs *)

\* initialise_with_mnemonic() for a wallet to be kept: derive_keychain() sets
\* the keys and clears the network restriction.
CreateWallet(w) ==
    /\ pc = "idle" /\ keys = None /\ ~hasPin
    /\ keys' = w /\ owner' = None /\ temporary' = FALSE
    /\ nvsNetwork' \in Commit(nvsNetwork, None) /\ network' = None
    /\ UNCHANGED <<counter, blob, erasePin, hasPin, changePin, relogin, pc,
                   locals, oracle, ghost>>

\* A temporary login, or switching wallets by scanning a recovery phrase: the
\* restriction is cleared in RAM only.
TemporaryLogin(t) ==
    /\ pc = "idle"
    /\ keys' = t /\ owner' = None /\ temporary' = TRUE
    /\ network' = None
    /\ UNCHANGED <<nvs, hasPin, changePin, relogin, pc, locals, oracle, ghost>>

\* keychain_set_temporary(): a wallet just created for keeping becomes a
\* temporary one before it was saved.
MakeTemporary ==
    /\ pc = "idle"
    /\ keys # None /\ owner = None /\ ~temporary /\ ~hasPin
    /\ temporary' = TRUE
    /\ UNCHANGED <<nvs, keys, owner, hasPin, network, changePin, relogin, pc,
                   locals, oracle, ghost>>

\* A temporary wallet, not yet in use, is going to be used by QR.
UseTemporaryByQr ==
    /\ pc = "idle" /\ "internal" \in Sources
    /\ keys # None /\ temporary /\ owner = None
    /\ owner' = "internal"
    /\ UNCHANGED <<nvs, cached, relogin, pc, locals, oracle, ghost>>

\* Log out: the menu entry, the 'logout' message, a lost connection.
Logout ==
    /\ pc = "idle" /\ keys # None
    /\ KeychainClear
    /\ UNCHANGED <<nvs, hasPin, network, changePin, relogin, pc, locals, oracle,
                   ghost>>

\* handle_change_pin(): change the PIN at the next unlock (or do not).
RequestChangePin(b) ==
    /\ pc = "idle" /\ hasPin
    /\ changePin' = b
    /\ UNCHANGED <<nvs, keys, owner, temporary, hasPin, network, relogin, pc,
                   locals, oracle, ghost>>

\* handle_change_pin_qr(): lock, and change the PIN at once by QR.  The source that
\* was using the wallet is to have it back afterwards.
ChangePinQr ==
    /\ pc = "idle" /\ keys # None /\ hasPin /\ ~temporary
    /\ relogin' = owner /\ changePin' = TRUE
    /\ KeychainClear
    /\ UNCHANGED <<nvs, hasPin, network, pc, locals, oracle, ghost>>

\* handle_wallet_erase_pin()
SetErasePin(p) ==
    /\ pc = "idle"
    /\ erasePin' \in Commit(erasePin, p)
    /\ UNCHANGED <<counter, blob, nvsNetwork, ram, pc, locals, oracle, ghost>>

\* handle_network_type() clears the restriction, then sets the new one.
ClearNetwork(n) ==
    /\ pc = "idle" /\ keys # None /\ owner = "internal"
    /\ nvsNetwork' \in IF temporary THEN {nvsNetwork}
                                     ELSE Commit(nvsNetwork, None)
    /\ network' = None
    /\ net' = n /\ pc' = "menu_network"
    /\ UNCHANGED <<counter, blob, erasePin, keys, owner, temporary, hasPin,
                   changePin, relogin, job, cause, src, rejected, pin, aes,
                   newAes, oracle, ghost>>

SetNetwork ==
    /\ pc = "menu_network"
    /\ RestrictNetwork(net)
    /\ EndHandler
    /\ UNCHANGED <<counter, blob, erasePin, keys, owner, temporary, hasPin,
                   changePin, relogin, oracle, ghost>>

-----------------------------------------------------------------------------
(* auth_user_process() *)

\* The request is accepted if its network agrees with the restriction.
Request(s, n) == pc = "idle" /\ NetworkConsistent(n)

\* It is rejected otherwise, or if another source is using a temporary wallet; and
\* it comes to nothing if the user abandons setting up a wallet.
Refused(s, n) ==
    /\ pc = "idle"
    /\ \/ ~NetworkConsistent(n)
       \/ temporary /\ owner \notin {None, s}
       \/ keys = None /\ ~hasPin
    /\ Relogin(owner)
    /\ UNCHANGED <<nvs, cached, pc, locals, oracle, ghost>>

\* Cases 1 and 2: keys already unlocked by this source.
AlreadyUnlocked(s, n) ==
    /\ Request(s, n)
    /\ keys # None /\ owner = s /\ (temporary \/ hasPin)
    /\ RestrictNetwork(n)
    /\ Relogin(owner)
    /\ UNCHANGED <<counter, blob, erasePin, keys, temporary, hasPin, changePin,
                   pc, locals, oracle, ghost>>

\* Mutant of the next: without the test that no source has used it yet.
AdoptAnyTemporary(s, n) ==
    /\ Request(s, n)
    /\ temporary /\ keys # None
    /\ Relogin(s)
    /\ RestrictNetwork(n)
    /\ UNCHANGED <<counter, blob, erasePin, keys, temporary, hasPin, changePin,
                   pc, locals, oracle, ghost>>

\* Case 1: first use of a temporary wallet ties it to the message source.
AdoptTemporary(s, n) ==
    /\ Request(s, n)
    /\ temporary /\ keys # None /\ owner = None
    /\ Relogin(s)
    /\ RestrictNetwork(n)
    /\ UNCHANGED <<counter, blob, erasePin, keys, temporary, hasPin, changePin,
                   pc, locals, oracle, ghost>>

\* Mutant of the next: without keychain_clear().
UnlockOverKeys(s, n) ==
    /\ Request(s, n)
    /\ ~temporary /\ hasPin /\ ~(keys # None /\ owner = s)
    /\ pc' = "get_pin" /\ job' = "unlock" /\ src' = s /\ net' = n
    /\ UNCHANGED <<nvs, ram, cause, rejected, pin, aes, newAes, oracle, ghost>>

\* Case 3 (and 2 when another source asks): drop the keys, ask for the PIN.
StartUnlock(s, n) ==
    /\ Request(s, n)
    /\ ~temporary /\ hasPin /\ ~(keys # None /\ owner = s)
    /\ KeychainClear
    /\ pc' = "get_pin" /\ job' = "unlock" /\ src' = s /\ net' = n
    /\ UNCHANGED <<nvs, hasPin, network, changePin, relogin, cause, rejected, pin,
                   aes, newAes, oracle, ghost>>

\* Cases 4 and 5: unsaved keys, or none, in which case initialise_with_mnemonic()
\* runs first.
SaveKeys(s, n) ==
    /\ Request(s, n)
    /\ \/ keys # None /\ UNCHANGED <<keys, owner, nvsNetwork, network>>
       \/ /\ keys = None
          /\ keys' \in Wallets /\ owner' = None
          /\ nvsNetwork' \in Commit(nvsNetwork, None) /\ network' = None
    /\ pc' = "new_pin" /\ job' = "save" /\ src' = s /\ net' = n
    /\ UNCHANGED <<counter, blob, erasePin, temporary, hasPin, changePin, relogin,
                   cause, rejected, pin, aes, newAes, oracle, ghost>>

\* Mutants of the next: without the test for a temporary wallet (case 1), and
\* without the test for a stored one (cases 2 and 3).
SaveTemporary(s, n) == ~hasPin /\ SaveKeys(s, n)
SaveOverStored(s, n) == ~temporary /\ SaveKeys(s, n)

StartSave(s, n) == ~temporary /\ ~hasPin /\ SaveKeys(s, n)

-----------------------------------------------------------------------------
(* get_pin_get_aeskey() and pinclient_get() *)

\* JADE_ASSERT(keychain_has_pin()); JADE_ASSERT(pin_attempts_remaining > 0)
CanAskPin == hasPin /\ counter > 0

EnterPin(p) ==
    /\ pc = "get_pin" /\ CanAskPin
    /\ pin' = p /\ pc' = "get_request"
    /\ UNCHANGED <<nvs, ram, job, cause, src, rejected, net, aes, newAes,
                   oracle, ghost>>

AbandonPin ==
    /\ pc = "get_pin" /\ CanAskPin
    /\ EndAuthUser /\ UNCHANGED <<nvs, cached, oracle, ghost>>

AssertFails ==
    /\ pc = "get_pin" /\ (~CanAskPin \/ 0 \in ReadCounter)
    /\ Restart

\* Send the get_pin request.  With no reply, a reply without parameters that the
\* user will not retry, a bad reply or 'cancel', the handler ends.
SendGetPin ==
    /\ pc = "get_request"
    /\ \/ Goto("get_wait") /\ UNCHANGED <<owner, relogin>>
       \/ NvsMayFail /\ EndAuthUser     \* replay counter not persisted
    /\ UNCHANGED <<nvs, cached, oracle, ghost>>

GetPinFails ==
    /\ pc = "get_wait"
    /\ EndAuthUser /\ UNCHANGED <<nvs, cached, oracle, ghost>>

\* A 'pin' message without parameters, and the user chooses to retry.
GetPinRetry(s) ==
    /\ pc = "get_wait"
    /\ src' = s /\ pc' = "get_request"
    /\ UNCHANGED <<nvs, ram, job, cause, rejected, net, pin, aes, newAes,
                   oracle, ghost>>

\* The oracle's answer.  Having seen this request, it refuses older ones.
\* After a wrong PIN it may have discarded its record.
GetPinReply(s) ==
    /\ pc = "get_wait"
    /\ IF server # None /\ server.pin = pin
       THEN aes' = server /\ UNCHANGED server
       ELSE \E k \in FreshKeys :
                /\ aes' = [key |-> k, pin |-> pin]
                /\ server' \in {server, None}
    /\ posted' = None
    /\ src' = s /\ pc' = "decrement"
    /\ UNCHANGED <<nvs, ram, job, cause, rejected, net, pin, newAes, ghost>>

-----------------------------------------------------------------------------
(* keychain_load_and_decrypt_blob(), for keychain_load() and for             *)
(* keychain_reencrypt()                                                      *)

StartErase(c) == cause' = c /\ pc' = "erase_counter"
                 /\ UNCHANGED <<job, src, rejected, net, pin, aes, newAes>>

\* storage_decrement_counter(): refuses when no attempts are left.
NoPin == ~hasPin /\ Goto("load_failed") /\ UNCHANGED counter
NoAttempts == /\ hasPin /\ 0 \in ReadCounter
              /\ StartErase("no_attempts") /\ UNCHANGED counter
WriteFails == /\ hasPin /\ counter > 0 /\ NvsMayFail
              /\ counter' \in Commit(counter, counter - 1)
              /\ StartErase("no_attempts")
CountAttempt == hasPin /\ counter > 0 /\ counter' = counter - 1 /\ Goto("decrypt")
DecrementWith(step) ==
    /\ pc = "decrement"
    /\ step
    /\ UNCHANGED <<blob, nvsNetwork, erasePin, ram, oracle, ghost>>

\* Mutants of the next: the error of writing the counter is ignored; the last
\* attempt is refused.
DecrementUnchecked ==
    DecrementWith(\/ NoPin \/ NoAttempts
                  \/ /\ hasPin /\ counter > 0 /\ Goto("decrypt")
                     /\ counter' \in Commit(counter, counter - 1))
DecrementEarly ==
    DecrementWith(\/ NoPin
                  \/ IF counter > 1 THEN CountAttempt
                     ELSE hasPin /\ StartErase("no_attempts") /\ UNCHANGED counter)

\* keychain_has_pin() and storage_decrement_counter(): an attempt is counted
\* before anything is decrypted.
Decrement == DecrementWith(NoPin \/ NoAttempts \/ WriteFails \/ CountAttempt)

\* Read the blob and check its hmac.
DecryptOk ==
    /\ pc = "decrypt" /\ blob # None /\ blob.aes = aes
    /\ Goto("restore")
    /\ UNCHANGED <<nvs, ram, oracle, ghost>>

DecryptBad ==
    /\ pc = "decrypt" /\ blob # None /\ blob.aes # aes
    /\ spent' = IF spent > MaxAttempts THEN spent ELSE spent + 1
    /\ \E c \in ReadCounter :
           IF c = 0 THEN StartErase("bad_pin") ELSE Goto("load_failed")
    /\ UNCHANGED <<nvs, ram, oracle, condemned>>

NoBlob ==
    /\ pc = "decrypt" /\ (blob = None \/ NvsMayFail)
    /\ StartErase("no_blob")
    /\ UNCHANGED <<nvs, ram, oracle, ghost>>

\* storage_erase_encrypted_blob(): the counter first, then the blob.  Within
\* storage_decrement_counter() the caller's cached flag is left alone.
EraseCounterThen(next) ==
    /\ pc = "erase_counter"
    /\ counter' \in Commit(counter, 0)
    /\ condemned' = (condemned \/ (counter' = 0 /\ blob # None))
    /\ Goto(next)
    /\ UNCHANGED <<blob, nvsNetwork, erasePin, ram, oracle, spent>>

\* Mutant: the blob is left behind.
EraseCounterOnly == EraseCounterThen("load_failed")

EraseCounter == EraseCounterThen("erase_blob")

EraseBlob ==
    /\ pc = "erase_blob"
    /\ blob' \in Commit(blob, None)
    /\ condemned' = (condemned /\ blob' # None)
    /\ hasPin' = (hasPin /\ cause # "no_blob")
    /\ Goto(IF cause \in {"no_attempts", "no_blob"} THEN "load_failed"
                                                    ELSE "erase_network")
    /\ UNCHANGED <<counter, nvsNetwork, erasePin, keys, owner, temporary,
                   network, changePin, relogin, oracle, spent>>

\* The rest of keychain_erase_encrypted().  Called for the wallet-erase PIN, the
\* unit then shuts down.
EraseNetwork ==
    /\ pc = "erase_network"
    /\ nvsNetwork' \in Commit(nvsNetwork, None)
    /\ network' = None /\ hasPin' = FALSE
    /\ UNCHANGED <<counter, blob, erasePin, keys, owner, temporary, changePin,
                   relogin, oracle, ghost>>
    /\ IF cause = "erase_pin"
       THEN pc' = "shutdown" /\ UNCHANGED locals
       ELSE Goto("load_failed")

Shutdown == pc = "shutdown" /\ Restart

\* Back in the caller: check_wallet_erase_pin() and "Incorrect PIN!", or
\* "Failed to re-encrypt key data!", which is not an error for auth_user.
LoadFailed ==
    /\ pc = "load_failed"
    /\ \/ job = "unlock" /\ (pin # erasePin \/ NvsMayFail) /\ EndAuthUser
       \/ /\ \/ job = "change" /\ Goto("reply_ok")
             \/ job = "unlock" /\ pin = erasePin /\ StartErase("erase_pin")
          /\ UNCHANGED <<owner, relogin>>
    /\ UNCHANGED <<nvs, cached, oracle, ghost>>

\* The PIN is right: reset the counter (a failure is ignored), then
\* keychain_load() sets the keys and get_pin_load_keys() the source.
Restore ==
    /\ pc = "restore"
    /\ counter' \in Commit(counter, MaxAttempts)
    /\ spent' = 0
    /\ IF job = "unlock"
       THEN /\ keys' = blob.wallet /\ owner' = src /\ temporary' = FALSE
            /\ Goto(IF changePin THEN "ask_change" ELSE "reply_ok")
       ELSE Goto("save_counter") /\ UNCHANGED <<keys, owner, temporary>>
    /\ UNCHANGED <<blob, nvsNetwork, erasePin, hasPin, network, changePin,
                   relogin, oracle, condemned>>

-----------------------------------------------------------------------------
(* Changing the PIN, set_pin_get_aeskey() and pinclient_set() *)

\* "Do you want to change your PIN?"
AskChange(yes) ==
    /\ pc = "ask_change"
    /\ IF yes THEN pc' = "new_pin" /\ job' = "change"
              ELSE pc' = "reply_ok" /\ job' = job
    /\ UNCHANGED <<nvs, ram, cause, src, rejected, net, pin, aes, newAes,
                   oracle, ghost>>

\* A new PIN entered twice.
EnterNewPin(p) ==
    /\ pc = "new_pin"
    /\ pin' = p /\ pc' = "set_request"
    /\ UNCHANGED <<nvs, ram, job, cause, src, rejected, net, aes, newAes,
                   oracle, ghost>>

\* No aes-key for a new PIN.  While saving, the handler ends; while changing,
\* get_pin_load_keys() goes on to its "All good" reply.
NoNewKey(source, error) ==
    /\ IF job = "save"
       THEN EndAuthUser
       ELSE /\ pc' = "reply_ok"
            /\ src' = source
            /\ rejected' = (error /\ source # None)
            /\ UNCHANGED <<owner, relogin, job, cause, net, pin, aes, newAes>>
    /\ UNCHANGED <<cached, oracle, ghost>>

AbandonNewPin == pc = "new_pin" /\ NoNewKey(src, TRUE) /\ UNCHANGED nvs

\* Send the set_pin request; from here the oracle may process it at any time.
SendSetPinWith(attempts) ==
    /\ pc = "set_request"
    /\ counter' = attempts
    /\ \/ posted' = pin /\ Goto("set_wait") /\ UNCHANGED <<ram, server, ghost>>
       \/ NvsMayFail /\ NoNewKey(src, TRUE)     \* replay counter not persisted
    /\ UNCHANGED <<blob, nvsNetwork, erasePin>>

\* Mutant: the counter is restored before the oracle has replaced its key.
RestoreBeforeSetPin == SendSetPinWith(MaxAttempts)

SendSetPin == SendSetPinWith(counter)

\* The oracle gives the device a new random key for this PIN.  The host may
\* deliver the request late, when the handler no longer waits for it.
OracleSetPin ==
    /\ posted # None
    /\ \E k \in FreshKeys : server' = [key |-> k, pin |-> posted]
    /\ posted' = None
    /\ UNCHANGED <<nvs, ram, pc, locals, ghost>>

\* The answer to the pending set_pin request.
SetPinReply(s) ==
    /\ pc = "set_wait" /\ posted = None /\ server # None
    /\ newAes' = server /\ src' = s /\ rejected' = FALSE
    /\ pc' = IF job = "save" THEN "save_counter" ELSE "decrement"
    /\ UNCHANGED <<nvs, ram, job, cause, net, pin, aes, oracle, ghost>>

\* A 'pin' message without parameters, and the user chooses to retry.
SetPinRetry(s) ==
    /\ pc = "set_wait"
    /\ src' = s /\ rejected' = FALSE /\ pc' = "set_request"
    /\ UNCHANGED <<nvs, ram, job, cause, net, pin, aes, newAes, oracle, ghost>>

\* Anything else that ends the wait: a message that is rejected, 'cancel'
\* (silent), or no message because the connection was lost.
SetPinFails ==
    /\ pc = "set_wait" /\ UNCHANGED nvs
    /\ \/ \E s \in Sources, error \in BOOLEAN : NoNewKey(s, error)
       \/ src \in {"serial", "ble"} /\ NoNewKey(None, FALSE)

-----------------------------------------------------------------------------
(* storage_set_encrypted_blob(), for keychain_store() and keychain_reencrypt() *)

\* "Failed to store key data": an error reply when saving; when changing only a
\* message on screen.
SaveFails ==
    /\ NvsMayFail
    /\ IF job = "save" THEN EndAuthUser
                       ELSE Goto("reply_ok") /\ UNCHANGED <<owner, relogin>>

\* The counter is restored before the blob is written.
SaveCounter ==
    /\ pc = "save_counter"
    /\ counter' \in Commit(counter, MaxAttempts)
    /\ \/ /\ counter' = MaxAttempts
          /\ Goto("save_blob") /\ UNCHANGED <<owner, relogin>>
       \/ SaveFails
    /\ UNCHANGED <<blob, nvsNetwork, erasePin, cached, oracle, ghost>>

SaveBlobWith(key) ==
    /\ pc = "save_blob"
    /\ LET new == [wallet |-> IF job = "save" THEN keys ELSE blob.wallet,
                   aes |-> key]
       IN  /\ blob' \in Commit(blob, new)
           /\ \/ /\ blob' = new
                 /\ Goto(IF job = "save" THEN "save_network" ELSE "reply_ok")
                 /\ UNCHANGED <<owner, relogin>>
              \/ SaveFails
           /\ IF blob' = new THEN spent' = 0 /\ condemned' = FALSE
                             ELSE UNCHANGED ghost
    /\ UNCHANGED <<counter, nvsNetwork, erasePin, cached, oracle>>

\* Mutant: keychain_reencrypt() encrypts with the key it decrypted with.
SaveBlobOldKey == SaveBlobWith(IF job = "save" THEN newAes ELSE aes)

SaveBlob == SaveBlobWith(newAes)

\* The rest of keychain_store(), then keychain_set() for this source.
SaveNetwork ==
    /\ pc = "save_network"
    /\ nvsNetwork' \in Commit(nvsNetwork, None) /\ network' = None
    /\ hasPin' = TRUE /\ owner' = src /\ temporary' = FALSE
    /\ Goto("reply_ok")
    /\ UNCHANGED <<counter, blob, erasePin, keys, changePin, relogin, oracle,
                   ghost>>

-----------------------------------------------------------------------------
(* Success: reply, and pin the network type *)

\* jade_process_push_out_message() asserts that the message has a source.
CanReply == src # None

ReplyOk ==
    /\ pc = "reply_ok" /\ CanReply
    /\ changePin' = FALSE
    /\ RestrictNetwork(net)
    /\ EndAuthUser
    /\ UNCHANGED <<counter, blob, erasePin, keys, temporary, hasPin, oracle,
                   ghost>>

ReplyAssertFails == pc = "reply_ok" /\ ~CanReply /\ Restart

\* Power lost, or the idle timer switches the unit off, at any point.
Reboot == MayCrash /\ Restart

-----------------------------------------------------------------------------
Menu ==
    \/ \E w \in Wallets : CreateWallet(w)
    \/ \E t \in TempWallets : TemporaryLogin(t)
    \/ MakeTemporary \/ UseTemporaryByQr
    \/ Logout \/ ChangePinQr
    \/ \E b \in BOOLEAN : RequestChangePin(b)
    \/ \E p \in Pins \cup {None} : SetErasePin(p)
    \/ \E n \in Networks : ClearNetwork(n)

AuthUser ==
    \E s \in Sources, n \in Networks :
        \/ Refused(s, n)
        \/ AlreadyUnlocked(s, n)
        \/ AdoptTemporary(s, n)
        \/ StartUnlock(s, n)
        \/ StartSave(s, n)

User ==
    \/ \E p \in Pins : EnterPin(p) \/ EnterNewPin(p)
    \/ AbandonPin \/ AbandonNewPin
    \/ \E b \in BOOLEAN : AskChange(b)

Host ==
    \/ \E s \in Sources : \/ GetPinReply(s) \/ GetPinRetry(s)
                          \/ SetPinReply(s) \/ SetPinRetry(s)
    \/ GetPinFails \/ SetPinFails \/ OracleSetPin

\* The steps the firmware takes by itself.
Device ==
    \/ SendGetPin \/ SendSetPin
    \/ Decrement \/ DecryptOk \/ DecryptBad \/ NoBlob
    \/ EraseCounter \/ EraseBlob \/ EraseNetwork \/ LoadFailed \/ Shutdown
    \/ Restore \/ SaveCounter \/ SaveBlob \/ SaveNetwork
    \/ ReplyOk \/ SetNetwork \/ AssertFails \/ ReplyAssertFails

Next == Menu \/ AuthUser \/ User \/ Host \/ Device \/ Reboot

Spec == Init /\ [][Next]_vars

\* The main task keeps running whenever it has something to do.
FairSpec == Spec /\ WF_vars(Device)

-----------------------------------------------------------------------------
(* Properties *)

\* A stored wallet that can still be opened has been guessed at wrongly, since
\* it was written or last opened, at most as often as the counter has been
\* lowered, a guess in progress included; so three wrong PINs at most, however
\* the handler is interrupted (the decrement-before-decrypt order of
\* storage_decrement_counter() and the erase at zero).
GuessBudget ==
    Live => spent + counter + (IF pc = "decrypt" THEN 1 ELSE 0) <= MaxAttempts

\* A wallet whose erasure has begun (third wrong PIN, wallet-erase PIN) is never
\* opened again, even if power is lost between erasing the counter and erasing
\* the blob, and a later set-up restores the counter in front of the old blob.
CondemnedStaysShut == pc = "restore" => ~condemned

\* Keys that were only ever loaded as a temporary wallet never reach flash.
TemporaryNeverStored == blob # None => blob.wallet \in Wallets

\* The wallet is open, its PIN was being changed, and whoever asked is gone.
LostInChange == job = "change" /\ keys # None

\* The assertions of auth_user.c on entry to its PIN steps and of
\* keychain_set_network_type_restriction() hold.  Those of process.c, that a message
\* replied to has a source, do but for one case: the connection lost while the answer
\* for a new PIN was awaited, after which get_pin_load_keys() replies all the same.
AssertionsHold ==
    /\ pc = "get_pin" => keys = None /\ CanAskPin
    /\ pc = "new_pin" /\ job = "save" => keys # None /\ ~hasPin /\ ~temporary
    /\ pc \in {"reply_ok", "menu_network"} => NetworkConsistent(net)
    /\ pc = "reply_ok" => CanReply \/ LostInChange

\* Unlocked keys never pass from one message source to another: a source gets
\* them only after they were locked, by giving the PIN itself.  The one exception
\* is the end of a PIN change by QR, which the session's own source gets back.
SameOwner ==
    [][owner # None /\ owner' # None
       => owner' = owner \/ (owner = "internal" /\ owner' = relogin)]_vars

\* A wallet that can be opened is destroyed only by a third wrong PIN, by the
\* wallet-erase PIN, or by the oracle replacing or discarding its key.
LiveWalletKept ==
    [][Live /\ ~Live' => \/ server' # server
                         \/ blob' = None /\ cause \in {"bad_pin", "erase_pin"}]_vars

\* Once the oracle's answer for a new PIN is in hand, the stored wallet ends up
\* encrypted with the new key: keychain_reencrypt() runs to its end.  (If power is
\* lost before, the wallet is lost: the oracle has dropped the old key.)
PinChangeCompletes ==
    pc = "decrement" /\ job = "change" /\ newAes = server
        ~> pc = "reply_ok" /\ blob # None /\ blob.aes = newAes

\* A third wrong PIN, or the wallet-erase PIN, does erase the blob.
EraseCompletes == condemned ~> blob = None

-----------------------------------------------------------------------------
(* WalletAuth implements PinVault as long as flash does not fail *)

\* The stored wallet counts as sealed while some PIN entry can still open it.
Openable == Live /\ (counter > 0 \/ pc \in {"decrypt", "restore"})

Vault == INSTANCE PinVault WITH
    sealed <- IF Openable THEN blob.wallet ELSE None,
    budget <- IF Openable THEN counter ELSE 0,
    trying <- Openable /\ pc \in {"decrypt", "restore"},
    open   <- keys,
    lender <- relogin

ImplementsVault == Vault!Spec
=============================================================================

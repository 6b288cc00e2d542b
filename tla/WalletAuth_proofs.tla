-------------------------- MODULE WalletAuth_proofs --------------------------
(***************************************************************************)
(* Theorems about WalletAuth, for any sets of wallets, PINs, oracle keys,  *)
(* networks and sources, with power that may be lost at every step.        *)
(* The first part holds with flash that may fail at every access: IInv is  *)
(* inductive; there is a lemma for each of its parts, with a step for each *)
(* action.  The second part is about flash that does not fail: Steady says *)
(* how the steps of the handler, the counter, the blob and the record of   *)
(* the oracle go together, and with it every step is one of PinVault's.    *)
(* At the end: a change of PIN and an erasure, once begun, are finished.   *)
(***************************************************************************)
EXTENDS WalletAuth, TLAPS

\* TypeOK in two parts: the provers treat Boolean variables apart.
BooleansOK ==
    /\ temporary \in BOOLEAN /\ hasPin \in BOOLEAN /\ changePin \in BOOLEAN
    /\ rejected \in BOOLEAN /\ condemned \in BOOLEAN

DataOK ==
    /\ counter \in 0..MaxAttempts /\ spent \in 0..MaxAttempts + 1
    /\ blob \in Blobs \cup {None}
    /\ nvsNetwork \in Networks \cup {None} /\ network \in Networks \cup {None}
    /\ net \in Networks \cup {None}
    /\ erasePin \in Pins \cup {None} /\ pin \in Pins \cup {None}
    /\ posted \in Pins \cup {None}
    /\ keys \in Wallets \cup TempWallets \cup {None}
    /\ owner \in Sources \cup {None} /\ relogin \in Sources \cup {None}
    /\ src \in Sources \cup {None}
    /\ pc \in Labels
    /\ job \in {"none", "unlock", "change", "save"}
    /\ cause \in {"none", "no_attempts", "no_blob", "bad_pin", "erase_pin"}
    /\ aes \in AesKeys \cup {None} /\ newAes \in AesKeys \cup {None}
    /\ server \in AesKeys \cup {None}

\* Which jobs each step of the handler can be working on.
JobOK ==
    /\ pc \in {"get_pin", "get_request", "get_wait", "ask_change"} => job = "unlock"
    /\ pc \in {"decrement", "decrypt", "restore"} => job \in {"unlock", "change"}
    /\ pc \in {"new_pin", "set_request", "set_wait", "save_counter", "save_blob"}
           => job \in {"change", "save"}
    /\ pc = "save_network" => job = "save"

\* What is known to be there at the steps that use it.
LocalsOK ==
    /\ pc \in {"get_request", "get_wait", "set_request", "set_wait"} => pin \in Pins
    /\ pc \in {"save_counter", "save_blob"} => newAes \in AesKeys
    /\ pc \in {"decrement", "decrypt", "restore"} /\ job = "change"
           => newAes \in AesKeys
    /\ pc = "restore" => blob # None
    /\ pc \in {"save_counter", "save_blob"} /\ job = "change" => blob # None

\* Keys that are not temporary are those of a wallet set up to be kept, and they
\* stay in place while they are being saved.
KeysOK ==
    /\ keys # None /\ ~temporary => keys \in Wallets
    /\ pc \in {"new_pin", "set_request", "set_wait", "save_counter", "save_blob",
               "save_network"} /\ job = "save" => keys \in Wallets

\* The counter may be restored ahead of the blob: when a wallet is saved, the old
\* blob cannot be opened any more, because the oracle has replaced its key; when
\* the PIN is changed, no guess has been spent.
BudgetOK ==
    /\ pc = "set_wait" /\ posted = None => ~Live
    /\ pc \in {"save_counter", "save_blob"} =>
           IF job = "save" THEN ~Live ELSE spent = 0

\* A condemned blob cannot be opened: nobody has the key, or the counter is 0 and
\* whoever asks for the key finds the counter before the blob.
CondemnedOK ==
    /\ condemned => blob # None /\ (counter = 0 \/ ~Live)
    /\ condemned /\ pc = "decrement" => counter = 0 \/ blob.aes # aes
    /\ condemned /\ pc = "decrypt" => blob.aes # aes
    /\ condemned => pc # "ask_change" /\ (job = "change" =>
           pc \notin {"new_pin", "set_request", "set_wait", "decrement", "decrypt",
                     "save_counter", "save_blob"})

IInv ==
    /\ BooleansOK /\ DataOK /\ JobOK /\ LocalsOK
    /\ KeysOK /\ TemporaryNeverStored
    /\ BudgetOK /\ GuessBudget
    /\ CondemnedOK /\ CondemnedStaysShut

-----------------------------------------------------------------------------
(* IInv holds initially *)

LEMMA InitIInv == Init => IInv
<1> SUFFICES ASSUME Init PROVE IInv OBVIOUS
<1>1. BooleansOK BY Zenon DEF Init, BooleansOK
<1>2. DataOK BY DEF Init, DataOK, MaxAttempts, Labels
<1>3. JobOK /\ LocalsOK /\ KeysOK BY DEF Init, JobOK, LocalsOK, KeysOK
<1>4. BudgetOK /\ GuessBudget /\ TemporaryNeverStored
      BY DEF Init, BudgetOK, GuessBudget, TemporaryNeverStored, Live
<1>5. CondemnedOK /\ CondemnedStaysShut
      BY Zenon DEF Init, CondemnedOK, CondemnedStaysShut
<1> QED BY <1>1, <1>2, <1>3, <1>4, <1>5 DEF IInv

LEMMA IInvTypeOK == IInv => TypeOK
<1> SUFFICES ASSUME IInv PROVE TypeOK OBVIOUS
<1>1. BooleansOK BY DEF IInv
<1>2. DataOK BY DEF IInv
<1> QED BY <1>1, <1>2, Zenon DEF BooleansOK, DataOK, TypeOK

-----------------------------------------------------------------------------
(* Every step keeps each part of IInv *)

\* The Boolean variables stay Boolean.
LEMMA BooleansStep == IInv /\ [Next]_vars => BooleansOK'
<1> SUFFICES ASSUME IInv, [Next]_vars PROVE BooleansOK' OBVIOUS
<1> USE DEF IInv, BooleansOK, nvs, cached, ram, locals, oracle, ghost
<1>1. CASE Menu
  <2>1. ASSUME NEW w \in Wallets, CreateWallet(w) PROVE BooleansOK'
        BY <2>1 DEF CreateWallet, Commit
  <2>2. ASSUME NEW t \in TempWallets, TemporaryLogin(t) PROVE BooleansOK'
        BY <2>2 DEF TemporaryLogin
  <2>3. CASE MakeTemporary
        BY <2>3 DEF MakeTemporary
  <2>4. CASE UseTemporaryByQr
        BY <2>4 DEF UseTemporaryByQr
  <2>5. CASE Logout
        BY <2>5 DEF Logout, KeychainClear
  <2>6. CASE ChangePinQr
        BY <2>6 DEF ChangePinQr, KeychainClear
  <2>7. ASSUME NEW b \in BOOLEAN, RequestChangePin(b) PROVE BooleansOK'
        BY <2>7 DEF RequestChangePin
  <2>8. ASSUME NEW p \in Pins \cup {None}, SetErasePin(p) PROVE BooleansOK'
        BY <2>8 DEF SetErasePin, Commit
  <2>9. ASSUME NEW n \in Networks, ClearNetwork(n) PROVE BooleansOK'
        BY <2>9 DEF ClearNetwork, Commit
  <2> QED BY <1>1, <2>1, <2>2, <2>3, <2>4, <2>5, <2>6, <2>7, <2>8, <2>9 DEF
     Menu
<1>2. CASE AuthUser
  <2>1. ASSUME NEW s \in Sources, NEW n \in Networks, Refused(s, n) PROVE BooleansOK'
        BY <2>1 DEF Refused, Relogin
  <2>2. ASSUME NEW s \in Sources, NEW n \in Networks, AlreadyUnlocked(s, n) PROVE BooleansOK'
        BY <2>2 DEF AlreadyUnlocked, Request, Relogin, RestrictNetwork, Commit
  <2>3. ASSUME NEW s \in Sources, NEW n \in Networks, AdoptTemporary(s, n) PROVE BooleansOK'
        BY <2>3 DEF AdoptTemporary, Request, Relogin, RestrictNetwork, Commit
  <2>4. ASSUME NEW s \in Sources, NEW n \in Networks, StartUnlock(s, n) PROVE BooleansOK'
        BY <2>4 DEF StartUnlock, Request, KeychainClear
  <2>5. ASSUME NEW s \in Sources, NEW n \in Networks, StartSave(s, n) PROVE BooleansOK'
        BY <2>5 DEF StartSave, SaveKeys, Request, Commit
  <2> QED BY <1>2, <2>1, <2>2, <2>3, <2>4, <2>5 DEF AuthUser
<1>3. CASE User
  <2>1. ASSUME NEW p \in Pins, EnterPin(p) PROVE BooleansOK'
        BY <2>1 DEF EnterPin
  <2>2. ASSUME NEW p \in Pins, EnterNewPin(p) PROVE BooleansOK'
        BY <2>2 DEF EnterNewPin
  <2>3. CASE AbandonPin
        BY <2>3 DEF AbandonPin, EndAuthUser, EndHandler, Relogin
  <2>4. CASE AbandonNewPin
        BY <2>4 DEF AbandonNewPin, NoNewKey, EndAuthUser, EndHandler, Relogin
  <2>5. ASSUME NEW b \in BOOLEAN, AskChange(b) PROVE BooleansOK'
        BY <2>5 DEF AskChange
  <2> QED BY <1>3, <2>1, <2>2, <2>3, <2>4, <2>5 DEF User
<1>4. CASE Host
  <2>1. ASSUME NEW s \in Sources, GetPinReply(s) PROVE BooleansOK'
        BY <2>1 DEF GetPinReply, AesKeys, FreshKeys
  <2>2. ASSUME NEW s \in Sources, GetPinRetry(s) PROVE BooleansOK'
        BY <2>2 DEF GetPinRetry
  <2>3. ASSUME NEW s \in Sources, SetPinReply(s) PROVE BooleansOK'
        BY <2>3 DEF SetPinReply
  <2>4. ASSUME NEW s \in Sources, SetPinRetry(s) PROVE BooleansOK'
        BY <2>4 DEF SetPinRetry
  <2>5. CASE GetPinFails
        BY <2>5 DEF GetPinFails, EndAuthUser, EndHandler, Relogin
  <2>6. CASE SetPinFails
        BY <2>6 DEF SetPinFails, NoNewKey, EndAuthUser, EndHandler, Relogin
  <2>7. CASE OracleSetPin
        BY <2>7 DEF OracleSetPin, AesKeys, FreshKeys
  <2> QED BY <1>4, <2>1, <2>2, <2>3, <2>4, <2>5, <2>6, <2>7 DEF Host
<1>5. CASE Device
  <2>1. CASE SendGetPin
        BY <2>1 DEF SendGetPin, Goto, EndAuthUser, EndHandler, Relogin
  <2>2. CASE SendSetPin
        BY <2>2 DEF SendSetPin, SendSetPinWith, NoNewKey, Goto, EndAuthUser,
           EndHandler, Relogin
  <2>3. CASE Decrement
        BY <2>3 DEF Decrement, DecrementWith, NoPin, NoAttempts, WriteFails,
           CountAttempt, StartErase, Goto, Commit
  <2>4. CASE DecryptOk
        BY <2>4 DEF DecryptOk, Goto
  <2>5. CASE DecryptBad
        BY <2>5 DEF DecryptBad, StartErase, Goto
  <2>6. CASE NoBlob
        BY <2>6 DEF NoBlob, StartErase
  <2>7. CASE EraseCounter
        BY <2>7 DEF EraseCounter, EraseCounterThen, Goto, Commit
  <2>8. CASE EraseBlob
        BY <2>8 DEF EraseBlob, Goto, Commit
  <2>9. CASE EraseNetwork
        BY <2>9 DEF EraseNetwork, Goto, Commit
  <2>10. CASE LoadFailed
        BY <2>10 DEF LoadFailed, StartErase, Goto, EndAuthUser, EndHandler,
           Relogin
  <2>11. CASE Shutdown
        BY <2>11 DEF Shutdown, Restart, KeychainClear, EndHandler, Read
  <2>12. CASE Restore
        BY <2>12 DEF Restore, Goto, Commit
  <2>13. CASE SaveCounter
        BY <2>13 DEF SaveCounter, SaveFails, Goto, EndAuthUser, EndHandler,
           Relogin, Commit
  <2>14. CASE SaveBlob
        BY <2>14 DEF SaveBlob, SaveBlobWith, SaveFails, Goto, EndAuthUser,
           EndHandler, Relogin, Commit
  <2>15. CASE SaveNetwork
        BY <2>15 DEF SaveNetwork, Goto, Commit
  <2>16. CASE ReplyOk
        BY <2>16 DEF ReplyOk, RestrictNetwork, EndAuthUser, EndHandler,
           Relogin, Commit
  <2>17. CASE SetNetwork
        BY <2>17 DEF SetNetwork, RestrictNetwork, EndHandler, Commit
  <2>18. CASE AssertFails
        BY <2>18 DEF AssertFails, Restart, KeychainClear, EndHandler, Read
  <2>19. CASE ReplyAssertFails
        BY <2>19 DEF ReplyAssertFails, Restart, KeychainClear, EndHandler, Read
  <2> QED BY <1>5, <2>1, <2>2, <2>3, <2>4, <2>5, <2>6, <2>7, <2>8, <2>9, <2>10,
     <2>11, <2>12, <2>13, <2>14, <2>15, <2>16, <2>17, <2>18, <2>19 DEF Device
<1>6. CASE Reboot
      BY <1>6 DEF Reboot, Restart, KeychainClear, EndHandler, Read
<1>7. CASE UNCHANGED vars
      BY <1>7 DEF vars
<1> QED BY <1>1, <1>2, <1>3, <1>4, <1>5, <1>6, <1>7 DEF Next

\* Every other variable keeps its type.
LEMMA DataStep == IInv /\ [Next]_vars => DataOK'
<1> SUFFICES ASSUME IInv, [Next]_vars PROVE DataOK' OBVIOUS
<1> USE DEF IInv, DataOK, JobOK, LocalsOK, KeysOK, MaxAttempts, Labels, Blobs,
   nvs, cached, ram, locals, oracle, ghost
<1>1. CASE Menu
  <2>1. ASSUME NEW w \in Wallets, CreateWallet(w) PROVE DataOK'
        BY <2>1 DEF CreateWallet, Commit
  <2>2. ASSUME NEW t \in TempWallets, TemporaryLogin(t) PROVE DataOK'
        BY <2>2 DEF TemporaryLogin
  <2>3. CASE MakeTemporary
        BY <2>3 DEF MakeTemporary
  <2>4. CASE UseTemporaryByQr
        BY <2>4 DEF UseTemporaryByQr
  <2>5. CASE Logout
        BY <2>5 DEF Logout, KeychainClear
  <2>6. CASE ChangePinQr
        BY <2>6 DEF ChangePinQr, KeychainClear
  <2>7. ASSUME NEW b \in BOOLEAN, RequestChangePin(b) PROVE DataOK'
        BY <2>7 DEF RequestChangePin
  <2>8. ASSUME NEW p \in Pins \cup {None}, SetErasePin(p) PROVE DataOK'
        BY <2>8 DEF SetErasePin, Commit
  <2>9. ASSUME NEW n \in Networks, ClearNetwork(n) PROVE DataOK'
        BY <2>9 DEF ClearNetwork, Commit
  <2> QED BY <1>1, <2>1, <2>2, <2>3, <2>4, <2>5, <2>6, <2>7, <2>8, <2>9 DEF
     Menu
<1>2. CASE AuthUser
  <2>1. ASSUME NEW s \in Sources, NEW n \in Networks, Refused(s, n) PROVE DataOK'
        BY <2>1 DEF Refused, Relogin
  <2>2. ASSUME NEW s \in Sources, NEW n \in Networks, AlreadyUnlocked(s, n) PROVE DataOK'
        BY <2>2 DEF AlreadyUnlocked, Request, Relogin, RestrictNetwork, Commit
  <2>3. ASSUME NEW s \in Sources, NEW n \in Networks, AdoptTemporary(s, n) PROVE DataOK'
        BY <2>3 DEF AdoptTemporary, Request, Relogin, RestrictNetwork, Commit
  <2>4. ASSUME NEW s \in Sources, NEW n \in Networks, StartUnlock(s, n) PROVE DataOK'
        BY <2>4 DEF StartUnlock, Request, KeychainClear
  <2>5. ASSUME NEW s \in Sources, NEW n \in Networks, StartSave(s, n) PROVE DataOK'
        BY <2>5 DEF StartSave, SaveKeys, Request, Commit
  <2> QED BY <1>2, <2>1, <2>2, <2>3, <2>4, <2>5 DEF AuthUser
<1>3. CASE User
  <2>1. ASSUME NEW p \in Pins, EnterPin(p) PROVE DataOK'
        BY <2>1 DEF EnterPin
  <2>2. ASSUME NEW p \in Pins, EnterNewPin(p) PROVE DataOK'
        BY <2>2 DEF EnterNewPin
  <2>3. CASE AbandonPin
        BY <2>3 DEF AbandonPin, EndAuthUser, EndHandler, Relogin
  <2>4. CASE AbandonNewPin
        BY <2>4 DEF AbandonNewPin, NoNewKey, EndAuthUser, EndHandler, Relogin
  <2>5. ASSUME NEW b \in BOOLEAN, AskChange(b) PROVE DataOK'
        BY <2>5 DEF AskChange
  <2> QED BY <1>3, <2>1, <2>2, <2>3, <2>4, <2>5 DEF User
<1>4. CASE Host
  <2>1. ASSUME NEW s \in Sources, GetPinReply(s) PROVE DataOK'
        BY <2>1 DEF GetPinReply, AesKeys, FreshKeys
  <2>2. ASSUME NEW s \in Sources, GetPinRetry(s) PROVE DataOK'
        BY <2>2 DEF GetPinRetry
  <2>3. ASSUME NEW s \in Sources, SetPinReply(s) PROVE DataOK'
        BY <2>3 DEF SetPinReply
  <2>4. ASSUME NEW s \in Sources, SetPinRetry(s) PROVE DataOK'
        BY <2>4 DEF SetPinRetry
  <2>5. CASE GetPinFails
        BY <2>5 DEF GetPinFails, EndAuthUser, EndHandler, Relogin
  <2>6. CASE SetPinFails
        BY <2>6 DEF SetPinFails, NoNewKey, EndAuthUser, EndHandler, Relogin
  <2>7. CASE OracleSetPin
        BY <2>7 DEF OracleSetPin, AesKeys, FreshKeys
  <2> QED BY <1>4, <2>1, <2>2, <2>3, <2>4, <2>5, <2>6, <2>7 DEF Host
<1>5. CASE Device
  <2>1. CASE SendGetPin
        BY <2>1 DEF SendGetPin, Goto, EndAuthUser, EndHandler, Relogin
  <2>2. CASE SendSetPin
        BY <2>2 DEF SendSetPin, SendSetPinWith, NoNewKey, Goto, EndAuthUser,
           EndHandler, Relogin
  <2>3. CASE Decrement
        BY <2>3 DEF Decrement, DecrementWith, NoPin, NoAttempts, WriteFails,
           CountAttempt, StartErase, Goto, Commit
  <2>4. CASE DecryptOk
        BY <2>4 DEF DecryptOk, Goto
  <2>5. CASE DecryptBad
        BY <2>5 DEF DecryptBad, StartErase, Goto
  <2>6. CASE NoBlob
        BY <2>6 DEF NoBlob, StartErase
  <2>7. CASE EraseCounter
        BY <2>7 DEF EraseCounter, EraseCounterThen, Goto, Commit
  <2>8. CASE EraseBlob
        BY <2>8 DEF EraseBlob, Goto, Commit
  <2>9. CASE EraseNetwork
        BY <2>9 DEF EraseNetwork, Goto, Commit
  <2>10. CASE LoadFailed
        BY <2>10 DEF LoadFailed, StartErase, Goto, EndAuthUser, EndHandler,
           Relogin
  <2>11. CASE Shutdown
        BY <2>11 DEF Shutdown, Restart, KeychainClear, EndHandler, Read
  <2>12. CASE Restore
        BY <2>12 DEF Restore, Goto, Commit
  <2>13. CASE SaveCounter
        BY <2>13 DEF SaveCounter, SaveFails, Goto, EndAuthUser, EndHandler,
           Relogin, Commit
  <2>14. CASE SaveBlob
        BY <2>14 DEF SaveBlob, SaveBlobWith, SaveFails, Goto, EndAuthUser,
           EndHandler, Relogin, Commit
  <2>15. CASE SaveNetwork
        BY <2>15 DEF SaveNetwork, Goto, Commit
  <2>16. CASE ReplyOk
        BY <2>16 DEF ReplyOk, RestrictNetwork, EndAuthUser, EndHandler,
           Relogin, Commit
  <2>17. CASE SetNetwork
        BY <2>17 DEF SetNetwork, RestrictNetwork, EndHandler, Commit
  <2>18. CASE AssertFails
        BY <2>18 DEF AssertFails, Restart, KeychainClear, EndHandler, Read
  <2>19. CASE ReplyAssertFails
        BY <2>19 DEF ReplyAssertFails, Restart, KeychainClear, EndHandler, Read
  <2> QED BY <1>5, <2>1, <2>2, <2>3, <2>4, <2>5, <2>6, <2>7, <2>8, <2>9, <2>10,
     <2>11, <2>12, <2>13, <2>14, <2>15, <2>16, <2>17, <2>18, <2>19 DEF Device
<1>6. CASE Reboot
      BY <1>6 DEF Reboot, Restart, KeychainClear, EndHandler, Read
<1>7. CASE UNCHANGED vars
      BY <1>7 DEF vars
<1> QED BY <1>1, <1>2, <1>3, <1>4, <1>5, <1>6, <1>7 DEF Next

\* A handler reaches each of its steps with the job and the locals it needs.
LEMMA ControlStep == IInv /\ [Next]_vars => (JobOK /\ LocalsOK)'
<1> SUFFICES ASSUME IInv, [Next]_vars PROVE (JobOK /\ LocalsOK)' OBVIOUS
<1> USE DEF IInv, DataOK, JobOK, LocalsOK, KeysOK, Blobs, nvs, cached, ram,
   locals, oracle, ghost
<1>1. CASE Menu
  <2>1. ASSUME NEW w \in Wallets, CreateWallet(w) PROVE (JobOK /\ LocalsOK)'
        BY <2>1 DEF CreateWallet, Commit
  <2>2. ASSUME NEW t \in TempWallets, TemporaryLogin(t) PROVE (JobOK /\ LocalsOK)'
        BY <2>2 DEF TemporaryLogin
  <2>3. CASE MakeTemporary
        BY <2>3 DEF MakeTemporary
  <2>4. CASE UseTemporaryByQr
        BY <2>4 DEF UseTemporaryByQr
  <2>5. CASE Logout
        BY <2>5 DEF Logout, KeychainClear
  <2>6. CASE ChangePinQr
        BY <2>6 DEF ChangePinQr, KeychainClear
  <2>7. ASSUME NEW b \in BOOLEAN, RequestChangePin(b) PROVE (JobOK /\ LocalsOK)'
        BY <2>7 DEF RequestChangePin
  <2>8. ASSUME NEW p \in Pins \cup {None}, SetErasePin(p) PROVE (JobOK /\ LocalsOK)'
        BY <2>8 DEF SetErasePin, Commit
  <2>9. ASSUME NEW n \in Networks, ClearNetwork(n) PROVE (JobOK /\ LocalsOK)'
        BY <2>9 DEF ClearNetwork, Commit
  <2> QED BY <1>1, <2>1, <2>2, <2>3, <2>4, <2>5, <2>6, <2>7, <2>8, <2>9 DEF
     Menu
<1>2. CASE AuthUser
  <2>1. ASSUME NEW s \in Sources, NEW n \in Networks, Refused(s, n) PROVE (JobOK /\ LocalsOK)'
        BY <2>1 DEF Refused, Relogin
  <2>2. ASSUME NEW s \in Sources, NEW n \in Networks, AlreadyUnlocked(s, n) PROVE (JobOK /\ LocalsOK)'
        BY <2>2 DEF AlreadyUnlocked, Request, Relogin, RestrictNetwork, Commit
  <2>3. ASSUME NEW s \in Sources, NEW n \in Networks, AdoptTemporary(s, n) PROVE (JobOK /\ LocalsOK)'
        BY <2>3 DEF AdoptTemporary, Request, Relogin, RestrictNetwork, Commit
  <2>4. ASSUME NEW s \in Sources, NEW n \in Networks, StartUnlock(s, n) PROVE (JobOK /\ LocalsOK)'
        BY <2>4 DEF StartUnlock, Request, KeychainClear
  <2>5. ASSUME NEW s \in Sources, NEW n \in Networks, StartSave(s, n) PROVE (JobOK /\ LocalsOK)'
        BY <2>5 DEF StartSave, SaveKeys, Request, Commit
  <2> QED BY <1>2, <2>1, <2>2, <2>3, <2>4, <2>5 DEF AuthUser
<1>3. CASE User
  <2>1. ASSUME NEW p \in Pins, EnterPin(p) PROVE (JobOK /\ LocalsOK)'
        BY <2>1 DEF EnterPin
  <2>2. ASSUME NEW p \in Pins, EnterNewPin(p) PROVE (JobOK /\ LocalsOK)'
        BY <2>2 DEF EnterNewPin
  <2>3. CASE AbandonPin
        BY <2>3 DEF AbandonPin, EndAuthUser, EndHandler, Relogin
  <2>4. CASE AbandonNewPin
        BY <2>4 DEF AbandonNewPin, NoNewKey, EndAuthUser, EndHandler, Relogin
  <2>5. ASSUME NEW b \in BOOLEAN, AskChange(b) PROVE (JobOK /\ LocalsOK)'
        BY <2>5 DEF AskChange
  <2> QED BY <1>3, <2>1, <2>2, <2>3, <2>4, <2>5 DEF User
<1>4. CASE Host
  <2>1. ASSUME NEW s \in Sources, GetPinReply(s) PROVE (JobOK /\ LocalsOK)'
        BY <2>1 DEF GetPinReply, AesKeys, FreshKeys
  <2>2. ASSUME NEW s \in Sources, GetPinRetry(s) PROVE (JobOK /\ LocalsOK)'
        BY <2>2 DEF GetPinRetry
  <2>3. ASSUME NEW s \in Sources, SetPinReply(s) PROVE (JobOK /\ LocalsOK)'
        BY <2>3 DEF SetPinReply
  <2>4. ASSUME NEW s \in Sources, SetPinRetry(s) PROVE (JobOK /\ LocalsOK)'
        BY <2>4 DEF SetPinRetry
  <2>5. CASE GetPinFails
        BY <2>5 DEF GetPinFails, EndAuthUser, EndHandler, Relogin
  <2>6. CASE SetPinFails
        BY <2>6 DEF SetPinFails, NoNewKey, EndAuthUser, EndHandler, Relogin
  <2>7. CASE OracleSetPin
        BY <2>7 DEF OracleSetPin, AesKeys, FreshKeys
  <2> QED BY <1>4, <2>1, <2>2, <2>3, <2>4, <2>5, <2>6, <2>7 DEF Host
<1>5. CASE Device
  <2>1. CASE SendGetPin
        BY <2>1 DEF SendGetPin, Goto, EndAuthUser, EndHandler, Relogin
  <2>2. CASE SendSetPin
        BY <2>2 DEF SendSetPin, SendSetPinWith, NoNewKey, Goto, EndAuthUser,
           EndHandler, Relogin
  <2>3. CASE Decrement
        BY <2>3 DEF Decrement, DecrementWith, NoPin, NoAttempts, WriteFails,
           CountAttempt, StartErase, Goto, Commit
  <2>4. CASE DecryptOk
        BY <2>4 DEF DecryptOk, Goto
  <2>5. CASE DecryptBad
        BY <2>5 DEF DecryptBad, StartErase, Goto
  <2>6. CASE NoBlob
        BY <2>6 DEF NoBlob, StartErase
  <2>7. CASE EraseCounter
        BY <2>7 DEF EraseCounter, EraseCounterThen, Goto, Commit
  <2>8. CASE EraseBlob
        BY <2>8 DEF EraseBlob, Goto, Commit
  <2>9. CASE EraseNetwork
        BY <2>9 DEF EraseNetwork, Goto, Commit
  <2>10. CASE LoadFailed
        BY <2>10 DEF LoadFailed, StartErase, Goto, EndAuthUser, EndHandler,
           Relogin
  <2>11. CASE Shutdown
        BY <2>11 DEF Shutdown, Restart, KeychainClear, EndHandler, Read
  <2>12. CASE Restore
        BY <2>12 DEF Restore, Goto, Commit
  <2>13. CASE SaveCounter
        BY <2>13 DEF SaveCounter, SaveFails, Goto, EndAuthUser, EndHandler,
           Relogin, Commit
  <2>14. CASE SaveBlob
        BY <2>14 DEF SaveBlob, SaveBlobWith, SaveFails, Goto, EndAuthUser,
           EndHandler, Relogin, Commit
  <2>15. CASE SaveNetwork
        BY <2>15 DEF SaveNetwork, Goto, Commit
  <2>16. CASE ReplyOk
        BY <2>16 DEF ReplyOk, RestrictNetwork, EndAuthUser, EndHandler,
           Relogin, Commit
  <2>17. CASE SetNetwork
        BY <2>17 DEF SetNetwork, RestrictNetwork, EndHandler, Commit
  <2>18. CASE AssertFails
        BY <2>18 DEF AssertFails, Restart, KeychainClear, EndHandler, Read
  <2>19. CASE ReplyAssertFails
        BY <2>19 DEF ReplyAssertFails, Restart, KeychainClear, EndHandler, Read
  <2> QED BY <1>5, <2>1, <2>2, <2>3, <2>4, <2>5, <2>6, <2>7, <2>8, <2>9, <2>10,
     <2>11, <2>12, <2>13, <2>14, <2>15, <2>16, <2>17, <2>18, <2>19 DEF Device
<1>6. CASE Reboot
      BY <1>6 DEF Reboot, Restart, KeychainClear, EndHandler, Read
<1>7. CASE UNCHANGED vars
      BY <1>7 DEF vars
<1> QED BY <1>1, <1>2, <1>3, <1>4, <1>5, <1>6, <1>7 DEF Next

\* Only keys that are not temporary are saved.
LEMMA KeysStep == IInv /\ [Next]_vars => (KeysOK /\ TemporaryNeverStored)'
<1> SUFFICES ASSUME IInv, [Next]_vars PROVE (KeysOK /\ TemporaryNeverStored)' OBVIOUS
<1> USE DEF IInv, DataOK, JobOK, LocalsOK, KeysOK, TemporaryNeverStored, Blobs,
   nvs, cached, ram, locals, oracle, ghost
<1>1. CASE Menu
  <2>1. ASSUME NEW w \in Wallets, CreateWallet(w) PROVE (KeysOK /\ TemporaryNeverStored)'
        BY <2>1 DEF CreateWallet, Commit
  <2>2. ASSUME NEW t \in TempWallets, TemporaryLogin(t) PROVE (KeysOK /\ TemporaryNeverStored)'
        BY <2>2 DEF TemporaryLogin
  <2>3. CASE MakeTemporary
        BY <2>3 DEF MakeTemporary
  <2>4. CASE UseTemporaryByQr
        BY <2>4 DEF UseTemporaryByQr
  <2>5. CASE Logout
        BY <2>5 DEF Logout, KeychainClear
  <2>6. CASE ChangePinQr
        BY <2>6 DEF ChangePinQr, KeychainClear
  <2>7. ASSUME NEW b \in BOOLEAN, RequestChangePin(b) PROVE (KeysOK /\ TemporaryNeverStored)'
        BY <2>7 DEF RequestChangePin
  <2>8. ASSUME NEW p \in Pins \cup {None}, SetErasePin(p) PROVE (KeysOK /\ TemporaryNeverStored)'
        BY <2>8 DEF SetErasePin, Commit
  <2>9. ASSUME NEW n \in Networks, ClearNetwork(n) PROVE (KeysOK /\ TemporaryNeverStored)'
        BY <2>9 DEF ClearNetwork, Commit
  <2> QED BY <1>1, <2>1, <2>2, <2>3, <2>4, <2>5, <2>6, <2>7, <2>8, <2>9 DEF
     Menu
<1>2. CASE AuthUser
  <2>1. ASSUME NEW s \in Sources, NEW n \in Networks, Refused(s, n) PROVE (KeysOK /\ TemporaryNeverStored)'
        BY <2>1 DEF Refused, Relogin
  <2>2. ASSUME NEW s \in Sources, NEW n \in Networks, AlreadyUnlocked(s, n) PROVE (KeysOK /\ TemporaryNeverStored)'
        BY <2>2 DEF AlreadyUnlocked, Request, Relogin, RestrictNetwork, Commit
  <2>3. ASSUME NEW s \in Sources, NEW n \in Networks, AdoptTemporary(s, n) PROVE (KeysOK /\ TemporaryNeverStored)'
        BY <2>3 DEF AdoptTemporary, Request, Relogin, RestrictNetwork, Commit
  <2>4. ASSUME NEW s \in Sources, NEW n \in Networks, StartUnlock(s, n) PROVE (KeysOK /\ TemporaryNeverStored)'
        BY <2>4 DEF StartUnlock, Request, KeychainClear
  <2>5. ASSUME NEW s \in Sources, NEW n \in Networks, StartSave(s, n) PROVE (KeysOK /\ TemporaryNeverStored)'
        BY <2>5 DEF StartSave, SaveKeys, Request, Commit
  <2> QED BY <1>2, <2>1, <2>2, <2>3, <2>4, <2>5 DEF AuthUser
<1>3. CASE User
  <2>1. ASSUME NEW p \in Pins, EnterPin(p) PROVE (KeysOK /\ TemporaryNeverStored)'
        BY <2>1 DEF EnterPin
  <2>2. ASSUME NEW p \in Pins, EnterNewPin(p) PROVE (KeysOK /\ TemporaryNeverStored)'
        BY <2>2 DEF EnterNewPin
  <2>3. CASE AbandonPin
        BY <2>3 DEF AbandonPin, EndAuthUser, EndHandler, Relogin
  <2>4. CASE AbandonNewPin
        BY <2>4 DEF AbandonNewPin, NoNewKey, EndAuthUser, EndHandler, Relogin
  <2>5. ASSUME NEW b \in BOOLEAN, AskChange(b) PROVE (KeysOK /\ TemporaryNeverStored)'
        BY <2>5 DEF AskChange
  <2> QED BY <1>3, <2>1, <2>2, <2>3, <2>4, <2>5 DEF User
<1>4. CASE Host
  <2>1. ASSUME NEW s \in Sources, GetPinReply(s) PROVE (KeysOK /\ TemporaryNeverStored)'
        BY <2>1 DEF GetPinReply, AesKeys, FreshKeys
  <2>2. ASSUME NEW s \in Sources, GetPinRetry(s) PROVE (KeysOK /\ TemporaryNeverStored)'
        BY <2>2 DEF GetPinRetry
  <2>3. ASSUME NEW s \in Sources, SetPinReply(s) PROVE (KeysOK /\ TemporaryNeverStored)'
        BY <2>3 DEF SetPinReply
  <2>4. ASSUME NEW s \in Sources, SetPinRetry(s) PROVE (KeysOK /\ TemporaryNeverStored)'
        BY <2>4 DEF SetPinRetry
  <2>5. CASE GetPinFails
        BY <2>5 DEF GetPinFails, EndAuthUser, EndHandler, Relogin
  <2>6. CASE SetPinFails
        BY <2>6 DEF SetPinFails, NoNewKey, EndAuthUser, EndHandler, Relogin
  <2>7. CASE OracleSetPin
        BY <2>7 DEF OracleSetPin, AesKeys, FreshKeys
  <2> QED BY <1>4, <2>1, <2>2, <2>3, <2>4, <2>5, <2>6, <2>7 DEF Host
<1>5. CASE Device
  <2>1. CASE SendGetPin
        BY <2>1 DEF SendGetPin, Goto, EndAuthUser, EndHandler, Relogin
  <2>2. CASE SendSetPin
        BY <2>2 DEF SendSetPin, SendSetPinWith, NoNewKey, Goto, EndAuthUser,
           EndHandler, Relogin
  <2>3. CASE Decrement
        BY <2>3 DEF Decrement, DecrementWith, NoPin, NoAttempts, WriteFails,
           CountAttempt, StartErase, Goto, Commit
  <2>4. CASE DecryptOk
        BY <2>4 DEF DecryptOk, Goto
  <2>5. CASE DecryptBad
        BY <2>5 DEF DecryptBad, StartErase, Goto
  <2>6. CASE NoBlob
        BY <2>6 DEF NoBlob, StartErase
  <2>7. CASE EraseCounter
        BY <2>7 DEF EraseCounter, EraseCounterThen, Goto, Commit
  <2>8. CASE EraseBlob
        BY <2>8 DEF EraseBlob, Goto, Commit
  <2>9. CASE EraseNetwork
        BY <2>9 DEF EraseNetwork, Goto, Commit
  <2>10. CASE LoadFailed
        BY <2>10 DEF LoadFailed, StartErase, Goto, EndAuthUser, EndHandler,
           Relogin
  <2>11. CASE Shutdown
        BY <2>11 DEF Shutdown, Restart, KeychainClear, EndHandler, Read
  <2>12. CASE Restore
        BY <2>12 DEF Restore, Goto, Commit
  <2>13. CASE SaveCounter
        BY <2>13 DEF SaveCounter, SaveFails, Goto, EndAuthUser, EndHandler,
           Relogin, Commit
  <2>14. CASE SaveBlob
        BY <2>14 DEF SaveBlob, SaveBlobWith, SaveFails, Goto, EndAuthUser,
           EndHandler, Relogin, Commit
  <2>15. CASE SaveNetwork
        BY <2>15 DEF SaveNetwork, Goto, Commit
  <2>16. CASE ReplyOk
        BY <2>16 DEF ReplyOk, RestrictNetwork, EndAuthUser, EndHandler,
           Relogin, Commit
  <2>17. CASE SetNetwork
        BY <2>17 DEF SetNetwork, RestrictNetwork, EndHandler, Commit
  <2>18. CASE AssertFails
        BY <2>18 DEF AssertFails, Restart, KeychainClear, EndHandler, Read
  <2>19. CASE ReplyAssertFails
        BY <2>19 DEF ReplyAssertFails, Restart, KeychainClear, EndHandler, Read
  <2> QED BY <1>5, <2>1, <2>2, <2>3, <2>4, <2>5, <2>6, <2>7, <2>8, <2>9, <2>10,
     <2>11, <2>12, <2>13, <2>14, <2>15, <2>16, <2>17, <2>18, <2>19 DEF Device
<1>6. CASE Reboot
      BY <1>6 DEF Reboot, Restart, KeychainClear, EndHandler, Read
<1>7. CASE UNCHANGED vars
      BY <1>7 DEF vars
<1> QED BY <1>1, <1>2, <1>3, <1>4, <1>5, <1>6, <1>7 DEF Next

\* No guess is given back while the blob can still be opened.
LEMMA BudgetStep == IInv /\ [Next]_vars => (BudgetOK /\ GuessBudget)'
<1> SUFFICES ASSUME IInv, [Next]_vars PROVE (BudgetOK /\ GuessBudget)' OBVIOUS
<1> USE DEF IInv, DataOK, JobOK, LocalsOK, BudgetOK, GuessBudget, Live,
   AesKeys, Blobs, MaxAttempts, nvs, cached, ram, locals, oracle, ghost
<1>1. CASE Menu
  <2>1. ASSUME NEW w \in Wallets, CreateWallet(w) PROVE (BudgetOK /\ GuessBudget)'
        BY <2>1 DEF CreateWallet, Commit
  <2>2. ASSUME NEW t \in TempWallets, TemporaryLogin(t) PROVE (BudgetOK /\ GuessBudget)'
        BY <2>2 DEF TemporaryLogin
  <2>3. CASE MakeTemporary
        BY <2>3 DEF MakeTemporary
  <2>4. CASE UseTemporaryByQr
        BY <2>4 DEF UseTemporaryByQr
  <2>5. CASE Logout
        BY <2>5 DEF Logout, KeychainClear
  <2>6. CASE ChangePinQr
        BY <2>6 DEF ChangePinQr, KeychainClear
  <2>7. ASSUME NEW b \in BOOLEAN, RequestChangePin(b) PROVE (BudgetOK /\ GuessBudget)'
        BY <2>7 DEF RequestChangePin
  <2>8. ASSUME NEW p \in Pins \cup {None}, SetErasePin(p) PROVE (BudgetOK /\ GuessBudget)'
        BY <2>8 DEF SetErasePin, Commit
  <2>9. ASSUME NEW n \in Networks, ClearNetwork(n) PROVE (BudgetOK /\ GuessBudget)'
        BY <2>9 DEF ClearNetwork, Commit
  <2> QED BY <1>1, <2>1, <2>2, <2>3, <2>4, <2>5, <2>6, <2>7, <2>8, <2>9 DEF
     Menu
<1>2. CASE AuthUser
  <2>1. ASSUME NEW s \in Sources, NEW n \in Networks, Refused(s, n) PROVE (BudgetOK /\ GuessBudget)'
        BY <2>1 DEF Refused, Relogin
  <2>2. ASSUME NEW s \in Sources, NEW n \in Networks, AlreadyUnlocked(s, n) PROVE (BudgetOK /\ GuessBudget)'
        BY <2>2 DEF AlreadyUnlocked, Request, Relogin, RestrictNetwork, Commit
  <2>3. ASSUME NEW s \in Sources, NEW n \in Networks, AdoptTemporary(s, n) PROVE (BudgetOK /\ GuessBudget)'
        BY <2>3 DEF AdoptTemporary, Request, Relogin, RestrictNetwork, Commit
  <2>4. ASSUME NEW s \in Sources, NEW n \in Networks, StartUnlock(s, n) PROVE (BudgetOK /\ GuessBudget)'
        BY <2>4 DEF StartUnlock, Request, KeychainClear
  <2>5. ASSUME NEW s \in Sources, NEW n \in Networks, StartSave(s, n) PROVE (BudgetOK /\ GuessBudget)'
        BY <2>5 DEF StartSave, SaveKeys, Request, Commit
  <2> QED BY <1>2, <2>1, <2>2, <2>3, <2>4, <2>5 DEF AuthUser
<1>3. CASE User
  <2>1. ASSUME NEW p \in Pins, EnterPin(p) PROVE (BudgetOK /\ GuessBudget)'
        BY <2>1 DEF EnterPin
  <2>2. ASSUME NEW p \in Pins, EnterNewPin(p) PROVE (BudgetOK /\ GuessBudget)'
        BY <2>2 DEF EnterNewPin
  <2>3. CASE AbandonPin
        BY <2>3 DEF AbandonPin, EndAuthUser, EndHandler, Relogin
  <2>4. CASE AbandonNewPin
        BY <2>4 DEF AbandonNewPin, NoNewKey, EndAuthUser, EndHandler, Relogin
  <2>5. ASSUME NEW b \in BOOLEAN, AskChange(b) PROVE (BudgetOK /\ GuessBudget)'
        BY <2>5 DEF AskChange
  <2> QED BY <1>3, <2>1, <2>2, <2>3, <2>4, <2>5 DEF User
<1>4. CASE Host
  <2>1. ASSUME NEW s \in Sources, GetPinReply(s) PROVE (BudgetOK /\ GuessBudget)'
        BY <2>1 DEF GetPinReply, AesKeys, FreshKeys, KeysInUse, KeyOf
  <2>2. ASSUME NEW s \in Sources, GetPinRetry(s) PROVE (BudgetOK /\ GuessBudget)'
        BY <2>2 DEF GetPinRetry
  <2>3. ASSUME NEW s \in Sources, SetPinReply(s) PROVE (BudgetOK /\ GuessBudget)'
        BY <2>3 DEF SetPinReply
  <2>4. ASSUME NEW s \in Sources, SetPinRetry(s) PROVE (BudgetOK /\ GuessBudget)'
        BY <2>4 DEF SetPinRetry
  <2>5. CASE GetPinFails
        BY <2>5 DEF GetPinFails, EndAuthUser, EndHandler, Relogin
  <2>6. CASE SetPinFails
        BY <2>6 DEF SetPinFails, NoNewKey, EndAuthUser, EndHandler, Relogin
  <2>7. CASE OracleSetPin
        BY <2>7 DEF OracleSetPin, AesKeys, FreshKeys, KeysInUse, KeyOf
  <2> QED BY <1>4, <2>1, <2>2, <2>3, <2>4, <2>5, <2>6, <2>7 DEF Host
<1>5. CASE Device
  <2>1. CASE SendGetPin
        BY <2>1 DEF SendGetPin, Goto, EndAuthUser, EndHandler, Relogin
  <2>2. CASE SendSetPin
        BY <2>2, ConstantsAssumption DEF SendSetPin, SendSetPinWith, NoNewKey,
           Goto, EndAuthUser, EndHandler, Relogin
  <2>3. CASE Decrement
        BY <2>3 DEF Decrement, DecrementWith, NoPin, NoAttempts, WriteFails,
           CountAttempt, StartErase, Goto, Commit
  <2>4. CASE DecryptOk
        BY <2>4 DEF DecryptOk, Goto
  <2>5. CASE DecryptBad
        BY <2>5 DEF DecryptBad, StartErase, Goto
  <2>6. CASE NoBlob
        BY <2>6 DEF NoBlob, StartErase
  <2>7. CASE EraseCounter
        BY <2>7 DEF EraseCounter, EraseCounterThen, Goto, Commit
  <2>8. CASE EraseBlob
        BY <2>8 DEF EraseBlob, Goto, Commit
  <2>9. CASE EraseNetwork
        BY <2>9 DEF EraseNetwork, Goto, Commit
  <2>10. CASE LoadFailed
        BY <2>10 DEF LoadFailed, StartErase, Goto, EndAuthUser, EndHandler,
           Relogin
  <2>11. CASE Shutdown
        BY <2>11 DEF Shutdown, Restart, KeychainClear, EndHandler, Read
  <2>12. CASE Restore
        BY <2>12 DEF Restore, Goto, Commit
  <2>13. CASE SaveCounter
        BY <2>13 DEF SaveCounter, SaveFails, Goto, EndAuthUser, EndHandler,
           Relogin, Commit
  <2>14. CASE SaveBlob
        BY <2>14 DEF SaveBlob, SaveBlobWith, SaveFails, Goto, EndAuthUser,
           EndHandler, Relogin, Commit
  <2>15. CASE SaveNetwork
        BY <2>15 DEF SaveNetwork, Goto, Commit
  <2>16. CASE ReplyOk
        BY <2>16 DEF ReplyOk, RestrictNetwork, EndAuthUser, EndHandler,
           Relogin, Commit
  <2>17. CASE SetNetwork
        BY <2>17 DEF SetNetwork, RestrictNetwork, EndHandler, Commit
  <2>18. CASE AssertFails
        BY <2>18 DEF AssertFails, Restart, KeychainClear, EndHandler, Read
  <2>19. CASE ReplyAssertFails
        BY <2>19 DEF ReplyAssertFails, Restart, KeychainClear, EndHandler, Read
  <2> QED BY <1>5, <2>1, <2>2, <2>3, <2>4, <2>5, <2>6, <2>7, <2>8, <2>9, <2>10,
     <2>11, <2>12, <2>13, <2>14, <2>15, <2>16, <2>17, <2>18, <2>19 DEF Device
<1>6. CASE Reboot
      BY <1>6 DEF Reboot, Restart, KeychainClear, EndHandler, Read
<1>7. CASE UNCHANGED vars
      BY <1>7 DEF vars
<1> QED BY <1>1, <1>2, <1>3, <1>4, <1>5, <1>6, <1>7 DEF Next

\* A condemned blob is not opened.
LEMMA CondemnedStep == IInv /\ [Next]_vars => (CondemnedOK /\ CondemnedStaysShut)'
<1> SUFFICES ASSUME IInv, [Next]_vars PROVE (CondemnedOK /\ CondemnedStaysShut)' OBVIOUS
<1> USE DEF IInv, BooleansOK, DataOK, JobOK, LocalsOK, BudgetOK, CondemnedOK,
   CondemnedStaysShut, Live, AesKeys, Blobs, MaxAttempts, nvs, cached, ram,
   locals, oracle, ghost
<1>1. CASE Menu
  <2>1. ASSUME NEW w \in Wallets, CreateWallet(w) PROVE (CondemnedOK /\ CondemnedStaysShut)'
        BY <2>1 DEF CreateWallet, Commit
  <2>2. ASSUME NEW t \in TempWallets, TemporaryLogin(t) PROVE (CondemnedOK /\ CondemnedStaysShut)'
        BY <2>2 DEF TemporaryLogin
  <2>3. CASE MakeTemporary
        BY <2>3 DEF MakeTemporary
  <2>4. CASE UseTemporaryByQr
        BY <2>4 DEF UseTemporaryByQr
  <2>5. CASE Logout
        BY <2>5 DEF Logout, KeychainClear
  <2>6. CASE ChangePinQr
        BY <2>6 DEF ChangePinQr, KeychainClear
  <2>7. ASSUME NEW b \in BOOLEAN, RequestChangePin(b) PROVE (CondemnedOK /\ CondemnedStaysShut)'
        BY <2>7 DEF RequestChangePin
  <2>8. ASSUME NEW p \in Pins \cup {None}, SetErasePin(p) PROVE (CondemnedOK /\ CondemnedStaysShut)'
        BY <2>8 DEF SetErasePin, Commit
  <2>9. ASSUME NEW n \in Networks, ClearNetwork(n) PROVE (CondemnedOK /\ CondemnedStaysShut)'
        BY <2>9 DEF ClearNetwork, Commit
  <2> QED BY <1>1, <2>1, <2>2, <2>3, <2>4, <2>5, <2>6, <2>7, <2>8, <2>9 DEF
     Menu
<1>2. CASE AuthUser
  <2>1. ASSUME NEW s \in Sources, NEW n \in Networks, Refused(s, n) PROVE (CondemnedOK /\ CondemnedStaysShut)'
        BY <2>1 DEF Refused, Relogin
  <2>2. ASSUME NEW s \in Sources, NEW n \in Networks, AlreadyUnlocked(s, n) PROVE (CondemnedOK /\ CondemnedStaysShut)'
        BY <2>2 DEF AlreadyUnlocked, Request, Relogin, RestrictNetwork, Commit
  <2>3. ASSUME NEW s \in Sources, NEW n \in Networks, AdoptTemporary(s, n) PROVE (CondemnedOK /\ CondemnedStaysShut)'
        BY <2>3 DEF AdoptTemporary, Request, Relogin, RestrictNetwork, Commit
  <2>4. ASSUME NEW s \in Sources, NEW n \in Networks, StartUnlock(s, n) PROVE (CondemnedOK /\ CondemnedStaysShut)'
        BY <2>4 DEF StartUnlock, Request, KeychainClear
  <2>5. ASSUME NEW s \in Sources, NEW n \in Networks, StartSave(s, n) PROVE (CondemnedOK /\ CondemnedStaysShut)'
        BY <2>5 DEF StartSave, SaveKeys, Request, Commit
  <2> QED BY <1>2, <2>1, <2>2, <2>3, <2>4, <2>5 DEF AuthUser
<1>3. CASE User
  <2>1. ASSUME NEW p \in Pins, EnterPin(p) PROVE (CondemnedOK /\ CondemnedStaysShut)'
        BY <2>1 DEF EnterPin
  <2>2. ASSUME NEW p \in Pins, EnterNewPin(p) PROVE (CondemnedOK /\ CondemnedStaysShut)'
        BY <2>2 DEF EnterNewPin
  <2>3. CASE AbandonPin
        BY <2>3 DEF AbandonPin, EndAuthUser, EndHandler, Relogin
  <2>4. CASE AbandonNewPin
        BY <2>4 DEF AbandonNewPin, NoNewKey, EndAuthUser, EndHandler, Relogin
  <2>5. ASSUME NEW b \in BOOLEAN, AskChange(b) PROVE (CondemnedOK /\ CondemnedStaysShut)'
        BY <2>5 DEF AskChange
  <2> QED BY <1>3, <2>1, <2>2, <2>3, <2>4, <2>5 DEF User
<1>4. CASE Host
  <2>1. ASSUME NEW s \in Sources, GetPinReply(s) PROVE (CondemnedOK /\ CondemnedStaysShut)'
        BY <2>1 DEF GetPinReply, AesKeys, FreshKeys, KeysInUse, KeyOf
  <2>2. ASSUME NEW s \in Sources, GetPinRetry(s) PROVE (CondemnedOK /\ CondemnedStaysShut)'
        BY <2>2 DEF GetPinRetry
  <2>3. ASSUME NEW s \in Sources, SetPinReply(s) PROVE (CondemnedOK /\ CondemnedStaysShut)'
        BY <2>3 DEF SetPinReply
  <2>4. ASSUME NEW s \in Sources, SetPinRetry(s) PROVE (CondemnedOK /\ CondemnedStaysShut)'
        BY <2>4 DEF SetPinRetry
  <2>5. CASE GetPinFails
        BY <2>5 DEF GetPinFails, EndAuthUser, EndHandler, Relogin
  <2>6. CASE SetPinFails
        BY <2>6 DEF SetPinFails, NoNewKey, EndAuthUser, EndHandler, Relogin
  <2>7. CASE OracleSetPin
        BY <2>7 DEF OracleSetPin, AesKeys, FreshKeys, KeysInUse, KeyOf
  <2> QED BY <1>4, <2>1, <2>2, <2>3, <2>4, <2>5, <2>6, <2>7 DEF Host
<1>5. CASE Device
  <2>1. CASE SendGetPin
        BY <2>1 DEF SendGetPin, Goto, EndAuthUser, EndHandler, Relogin
  <2>2. CASE SendSetPin
        BY <2>2 DEF SendSetPin, SendSetPinWith, NoNewKey, Goto, EndAuthUser,
           EndHandler, Relogin
  <2>3. CASE Decrement
        BY <2>3 DEF Decrement, DecrementWith, NoPin, NoAttempts, WriteFails,
           CountAttempt, StartErase, Goto, Commit
  <2>4. CASE DecryptOk
        BY <2>4 DEF DecryptOk, Goto
  <2>5. CASE DecryptBad
        BY <2>5 DEF DecryptBad, StartErase, Goto
  <2>6. CASE NoBlob
        BY <2>6 DEF NoBlob, StartErase
  <2>7. CASE EraseCounter
        BY <2>7 DEF EraseCounter, EraseCounterThen, Goto, Commit
  <2>8. CASE EraseBlob
        BY <2>8 DEF EraseBlob, Goto, Commit
  <2>9. CASE EraseNetwork
        BY <2>9 DEF EraseNetwork, Goto, Commit
  <2>10. CASE LoadFailed
        BY <2>10 DEF LoadFailed, StartErase, Goto, EndAuthUser, EndHandler,
           Relogin
  <2>11. CASE Shutdown
        BY <2>11 DEF Shutdown, Restart, KeychainClear, EndHandler, Read
  <2>12. CASE Restore
        BY <2>12 DEF Restore, Goto, Commit
  <2>13. CASE SaveCounter
        BY <2>13 DEF SaveCounter, SaveFails, Goto, EndAuthUser, EndHandler,
           Relogin, Commit
  <2>14. CASE SaveBlob
        BY <2>14 DEF SaveBlob, SaveBlobWith, SaveFails, Goto, EndAuthUser,
           EndHandler, Relogin, Commit
  <2>15. CASE SaveNetwork
        BY <2>15 DEF SaveNetwork, Goto, Commit
  <2>16. CASE ReplyOk
        BY <2>16 DEF ReplyOk, RestrictNetwork, EndAuthUser, EndHandler,
           Relogin, Commit
  <2>17. CASE SetNetwork
        BY <2>17 DEF SetNetwork, RestrictNetwork, EndHandler, Commit
  <2>18. CASE AssertFails
        BY <2>18 DEF AssertFails, Restart, KeychainClear, EndHandler, Read
  <2>19. CASE ReplyAssertFails
        BY <2>19 DEF ReplyAssertFails, Restart, KeychainClear, EndHandler, Read
  <2> QED BY <1>5, <2>1, <2>2, <2>3, <2>4, <2>5, <2>6, <2>7, <2>8, <2>9, <2>10,
     <2>11, <2>12, <2>13, <2>14, <2>15, <2>16, <2>17, <2>18, <2>19 DEF Device
<1>6. CASE Reboot
      BY <1>6 DEF Reboot, Restart, KeychainClear, EndHandler, Read
<1>7. CASE UNCHANGED vars
      BY <1>7 DEF vars
<1> QED BY <1>1, <1>2, <1>3, <1>4, <1>5, <1>6, <1>7 DEF Next

-----------------------------------------------------------------------------
(* The theorems *)

LEMMA NextIInv == IInv /\ [Next]_vars => IInv'
BY BooleansStep, DataStep, ControlStep, KeysStep, BudgetStep, CondemnedStep DEF IInv

\* Everything below follows from this: IInv holds in every reachable state.
LEMMA Inductive == Spec => []IInv
BY InitIInv, NextIInv, PTL DEF Spec

\* The variables of the wallet code and of the handler in progress stay within
\* their types whatever flash, power, user, host and oracle do.
THEOREM TypeCorrect == Spec => []TypeOK
BY Inductive, IInvTypeOK, PTL

\* No more than three wrong PINs can be tried against a stored wallet that could
\* still be opened, whatever is interrupted and whichever write is lost:
\* storage_decrement_counter() runs before the decryption, and the counter is
\* restored only after a success or when the oracle has replaced the key.
THEOREM ThreeGuesses == Spec => []GuessBudget
<1>1. IInv => GuessBudget BY DEF IInv
<1> QED BY Inductive, <1>1, PTL

\* Keys loaded as a temporary wallet are never written to flash.
THEOREM TemporaryStaysInRam == Spec => []TemporaryNeverStored
<1>1. IInv => TemporaryNeverStored BY DEF IInv
<1> QED BY Inductive, <1>1, PTL

\* Once the counter of a stored wallet is erased the wallet is never opened again,
\* even if its blob survives in flash.
THEOREM ErasedStaysShut == Spec => []CondemnedStaysShut
<1>1. IInv => CondemnedStaysShut BY DEF IInv
<1> QED BY Inductive, <1>1, PTL

-----------------------------------------------------------------------------
(* While flash does not fail                                                 *)

UnlockSteps == {"get_pin", "get_request", "get_wait", "decrement", "decrypt", "restore"}
EraseSteps == {"erase_counter", "erase_blob", "erase_network"}
NewPinSteps == {"new_pin", "set_request", "set_wait"}

\* There are attempts left where there is a wallet to unlock, but for the time of a guess
\* and of an erasure.
Attempts ==
    /\ pc \in UnlockSteps => hasPin
    /\ hasPin => counter > 0 \/ pc \in {"decrypt", "restore"} \cup EraseSteps
    /\ ~hasPin => counter = 0 \/ pc \in {"save_blob", "save_network"}

\* Nobody has keys while they are being unlocked, and nobody owns keys that are not saved.
Locked ==
    /\ job = "unlock" /\ pc \notin {"ask_change", "reply_ok"} => keys = None /\ owner = None
    /\ ~hasPin /\ ~temporary => owner = None
    /\ pc = "idle" => job = "none"
    /\ pc \in {"get_pin", "get_request", "get_wait"} => src # None

\* A wallet is erased for what has happened while it was unlocked.
Erasing ==
    /\ pc \in EraseSteps => /\ job = "unlock" /\ cause \in {"no_blob", "bad_pin", "erase_pin"}
                            /\ cause = "no_blob" => blob = None
    /\ pc \in {"erase_blob", "erase_network", "shutdown"} => counter = 0
    /\ pc = "load_failed" => job = "unlock"

\* A guess is made with the key the oracle has for the blob, or with one it never had.
Guessing ==
    /\ job = "unlock" /\ pc \in {"decrement", "decrypt", "restore"} =>
           posted = None /\ src # None /\ (aes = server \/ (blob # None => blob.aes # aes))
    /\ pc = "restore" => blob.aes = aes

\* What is saved has no owner yet; with the oracle's answer the old blob is dead.
Saving ==
    /\ pc \in NewPinSteps \cup {"save_counter", "save_blob", "save_network"} /\ job = "save" =>
           keys # None /\ ~hasPin /\ ~temporary /\ src # None
    /\ pc \in {"save_blob", "save_network"} => counter = MaxAttempts
    /\ pc \in {"save_counter", "save_blob"} => newAes = server /\ posted = None /\ ~Live
    /\ pc = "save_network" => posted = None /\ Live /\ blob.wallet = keys

\* The PIN changed is that of the wallet unlocked, which is opened again with its old key.
Changing ==
    /\ job = "change" \/ pc = "ask_change" => hasPin /\ keys # None /\ ~temporary
    /\ pc = "ask_change" \/ (job = "change" /\ pc # "reply_ok") => blob # None /\ blob.wallet = keys
    /\ pc = "ask_change" \/ (job = "change" /\ pc \in NewPinSteps \cup {"decrement", "decrypt"})
           => blob.aes = aes
    /\ job = "change" /\ pc \in {"decrement", "decrypt", "restore"}
           => newAes = server /\ posted = None /\ ~Live
    /\ job = "change" => pc \in NewPinSteps \cup {"decrement", "decrypt", "restore",
                                                "save_counter", "save_blob", "reply_ok"}

\* A handler is under way only for a network that goes with the restriction.
Agreeing == pc # "idle" => NetworkConsistent(net)

\* The message a handler works on has a source, until its connection is lost in a change.
Sourced == pc \notin {"idle", "menu_network"} => src # None \/ (pc = "reply_ok" /\ job = "change")

Steady == Attempts /\ Locked /\ Erasing /\ Guessing /\ Saving /\ Changing /\ Agreeing /\ Sourced

\* What a restart reads back from flash that does not fail.
LEMMA Boot ==
    ASSUME ~NvsMayFail, Restart
    PROVE (hasPin' <=> counter # 0) /\ network' = nvsNetwork
<1>1. ReadCounter = {counter} /\ Read(nvsNetwork, None) = {nvsNetwork}
      BY DEF ReadCounter, Read
<1>2. hasPin' \in {c # 0 : c \in {counter}} BY <1>1 DEF Restart
<1>3. hasPin' = (counter # 0) BY <1>2, Zenon
<1> QED BY <1>1, <1>3, Zenon DEF Restart

LEMMA InitSteady == Init => Steady
BY DEF Init, Steady, Attempts, Locked, Erasing, Guessing, Saving, Changing, Agreeing, Sourced, UnlockSteps,
   EraseSteps, NewPinSteps, NetworkConsistent

\* No step takes the handler, the counter and the oracle's record apart.
LEMMA SteadyStep ==
    ASSUME ~NvsMayFail PROVE IInv /\ Steady /\ [Next]_vars => Steady'
<1> SUFFICES ASSUME IInv /\ Steady, [Next]_vars PROVE Steady' OBVIOUS
<1> USE DEF IInv, DataOK, JobOK, LocalsOK, Steady, Attempts, Locked, Erasing, Guessing,
   Saving, Changing, Agreeing, Sourced, UnlockSteps, EraseSteps, NewPinSteps, MaxAttempts,
   Labels, Read, Commit, ReadCounter, CanAskPin, Live, AesKeys, Blobs, FreshKeys,
   KeysInUse, KeyOf, KeysOK, BudgetOK, NetworkConsistent, nvs, cached, ram, locals,
   oracle, ghost
<1>1. CASE Menu
  <2>1. ASSUME NEW w \in Wallets, CreateWallet(w) PROVE Steady'
        BY <2>1 DEF CreateWallet
  <2>2. ASSUME NEW t \in TempWallets, TemporaryLogin(t) PROVE Steady'
        BY <2>2 DEF TemporaryLogin
  <2>3. CASE MakeTemporary
        BY <2>3 DEF MakeTemporary
  <2>4. CASE UseTemporaryByQr
        BY <2>4 DEF UseTemporaryByQr
  <2>5. CASE Logout
        BY <2>5 DEF Logout, KeychainClear
  <2>6. CASE ChangePinQr
        BY <2>6 DEF ChangePinQr, KeychainClear
  <2>7. ASSUME NEW b \in BOOLEAN, RequestChangePin(b) PROVE Steady'
        BY <2>7 DEF RequestChangePin
  <2>8. ASSUME NEW p \in Pins \cup {None}, SetErasePin(p) PROVE Steady'
        BY <2>8 DEF SetErasePin
  <2>9. ASSUME NEW n \in Networks, ClearNetwork(n) PROVE Steady'
        BY <2>9 DEF ClearNetwork
  <2> QED BY <1>1, <2>1, <2>2, <2>3, <2>4, <2>5, <2>6, <2>7, <2>8, <2>9 DEF
     Menu
<1>2. CASE AuthUser
  <2>1. ASSUME NEW s \in Sources, NEW n \in Networks, Refused(s, n) PROVE Steady'
        BY <2>1 DEF Refused, Relogin
  <2>2. ASSUME NEW s \in Sources, NEW n \in Networks, AlreadyUnlocked(s, n) PROVE Steady'
        BY <2>2 DEF AlreadyUnlocked, Request, Relogin, RestrictNetwork
  <2>3. ASSUME NEW s \in Sources, NEW n \in Networks, AdoptTemporary(s, n) PROVE Steady'
        BY <2>3 DEF AdoptTemporary, Request, Relogin, RestrictNetwork
  <2>4. ASSUME NEW s \in Sources, NEW n \in Networks, StartUnlock(s, n) PROVE Steady'
        BY <2>4, ConstantsAssumption DEF StartUnlock, Request, KeychainClear
  <2>5. ASSUME NEW s \in Sources, NEW n \in Networks, StartSave(s, n) PROVE Steady'
        BY <2>5, ConstantsAssumption DEF StartSave, SaveKeys, Request
  <2> QED BY <1>2, <2>1, <2>2, <2>3, <2>4, <2>5 DEF AuthUser
<1>3. CASE User
  <2>1. ASSUME NEW p \in Pins, EnterPin(p) PROVE Steady'
        BY <2>1 DEF EnterPin
  <2>2. ASSUME NEW p \in Pins, EnterNewPin(p) PROVE Steady'
        BY <2>2 DEF EnterNewPin
  <2>3. CASE AbandonPin
        BY <2>3 DEF AbandonPin, EndAuthUser, EndHandler, Relogin
  <2>4. CASE AbandonNewPin
        BY <2>4 DEF AbandonNewPin, NoNewKey, EndAuthUser, EndHandler, Relogin
  <2>5. ASSUME NEW b \in BOOLEAN, AskChange(b) PROVE Steady'
        BY <2>5 DEF AskChange
  <2> QED BY <1>3, <2>1, <2>2, <2>3, <2>4, <2>5 DEF User
<1>4. CASE Host
  <2>1. ASSUME NEW s \in Sources, GetPinReply(s) PROVE Steady'
        BY <2>1, ConstantsAssumption DEF GetPinReply
  <2>2. ASSUME NEW s \in Sources, GetPinRetry(s) PROVE Steady'
        BY <2>2, ConstantsAssumption DEF GetPinRetry
  <2>3. ASSUME NEW s \in Sources, SetPinReply(s) PROVE Steady'
        BY <2>3, ConstantsAssumption DEF SetPinReply
  <2>4. ASSUME NEW s \in Sources, SetPinRetry(s) PROVE Steady'
        BY <2>4, ConstantsAssumption DEF SetPinRetry
  <2>5. CASE GetPinFails
        BY <2>5 DEF GetPinFails, EndAuthUser, EndHandler, Relogin
  <2>6. CASE SetPinFails
        BY <2>6 DEF SetPinFails, NoNewKey, EndAuthUser, EndHandler, Relogin
  <2>7. CASE OracleSetPin
        BY <2>7 DEF OracleSetPin
  <2> QED BY <1>4, <2>1, <2>2, <2>3, <2>4, <2>5, <2>6, <2>7 DEF Host
<1>5. CASE Device
  <2>1. CASE SendGetPin
        BY <2>1 DEF SendGetPin, Goto, EndAuthUser, EndHandler, Relogin
  <2>2. CASE SendSetPin
        BY <2>2 DEF SendSetPin, SendSetPinWith, NoNewKey, Goto, EndAuthUser, EndHandler,
           Relogin
  <2>3. CASE Decrement
        BY <2>3 DEF Decrement, DecrementWith, NoPin, NoAttempts, WriteFails, CountAttempt,
           StartErase, Goto
  <2>4. CASE DecryptOk
        BY <2>4 DEF DecryptOk, Goto
  <2>5. CASE DecryptBad
        BY <2>5 DEF DecryptBad, StartErase, Goto
  <2>6. CASE NoBlob
        BY <2>6 DEF NoBlob, StartErase
  <2>7. CASE EraseCounter
        BY <2>7 DEF EraseCounter, EraseCounterThen, Goto
  <2>8. CASE EraseBlob
        BY <2>8 DEF EraseBlob, Goto
  <2>9. CASE EraseNetwork
        BY <2>9 DEF EraseNetwork, Goto
  <2>10. CASE LoadFailed
        BY <2>10 DEF LoadFailed, StartErase, Goto, EndAuthUser, EndHandler, Relogin
  <2>11. CASE Shutdown
        BY <2>11, Boot DEF Shutdown, Restart, KeychainClear, EndHandler
  <2>12. CASE Restore
        BY <2>12, ConstantsAssumption DEF Restore, Goto
  <2>13. CASE SaveCounter
        BY <2>13 DEF SaveCounter, SaveFails, Goto, EndAuthUser, EndHandler, Relogin
  <2>14. CASE SaveBlob
    <3>1. blob' = [wallet |-> IF job = "save" THEN keys ELSE blob.wallet,
                   aes |-> newAes]
          BY <2>14 DEF SaveBlob, SaveBlobWith
    <3>2. newAes \in AesKeys /\ newAes = server /\ posted = None
          BY <2>14 DEF SaveBlob, SaveBlobWith
    <3>3. /\ pc' \in {"idle", "reply_ok", "save_network"}
          /\ pc' = "save_network" => job = "save" /\ UNCHANGED <<ram, locals, oracle>>
          BY <2>14 DEF SaveBlob, SaveBlobWith, SaveFails, Goto, EndAuthUser, EndHandler
    <3>4. ASSUME pc' = "save_network" PROVE posted' = None /\ Live' /\ blob'.wallet = keys'
      <4>1. job = "save" /\ keys \in Wallets
            BY <3>3, <3>4, <2>14 DEF SaveBlob, SaveBlobWith
      <4>2. blob' \in Blobs BY <3>1, <3>2, <4>1
      <4>3. blob' # None /\ server # None BY <4>2, <3>2, ConstantsAssumption
      <4> QED BY <3>1, <3>2, <3>3, <3>4, <4>1, <4>3
    <3> QED BY <2>14, <3>1, <3>3, <3>4 DEF SaveBlob, SaveBlobWith, SaveFails, Goto,
        EndAuthUser, EndHandler, Relogin
  <2>15. CASE SaveNetwork
        BY <2>15 DEF SaveNetwork, Goto
  <2>16. CASE ReplyOk
        BY <2>16 DEF ReplyOk, RestrictNetwork, EndAuthUser, EndHandler, Relogin
  <2>17. CASE SetNetwork
        BY <2>17 DEF SetNetwork, RestrictNetwork, EndHandler
  <2>18. CASE AssertFails
        BY <2>18, Boot DEF AssertFails, Restart, KeychainClear, EndHandler
  <2>19. CASE ReplyAssertFails
        BY <2>19, Boot DEF ReplyAssertFails, Restart, KeychainClear, EndHandler
  <2> QED BY <1>5, <2>1, <2>2, <2>3, <2>4, <2>5, <2>6, <2>7, <2>8, <2>9, <2>10,
     <2>11, <2>12, <2>13, <2>14, <2>15, <2>16, <2>17, <2>18, <2>19 DEF Device
<1>6. CASE Reboot
  <2>1. (Locked /\ Erasing /\ Guessing /\ Saving /\ Changing /\ Agreeing)'
        BY <1>6, Boot DEF Reboot, Restart, KeychainClear, EndHandler
  <2>2. pc' = "idle" /\ counter' = counter
        BY <1>6 DEF Reboot, Restart, EndHandler
  <2>3. hasPin' <=> counter # 0 BY <1>6, Boot DEF Reboot
  <2> QED BY <2>1, <2>2, <2>3
<1>7. CASE UNCHANGED vars
      BY <1>7 DEF vars
<1> QED BY <1>1, <1>2, <1>3, <1>4, <1>5, <1>6, <1>7 DEF Next

\* What the two properties of steps say of one step.
KeptByOwner ==
    owner # None /\ owner' # None
        => owner' = owner \/ (owner = "internal" /\ owner' = relogin)

KeptAlive ==
    Live /\ ~Live' => \/ server' # server
                      \/ blob' = None /\ cause \in {"bad_pin", "erase_pin"}

LEMMA KeptStep ==
    ASSUME ~NvsMayFail PROVE IInv /\ Steady /\ [Next]_vars => KeptByOwner /\ KeptAlive
<1> SUFFICES ASSUME IInv /\ Steady, [Next]_vars PROVE (KeptByOwner /\ KeptAlive) OBVIOUS
<1> USE DEF IInv, DataOK, JobOK, LocalsOK, Steady, Attempts, Locked, Erasing, Guessing,
   Saving, Changing, Agreeing, Sourced, UnlockSteps, EraseSteps, NewPinSteps, MaxAttempts,
   Labels, Read, Commit, ReadCounter, CanAskPin, Live, AesKeys, Blobs, FreshKeys,
   KeysInUse, KeyOf, KeptByOwner, KeptAlive, nvs, cached, ram, locals, oracle, ghost
<1>1. CASE Menu
  <2>1. ASSUME NEW w \in Wallets, CreateWallet(w) PROVE (KeptByOwner /\ KeptAlive)
        BY <2>1 DEF CreateWallet
  <2>2. ASSUME NEW t \in TempWallets, TemporaryLogin(t) PROVE (KeptByOwner /\ KeptAlive)
        BY <2>2 DEF TemporaryLogin
  <2>3. CASE MakeTemporary
        BY <2>3 DEF MakeTemporary
  <2>4. CASE UseTemporaryByQr
        BY <2>4 DEF UseTemporaryByQr
  <2>5. CASE Logout
        BY <2>5 DEF Logout, KeychainClear
  <2>6. CASE ChangePinQr
        BY <2>6 DEF ChangePinQr, KeychainClear
  <2>7. ASSUME NEW b \in BOOLEAN, RequestChangePin(b) PROVE (KeptByOwner /\ KeptAlive)
        BY <2>7 DEF RequestChangePin
  <2>8. ASSUME NEW p \in Pins \cup {None}, SetErasePin(p) PROVE (KeptByOwner /\ KeptAlive)
        BY <2>8 DEF SetErasePin
  <2>9. ASSUME NEW n \in Networks, ClearNetwork(n) PROVE (KeptByOwner /\ KeptAlive)
        BY <2>9 DEF ClearNetwork
  <2> QED BY <1>1, <2>1, <2>2, <2>3, <2>4, <2>5, <2>6, <2>7, <2>8, <2>9 DEF
     Menu
<1>2. CASE AuthUser
  <2>1. ASSUME NEW s \in Sources, NEW n \in Networks, Refused(s, n)
        PROVE (KeptByOwner /\ KeptAlive)
        BY <2>1 DEF Refused, Relogin
  <2>2. ASSUME NEW s \in Sources, NEW n \in Networks, AlreadyUnlocked(s, n)
        PROVE (KeptByOwner /\ KeptAlive)
        BY <2>2 DEF AlreadyUnlocked, Request, Relogin, RestrictNetwork
  <2>3. ASSUME NEW s \in Sources, NEW n \in Networks, AdoptTemporary(s, n)
        PROVE (KeptByOwner /\ KeptAlive)
        BY <2>3 DEF AdoptTemporary, Request, Relogin, RestrictNetwork
  <2>4. ASSUME NEW s \in Sources, NEW n \in Networks, StartUnlock(s, n)
        PROVE (KeptByOwner /\ KeptAlive)
        BY <2>4 DEF StartUnlock, Request, KeychainClear
  <2>5. ASSUME NEW s \in Sources, NEW n \in Networks, StartSave(s, n)
        PROVE (KeptByOwner /\ KeptAlive)
        BY <2>5 DEF StartSave, SaveKeys, Request
  <2> QED BY <1>2, <2>1, <2>2, <2>3, <2>4, <2>5 DEF AuthUser
<1>3. CASE User
  <2>1. ASSUME NEW p \in Pins, EnterPin(p) PROVE (KeptByOwner /\ KeptAlive)
        BY <2>1 DEF EnterPin
  <2>2. ASSUME NEW p \in Pins, EnterNewPin(p) PROVE (KeptByOwner /\ KeptAlive)
        BY <2>2 DEF EnterNewPin
  <2>3. CASE AbandonPin
        BY <2>3 DEF AbandonPin, EndAuthUser, EndHandler, Relogin
  <2>4. CASE AbandonNewPin
        BY <2>4 DEF AbandonNewPin, NoNewKey, EndAuthUser, EndHandler, Relogin
  <2>5. ASSUME NEW b \in BOOLEAN, AskChange(b) PROVE (KeptByOwner /\ KeptAlive)
        BY <2>5 DEF AskChange
  <2> QED BY <1>3, <2>1, <2>2, <2>3, <2>4, <2>5 DEF User
<1>4. CASE Host
  <2>1. ASSUME NEW s \in Sources, GetPinReply(s) PROVE (KeptByOwner /\ KeptAlive)
        BY <2>1 DEF GetPinReply
  <2>2. ASSUME NEW s \in Sources, GetPinRetry(s) PROVE (KeptByOwner /\ KeptAlive)
        BY <2>2 DEF GetPinRetry
  <2>3. ASSUME NEW s \in Sources, SetPinReply(s) PROVE (KeptByOwner /\ KeptAlive)
        BY <2>3 DEF SetPinReply
  <2>4. ASSUME NEW s \in Sources, SetPinRetry(s) PROVE (KeptByOwner /\ KeptAlive)
        BY <2>4 DEF SetPinRetry
  <2>5. CASE GetPinFails
        BY <2>5 DEF GetPinFails, EndAuthUser, EndHandler, Relogin
  <2>6. CASE SetPinFails
        BY <2>6 DEF SetPinFails, NoNewKey, EndAuthUser, EndHandler, Relogin
  <2>7. CASE OracleSetPin
        BY <2>7 DEF OracleSetPin
  <2> QED BY <1>4, <2>1, <2>2, <2>3, <2>4, <2>5, <2>6, <2>7 DEF Host
<1>5. CASE Device
  <2>1. CASE SendGetPin
        BY <2>1 DEF SendGetPin, Goto, EndAuthUser, EndHandler, Relogin
  <2>2. CASE SendSetPin
        BY <2>2 DEF SendSetPin, SendSetPinWith, NoNewKey, Goto, EndAuthUser, EndHandler,
           Relogin
  <2>3. CASE Decrement
        BY <2>3 DEF Decrement, DecrementWith, NoPin, NoAttempts, WriteFails, CountAttempt,
           StartErase, Goto
  <2>4. CASE DecryptOk
        BY <2>4 DEF DecryptOk, Goto
  <2>5. CASE DecryptBad
        BY <2>5 DEF DecryptBad, StartErase, Goto
  <2>6. CASE NoBlob
        BY <2>6 DEF NoBlob, StartErase
  <2>7. CASE EraseCounter
        BY <2>7 DEF EraseCounter, EraseCounterThen, Goto
  <2>8. CASE EraseBlob
        BY <2>8 DEF EraseBlob, Goto
  <2>9. CASE EraseNetwork
        BY <2>9 DEF EraseNetwork, Goto
  <2>10. CASE LoadFailed
        BY <2>10 DEF LoadFailed, StartErase, Goto, EndAuthUser, EndHandler, Relogin
  <2>11. CASE Shutdown
        BY <2>11, Boot DEF Shutdown, Restart, KeychainClear, EndHandler
  <2>12. CASE Restore
        BY <2>12 DEF Restore, Goto
  <2>13. CASE SaveCounter
        BY <2>13 DEF SaveCounter, SaveFails, Goto, EndAuthUser, EndHandler, Relogin
  <2>14. CASE SaveBlob
        BY <2>14 DEF SaveBlob, SaveBlobWith, SaveFails, Goto, EndAuthUser, EndHandler,
           Relogin
  <2>15. CASE SaveNetwork
        BY <2>15 DEF SaveNetwork, Goto
  <2>16. CASE ReplyOk
        BY <2>16 DEF ReplyOk, RestrictNetwork, EndAuthUser, EndHandler, Relogin
  <2>17. CASE SetNetwork
        BY <2>17 DEF SetNetwork, RestrictNetwork, EndHandler
  <2>18. CASE AssertFails
        BY <2>18, Boot DEF AssertFails, Restart, KeychainClear, EndHandler
  <2>19. CASE ReplyAssertFails
        BY <2>19, Boot DEF ReplyAssertFails, Restart, KeychainClear, EndHandler
  <2> QED BY <1>5, <2>1, <2>2, <2>3, <2>4, <2>5, <2>6, <2>7, <2>8, <2>9, <2>10,
     <2>11, <2>12, <2>13, <2>14, <2>15, <2>16, <2>17, <2>18, <2>19 DEF Device
<1>6. CASE Reboot
      BY <1>6, Boot DEF Reboot, Restart, KeychainClear, EndHandler
<1>7. CASE UNCHANGED vars
      BY <1>7 DEF vars
<1> QED BY <1>1, <1>2, <1>3, <1>4, <1>5, <1>6, <1>7 DEF Next

-----------------------------------------------------------------------------
(* The steps of the vault                                                    *)

Stutter == UNCHANGED Vault!vars

\* auth_user returns: the session may go back to the source it was taken from.
HandOver == Vault!Drop \/ Vault!HandBack \/ Stutter

\* The abstract steps that name a wallet or a source.
LEMMA VaultNext ==
    /\ \A w \in Wallets \cup TempWallets, t \in BOOLEAN : Vault!Bring(w, t) => Vault!Next
    /\ \A s \in Sources : Vault!Adopt(s) \/ Vault!Open(s) \/ Vault!Claim(s) => Vault!Next
BY Zenon DEF Vault!Next

\* Each step is one of the vault's, or none of its business.
LEMMA VaultStep ==
    ASSUME ~NvsMayFail PROVE IInv /\ Steady /\ [Next]_vars => [Vault!Next]_(Vault!vars)
<1> SUFFICES ASSUME IInv /\ Steady, [Next]_vars PROVE [Vault!Next]_(Vault!vars) OBVIOUS
<1> USE DEF IInv, DataOK, JobOK, LocalsOK, Steady, Attempts, Locked, Erasing, Guessing,
   Saving, Changing, Agreeing, Sourced, UnlockSteps, EraseSteps, NewPinSteps, MaxAttempts,
   Labels, Read, Commit, ReadCounter, CanAskPin, Live, AesKeys, Blobs, FreshKeys,
   KeysInUse, KeyOf, Openable, HandOver, Stutter, Vault!vars, Vault!Bring,
   Vault!Adopt, Vault!Guess, Vault!Open, Vault!Seal, Vault!Claim, Vault!Lend,
   Vault!HandBack, Vault!Drop, nvs, cached, ram, locals, oracle, ghost
<1>1. CASE Menu
  <2>1. ASSUME NEW w \in Wallets, CreateWallet(w) PROVE Vault!Next
    <3>1. Vault!Bring(w, FALSE) BY <2>1 DEF CreateWallet, Commit
    <3> HIDE DEF Vault!Bring
    <3> QED BY <3>1, VaultNext
  <2>2. ASSUME NEW t \in TempWallets, TemporaryLogin(t) PROVE Vault!Next
    <3>1. Vault!Bring(t, TRUE) BY <2>2 DEF TemporaryLogin
    <3> HIDE DEF Vault!Bring
    <3> QED BY <3>1, VaultNext
  <2>3. ASSUME MakeTemporary PROVE Vault!Next
    <3>1. keys \in Wallets \cup TempWallets BY <2>3 DEF MakeTemporary
    <3>2. Vault!Bring(keys, TRUE) BY <2>3 DEF MakeTemporary
    <3> HIDE DEF Vault!Bring
    <3> QED BY <3>1, <3>2, VaultNext
  <2>4. ASSUME UseTemporaryByQr PROVE Vault!Next
    <3>1. "internal" \in Sources /\ Vault!Adopt("internal")
          BY <2>4 DEF UseTemporaryByQr
    <3> HIDE DEF Vault!Adopt
    <3> QED BY <3>1, VaultNext
  <2>5. ASSUME Logout PROVE Vault!Drop
        BY <2>5 DEF Logout, KeychainClear
  <2>6. ASSUME ChangePinQr PROVE Vault!Lend
    <3>1. temporary' = temporary
          BY <2>6, Zenon DEF BooleansOK, ChangePinQr, KeychainClear
    <3> QED BY <2>6, <3>1 DEF ChangePinQr, KeychainClear
  <2>7. ASSUME NEW b \in BOOLEAN, RequestChangePin(b) PROVE Stutter
        BY <2>7 DEF RequestChangePin
  <2>8. ASSUME NEW p \in Pins \cup {None}, SetErasePin(p) PROVE Stutter
        BY <2>8 DEF SetErasePin
  <2>9. ASSUME NEW n \in Networks, ClearNetwork(n) PROVE Stutter
        BY <2>9 DEF ClearNetwork
  <2> QED BY <1>1, <2>1, <2>2, <2>3, <2>4, <2>5, <2>6, <2>7, <2>8, <2>9 DEF Menu, Vault!Next
<1>2. CASE AuthUser
  <2>1. ASSUME NEW s \in Sources, NEW n \in Networks, Refused(s, n) PROVE HandOver
        BY <2>1 DEF Refused, Relogin
  <2>2. ASSUME NEW s \in Sources, NEW n \in Networks, AlreadyUnlocked(s, n) PROVE HandOver
        BY <2>2 DEF AlreadyUnlocked, Request, Relogin, RestrictNetwork
  <2>3. ASSUME NEW s \in Sources, NEW n \in Networks, AdoptTemporary(s, n)
        PROVE Vault!Adopt(s)
        BY <2>3 DEF AdoptTemporary, Request, Relogin, RestrictNetwork
  <2>4. ASSUME NEW s \in Sources, NEW n \in Networks, StartUnlock(s, n) PROVE Vault!Drop
        BY <2>4 DEF StartUnlock, Request, KeychainClear
  <2>5. ASSUME NEW s \in Sources, NEW n \in Networks, StartSave(s, n)
        PROVE Vault!Next \/ Stutter
    <3>1. CASE keys # None
          BY <2>5, <3>1 DEF StartSave, SaveKeys, Request
    <3>2. CASE keys = None
      <4>1. keys' \in Wallets /\ owner' = None
            BY <2>5, <3>2 DEF StartSave, SaveKeys
      <4>2. temporary' = FALSE
            BY <2>5, Zenon DEF StartSave, SaveKeys, BooleansOK
      <4>3. Vault!Bring(keys', FALSE)
            BY <2>5, <4>1, <4>2 DEF StartSave, SaveKeys, Request
      <4> HIDE DEF Vault!Bring
      <4> QED BY <4>1, <4>3, VaultNext
    <3> QED BY <3>1, <3>2
  <2> QED BY <1>2, <2>1, <2>2, <2>3, <2>4, <2>5 DEF AuthUser, Vault!Next
<1>3. CASE User
  <2>1. ASSUME NEW p \in Pins, EnterPin(p) PROVE Stutter
        BY <2>1 DEF EnterPin
  <2>2. ASSUME NEW p \in Pins, EnterNewPin(p) PROVE Stutter
        BY <2>2 DEF EnterNewPin
  <2>3. ASSUME AbandonPin PROVE HandOver
        BY <2>3 DEF AbandonPin, EndAuthUser, EndHandler, Relogin
  <2>4. ASSUME AbandonNewPin PROVE HandOver
        BY <2>4 DEF AbandonNewPin, NoNewKey, EndAuthUser, EndHandler, Relogin
  <2>5. ASSUME NEW b \in BOOLEAN, AskChange(b) PROVE Stutter
        BY <2>5 DEF AskChange
  <2> QED BY <1>3, <2>1, <2>2, <2>3, <2>4, <2>5 DEF User, Vault!Next
<1>4. CASE Host
  <2>1. ASSUME NEW s \in Sources, GetPinReply(s) PROVE Vault!Drop \/ Stutter
        BY <2>1 DEF GetPinReply
  <2>2. ASSUME NEW s \in Sources, GetPinRetry(s) PROVE Stutter
        BY <2>2 DEF GetPinRetry
  <2>3. ASSUME NEW s \in Sources, SetPinReply(s) PROVE Stutter
        BY <2>3 DEF SetPinReply
  <2>4. ASSUME NEW s \in Sources, SetPinRetry(s) PROVE Stutter
        BY <2>4 DEF SetPinRetry
  <2>5. ASSUME GetPinFails PROVE HandOver
        BY <2>5 DEF GetPinFails, EndAuthUser, EndHandler, Relogin
  <2>6. ASSUME SetPinFails PROVE HandOver
        BY <2>6 DEF SetPinFails, NoNewKey, EndAuthUser, EndHandler, Relogin
  <2>7. ASSUME OracleSetPin PROVE Vault!Drop
        BY <2>7 DEF OracleSetPin
  <2> QED BY <1>4, <2>1, <2>2, <2>3, <2>4, <2>5, <2>6, <2>7 DEF Host, Vault!Next
<1>5. CASE Device
  <2>1. ASSUME SendGetPin PROVE Stutter
        BY <2>1 DEF SendGetPin, Goto, EndAuthUser, EndHandler, Relogin
  <2>2. ASSUME SendSetPin PROVE Stutter
        BY <2>2 DEF SendSetPin, SendSetPinWith, NoNewKey, Goto, EndAuthUser, EndHandler,
           Relogin
  <2>3. ASSUME Decrement PROVE Vault!Guess \/ Stutter
        BY <2>3, ConstantsAssumption DEF Decrement, DecrementWith, NoPin, NoAttempts,
           WriteFails, CountAttempt, StartErase, Goto
  <2>4. ASSUME DecryptOk PROVE Stutter
        BY <2>4 DEF DecryptOk, Goto
  <2>5. ASSUME DecryptBad PROVE Vault!Drop
        BY <2>5 DEF DecryptBad, StartErase, Goto
  <2>6. ASSUME NoBlob PROVE Stutter
        BY <2>6 DEF NoBlob, StartErase
  <2>7. ASSUME EraseCounter PROVE Vault!Drop
        BY <2>7 DEF EraseCounter, EraseCounterThen, Goto
  <2>8. ASSUME EraseBlob PROVE Stutter
        BY <2>8 DEF EraseBlob, Goto
  <2>9. ASSUME EraseNetwork PROVE Stutter
        BY <2>9 DEF EraseNetwork, Goto
  <2>10. ASSUME LoadFailed PROVE HandOver
        BY <2>10 DEF LoadFailed, StartErase, Goto, EndAuthUser, EndHandler, Relogin
  <2>11. ASSUME Shutdown PROVE Vault!Drop
        BY <2>11, Boot DEF Shutdown, Restart, KeychainClear, EndHandler
  <2>12. ASSUME Restore PROVE Vault!Open(src) \/ Stutter
        BY <2>12, ConstantsAssumption DEF Restore, Goto
  <2>13. ASSUME SaveCounter PROVE Stutter
        BY <2>13 DEF SaveCounter, SaveFails, Goto, EndAuthUser, EndHandler, Relogin
  <2>14. ASSUME SaveBlob PROVE Vault!Seal
        BY <2>14, ConstantsAssumption DEF SaveBlob, SaveBlobWith, SaveFails, Goto,
           EndAuthUser, EndHandler, Relogin
  <2>15. ASSUME SaveNetwork PROVE Vault!Claim(src)
    <3>1. ~temporary /\ owner = None BY <2>15 DEF SaveNetwork
    <3>2. temporary' = temporary
          BY <2>15, <3>1, Zenon DEF BooleansOK, SaveNetwork
    <3> QED BY <2>15, <3>1, <3>2, ConstantsAssumption DEF SaveNetwork, Goto
  <2>16. ASSUME ReplyOk PROVE HandOver
        BY <2>16 DEF ReplyOk, RestrictNetwork, EndAuthUser, EndHandler, Relogin
  <2>17. ASSUME SetNetwork PROVE Stutter
        BY <2>17 DEF SetNetwork, RestrictNetwork, EndHandler
  <2>18. ASSUME AssertFails PROVE Vault!Drop
        BY <2>18, Boot DEF AssertFails, Restart, KeychainClear, EndHandler
  <2>19. ASSUME ReplyAssertFails PROVE Vault!Drop
        BY <2>19, Boot DEF ReplyAssertFails, Restart, KeychainClear, EndHandler
  <2> QED BY <1>5, <2>1, <2>2, <2>3, <2>4, <2>5, <2>6, <2>7, <2>8, <2>9, <2>10,
     <2>11, <2>12, <2>13, <2>14, <2>15, <2>16, <2>17, <2>18, <2>19 DEF Device, Vault!Next
<1>6. CASE Reboot
  <2>1. Vault!Drop
      BY <1>6, Boot DEF Reboot, Restart, KeychainClear, EndHandler
  <2> QED BY <2>1 DEF Vault!Next
<1>7. CASE UNCHANGED vars
      BY <1>7 DEF vars
<1> QED BY <1>1, <1>2, <1>3, <1>4, <1>5, <1>6, <1>7 DEF Next

-----------------------------------------------------------------------------
(* The theorems for flash that does not fail                                 *)

LEMMA InductiveSteady == ASSUME ~NvsMayFail PROVE Spec => [](IInv /\ Steady)
<1>1. Init => IInv /\ Steady BY InitIInv, InitSteady
<1>2. IInv /\ Steady /\ [Next]_vars => (IInv /\ Steady)' BY NextIInv, SteadyStep
<1> QED BY <1>1, <1>2, PTL DEF Spec

\* The PIN is asked for only where a wallet is stored and attempts are left, a wallet is
\* saved only where none is, the network pinned at the end is the one the request was
\* accepted for, and the message replied to has a source, unless it was lost in a change.
THEOREM NoAssertionFails == ASSUME ~NvsMayFail PROVE Spec => []AssertionsHold
<1>1. IInv /\ Steady => AssertionsHold
  <2> SUFFICES ASSUME IInv, Steady PROVE AssertionsHold OBVIOUS
  <2>1. pc = "get_pin" => keys = None /\ CanAskPin
        BY DEF IInv, JobOK, Steady, Attempts, Locked, UnlockSteps, EraseSteps, CanAskPin
  <2>2. pc = "new_pin" /\ job = "save" => keys # None /\ ~hasPin /\ ~temporary
        BY DEF Steady, Saving, NewPinSteps
  <2>3. pc \in {"reply_ok", "menu_network"} => NetworkConsistent(net)
        BY DEF Steady, Agreeing
  <2>4. pc = "reply_ok" => CanReply \/ LostInChange
        BY DEF Steady, Sourced, Changing, CanReply, LostInChange
  <2> QED BY <2>1, <2>2, <2>3, <2>4 DEF AssertionsHold
<1> QED BY InductiveSteady, <1>1, PTL

\* Unlocked keys never pass from one source of messages to another, but for the session
\* handed back after a change of PIN by QR.
THEOREM KeysStayWithOwner == ASSUME ~NvsMayFail PROVE Spec => SameOwner
<1>1. IInv /\ Steady /\ [Next]_vars
          => [owner # None /\ owner' # None
              => owner' = owner \/ (owner = "internal" /\ owner' = relogin)]_vars
      BY KeptStep DEF KeptByOwner
<1> QED BY InductiveSteady, <1>1, PTL DEF Spec, SameOwner

\* A wallet that can be opened is lost only by a third wrong PIN, by the wallet-erase PIN,
\* or by the oracle.
THEOREM LostForAReason == ASSUME ~NvsMayFail PROVE Spec => LiveWalletKept
<1>1. IInv /\ Steady /\ [Next]_vars
          => [Live /\ ~Live' => \/ server' # server
                                \/ blob' = None /\ cause \in {"bad_pin", "erase_pin"}]_vars
      BY KeptStep DEF KeptAlive
<1> QED BY InductiveSteady, <1>1, PTL DEF Spec, LiveWalletKept

\* The handler with its flash records and its oracle keeps what PinVault promises, power
\* lost at any step included.
THEOREM KeepsThePromise == ASSUME ~NvsMayFail PROVE Spec => ImplementsVault
<1>1. Init => Vault!Init
      BY DEF Init, Vault!Init, Openable, Live
<1>2. IInv /\ Steady /\ [Next]_vars => [Vault!Next]_(Vault!vars) BY VaultStep
<1> QED BY InductiveSteady, <1>1, <1>2, PTL DEF Spec, ImplementsVault, Vault!Spec

-----------------------------------------------------------------------------
(* While neither flash fails nor power is lost: what is begun is finished    *)

\* The steps the handler takes by itself: elsewhere it waits for the user or for a message.
OwnSteps == Labels \ {"idle", "get_pin", "get_wait", "ask_change", "new_pin", "set_wait"}

\* The main task can go on wherever nobody else is waited for.
CanGoOn == pc \in OwnSteps => ENABLED <<Device>>_vars

\* At a step of its own the handler is not disturbed, but by an oracle that answers late.
LEMMA OnlyDevice ==
    ASSUME ~MayCrash, pc \in OwnSteps, Next PROVE Device \/ OracleSetPin
<1>1. pc \notin {"idle", "get_pin", "get_wait", "ask_change", "new_pin", "set_wait"} BY DEF OwnSteps
<1>2. ~Menu BY <1>1 DEF Menu, CreateWallet, TemporaryLogin, MakeTemporary, UseTemporaryByQr, Logout,
            ChangePinQr, RequestChangePin, SetErasePin, ClearNetwork
<1>3. ~AuthUser BY <1>1 DEF AuthUser, Refused, AlreadyUnlocked, AdoptTemporary, StartUnlock, StartSave,
                SaveKeys, Request
<1>4. ~User BY <1>1 DEF User, EnterPin, EnterNewPin, AbandonPin, AbandonNewPin, AskChange
<1>5. Host => OracleSetPin
      BY <1>1 DEF Host, GetPinReply, GetPinRetry, SetPinReply, SetPinRetry, GetPinFails, SetPinFails
<1> QED BY <1>2, <1>3, <1>4, <1>5 DEF Next, Reboot

\* A change of PIN for which the oracle has answered is at one of five steps; the last is
\* followed by the reply.
ChangingAt(step) == pc = step /\ job = "change"
Rekeyed == pc = "reply_ok" /\ blob # None /\ blob.aes = newAes

LEMMA RekeyStep ==
    ASSUME ~NvsMayFail, ~MayCrash, IInv, Steady, Next
    PROVE  /\ ChangingAt("decrement") => ChangingAt("decrypt")'
           /\ ChangingAt("decrypt") => ChangingAt("restore")'
           /\ ChangingAt("restore") => ChangingAt("save_counter")'
           /\ ChangingAt("save_counter") => ChangingAt("save_blob")'
           /\ ChangingAt("save_blob") => Rekeyed'
<1> DEFINE Steps == {"decrement", "decrypt", "restore", "save_counter", "save_blob"}
<1> SUFFICES ASSUME pc \in Steps, job = "change"
             PROVE  /\ pc = "decrement" => ChangingAt("decrypt")'
                    /\ pc = "decrypt" => ChangingAt("restore")'
                    /\ pc = "restore" => ChangingAt("save_counter")'
                    /\ pc = "save_counter" => ChangingAt("save_blob")'
                    /\ pc = "save_blob" => Rekeyed'
  BY DEF ChangingAt
<1>1. posted = None
      BY DEF Steady, Changing, Saving
<1>2. Device BY <1>1, OnlyDevice DEF OwnSteps, Labels, OracleSetPin
<1>3. CASE pc = "decrement"
  <2>1. hasPin /\ counter # 0 BY <1>3 DEF Steady, Changing, Attempts, IInv, DataOK, MaxAttempts, EraseSteps
  <2>2. Decrement BY <1>2, <1>3 DEF Device, SendGetPin, SendSetPin, SendSetPinWith, DecryptOk, DecryptBad, NoBlob,
        EraseCounter, EraseCounterThen, EraseBlob, EraseNetwork, LoadFailed, Shutdown, Restore, SaveCounter,
        SaveBlob, SaveBlobWith, SaveNetwork, ReplyOk, SetNetwork, AssertFails, ReplyAssertFails
  <2>3. CountAttempt
        BY <2>1, <2>2 DEF Decrement, DecrementWith, NoPin, NoAttempts, WriteFails, ReadCounter, Read
  <2> QED BY <1>3, <2>3 DEF CountAttempt, Goto, locals, ChangingAt
<1>4. CASE pc = "decrypt"
  <2>1. blob # None /\ blob.aes = aes BY <1>4 DEF Steady, Changing
  <2>2. DecryptOk BY <1>2, <1>4, <2>1 DEF Device, SendGetPin, SendSetPin, SendSetPinWith, Decrement, DecrementWith,
        DecryptBad, NoBlob, EraseCounter, EraseCounterThen, EraseBlob, EraseNetwork, LoadFailed, Shutdown, Restore,
        SaveCounter, SaveBlob, SaveBlobWith, SaveNetwork, ReplyOk, SetNetwork, AssertFails, ReplyAssertFails
  <2> QED BY <1>4, <2>2 DEF DecryptOk, Goto, locals, ChangingAt
<1>5. CASE pc = "restore"
  <2>1. Restore BY <1>2, <1>5 DEF Device, SendGetPin, SendSetPin, SendSetPinWith, Decrement, DecrementWith, DecryptOk,
        DecryptBad, NoBlob, EraseCounter, EraseCounterThen, EraseBlob, EraseNetwork, LoadFailed, Shutdown,
        SaveCounter, SaveBlob, SaveBlobWith, SaveNetwork, ReplyOk, SetNetwork, AssertFails, ReplyAssertFails
  <2> QED BY <1>5, <2>1 DEF Restore, Goto, locals, ChangingAt
<1>6. CASE pc = "save_counter"
  <2>1. SaveCounter BY <1>2, <1>6 DEF Device, SendGetPin, SendSetPin, SendSetPinWith, Decrement, DecrementWith,
        DecryptOk, DecryptBad, NoBlob, EraseCounter, EraseCounterThen, EraseBlob, EraseNetwork, LoadFailed, Shutdown,
        Restore, SaveBlob, SaveBlobWith, SaveNetwork, ReplyOk, SetNetwork, AssertFails, ReplyAssertFails
  <2> QED BY <1>6, <2>1 DEF SaveCounter, SaveFails, Goto, locals, ChangingAt
<1>7. CASE pc = "save_blob"
  <2>1. SaveBlob BY <1>2, <1>7 DEF Device, SendGetPin, SendSetPin, SendSetPinWith, Decrement, DecrementWith, DecryptOk,
        DecryptBad, NoBlob, EraseCounter, EraseCounterThen, EraseBlob, EraseNetwork, LoadFailed, Shutdown,
        Restore, SaveCounter, SaveNetwork, ReplyOk, SetNetwork, AssertFails, ReplyAssertFails
  <2> DEFINE new == [wallet |-> blob.wallet, aes |-> newAes]
  <2>2. blob' = new /\ pc' = "reply_ok" /\ newAes' = newAes
        BY <2>1 DEF SaveBlob, SaveBlobWith, SaveFails, Commit, Goto, locals
  <2>3. new # None
    <3>1. newAes \in AesKeys /\ blob \in Blobs BY <1>7 DEF IInv, LocalsOK, DataOK
    <3>2. new \in Blobs BY <3>1 DEF Blobs
    <3> QED BY <3>2, ConstantsAssumption
  <2>4. new.aes = newAes OBVIOUS
  <2> HIDE DEF new
  <2>5. blob' # None /\ blob'.aes = newAes' BY <2>2, <2>3, <2>4
  <2> QED BY <1>7, <2>2, <2>5 DEF Rekeyed
<1> QED BY <1>3, <1>4, <1>5, <1>6, <1>7

\* Once the oracle's answer for a new PIN is in hand, the stored wallet ends up encrypted
\* with the new key: no attempt is missing, the old key still opens it, and every write of
\* keychain_reencrypt() is reached.  Fairness of the main task; that it can go on where it
\* waits for nobody is the hypothesis CanGoOn.
THEOREM RekeyingEnds ==
    ASSUME ~NvsMayFail, ~MayCrash PROVE FairSpec /\ []CanGoOn => PinChangeCompletes
<1>1. IInv /\ Steady /\ ChangingAt("decrement") /\ [Next]_vars
          => ChangingAt("decrement")' \/ ChangingAt("decrypt")'
      BY RekeyStep DEF ChangingAt, vars, locals
<1>2. IInv /\ Steady /\ ChangingAt("decrypt") /\ [Next]_vars => ChangingAt("decrypt")' \/ ChangingAt("restore")'
      BY RekeyStep DEF ChangingAt, vars, locals
<1>3. IInv /\ Steady /\ ChangingAt("restore") /\ [Next]_vars => ChangingAt("restore")' \/ ChangingAt("save_counter")'
      BY RekeyStep DEF ChangingAt, vars, locals
<1>4. IInv /\ Steady /\ ChangingAt("save_counter") /\ [Next]_vars
          => ChangingAt("save_counter")' \/ ChangingAt("save_blob")'
      BY RekeyStep DEF ChangingAt, vars, locals
<1>5. IInv /\ Steady /\ ChangingAt("save_blob") /\ [Next]_vars => ChangingAt("save_blob")' \/ Rekeyed'
      BY RekeyStep DEF ChangingAt, vars, locals
<1>6. IInv /\ Steady /\ <<Device>>_vars
          => /\ ChangingAt("decrement") => ChangingAt("decrypt")'
             /\ ChangingAt("decrypt") => ChangingAt("restore")'
             /\ ChangingAt("restore") => ChangingAt("save_counter")'
             /\ ChangingAt("save_counter") => ChangingAt("save_blob")'
             /\ ChangingAt("save_blob") => Rekeyed'
      BY RekeyStep DEF Next
<1>7. CanGoOn => /\ ChangingAt("decrement") => ENABLED <<Device>>_vars
                 /\ ChangingAt("decrypt") => ENABLED <<Device>>_vars
                 /\ ChangingAt("restore") => ENABLED <<Device>>_vars
                 /\ ChangingAt("save_counter") => ENABLED <<Device>>_vars
                 /\ ChangingAt("save_blob") => ENABLED <<Device>>_vars
      BY DEF CanGoOn, ChangingAt, OwnSteps, Labels
<1>8. pc = "decrement" /\ job = "change" /\ newAes = server => ChangingAt("decrement") BY DEF ChangingAt
<1>9. Rekeyed => pc = "reply_ok" /\ blob # None /\ blob.aes = newAes BY DEF Rekeyed
<1> QED BY <1>1, <1>2, <1>3, <1>4, <1>5, <1>6, <1>7, <1>8, <1>9, InductiveSteady, PTL
        DEF FairSpec, Spec, PinChangeCompletes

\* A blob is condemned only between the two writes of an erasure.
OnItsWay == condemned => pc = "erase_blob"

LEMMA OnItsWayStep ==
    ASSUME ~NvsMayFail, ~MayCrash, IInv, OnItsWay, [Next]_vars PROVE OnItsWay'
<1>1. CASE condemned /\ Next
  <2>1. pc = "erase_blob" BY <1>1 DEF OnItsWay
  <2>2. Device \/ OracleSetPin BY <1>1, <2>1, OnlyDevice DEF OwnSteps, Labels
  <2>3. CASE EraseBlob
    <3>1. blob' = None BY <2>3 DEF EraseBlob, Commit
    <3>2. condemned' = FALSE BY <2>3, <3>1 DEF EraseBlob
    <3> QED BY <3>2 DEF OnItsWay
  <2>4. CASE OracleSetPin BY <2>1, <2>4 DEF OracleSetPin, OnItsWay
  <2> QED BY <2>1, <2>2, <2>3, <2>4 DEF Device, SendGetPin, SendSetPin, SendSetPinWith, Decrement, DecrementWith,
      DecryptOk, DecryptBad, NoBlob, EraseCounter, EraseCounterThen, EraseNetwork, LoadFailed, Shutdown, Restore,
      SaveCounter, SaveBlob, SaveBlobWith, SaveNetwork, ReplyOk, SetNetwork, AssertFails, ReplyAssertFails
<1>2. CASE ~condemned /\ Next
  <2>1. CASE EraseCounter BY <2>1 DEF EraseCounter, EraseCounterThen, Goto, OnItsWay
  <2>2. CASE EraseBlob BY <1>2, <2>2 DEF EraseBlob, OnItsWay
  <2>3. CASE SaveBlob BY <1>2, <2>3 DEF SaveBlob, SaveBlobWith, OnItsWay, ghost
  <2>4. CASE condemned' = condemned BY <1>2, <2>4 DEF OnItsWay
  <2>5. Menu \/ AuthUser => condemned' = condemned
        BY DEF Menu, CreateWallet, TemporaryLogin, MakeTemporary, UseTemporaryByQr, Logout, ChangePinQr,
           RequestChangePin, SetErasePin, ClearNetwork, AuthUser, Refused, AlreadyUnlocked, AdoptTemporary,
           StartUnlock, StartSave, SaveKeys, ghost
  <2>6. User \/ Host => condemned' = condemned
        BY DEF User, EnterPin, EnterNewPin, AbandonPin, AbandonNewPin, AskChange, NoNewKey, Host, GetPinReply,
           GetPinRetry, SetPinReply, SetPinRetry, GetPinFails, SetPinFails, OracleSetPin, ghost
  <2>7. Device => EraseCounter \/ EraseBlob \/ SaveBlob \/ condemned' = condemned
        BY DEF Device, SendGetPin, SendSetPin, SendSetPinWith, NoNewKey, Decrement, DecrementWith, DecryptOk,
           DecryptBad, NoBlob, EraseNetwork, LoadFailed, Shutdown, Restart, Restore, SaveCounter, SaveNetwork,
           ReplyOk, SetNetwork, AssertFails, ReplyAssertFails, ghost
  <2> QED BY <1>2, <2>1, <2>2, <2>3, <2>4, <2>5, <2>6, <2>7 DEF Next, Reboot
<1>3. CASE UNCHANGED vars BY <1>3 DEF vars, ghost, OnItsWay
<1> QED BY <1>1, <1>2, <1>3

\* What is condemned does get erased: nothing but the erasure goes on meanwhile.
LEMMA ErasureStep ==
    ASSUME ~NvsMayFail, ~MayCrash, IInv, OnItsWay, condemned, Device PROVE blob' = None
<1>1. pc = "erase_blob" BY DEF OnItsWay
<1>2. EraseBlob
      BY <1>1 DEF Device, SendGetPin, SendSetPin, SendSetPinWith, Decrement, DecrementWith, DecryptOk, DecryptBad,
         NoBlob, EraseCounter, EraseCounterThen, EraseNetwork, LoadFailed, Shutdown, Restore, SaveCounter, SaveBlob,
         SaveBlobWith, SaveNetwork, ReplyOk, SetNetwork, AssertFails, ReplyAssertFails
<1> QED BY <1>2 DEF EraseBlob, Commit

LEMMA StaysCondemned ==
    ASSUME ~NvsMayFail, ~MayCrash, IInv, OnItsWay, condemned, [Next]_vars PROVE condemned' \/ blob' = None
<1>1. CASE Next
  <2>1. Device \/ OracleSetPin BY <1>1, OnlyDevice DEF OnItsWay, OwnSteps, Labels
  <2> QED BY <2>1, ErasureStep DEF OracleSetPin, ghost
<1>2. CASE UNCHANGED vars BY <1>2 DEF vars, ghost
<1> QED BY <1>1, <1>2

\* A third wrong PIN, or the wallet-erase PIN, does erase the blob.
THEOREM ErasureEnds ==
    ASSUME ~NvsMayFail, ~MayCrash PROVE FairSpec /\ []CanGoOn => EraseCompletes
<1>1. Init => OnItsWay BY DEF Init, OnItsWay
<1>2. IInv /\ OnItsWay /\ [Next]_vars => OnItsWay' BY OnItsWayStep
<1>3. IInv /\ OnItsWay /\ condemned /\ [Next]_vars => condemned' \/ (blob = None)' BY StaysCondemned
<1>4. IInv /\ OnItsWay /\ condemned /\ <<Device>>_vars => (blob = None)' BY ErasureStep
<1>5. CanGoOn /\ OnItsWay /\ condemned => ENABLED <<Device>>_vars BY DEF CanGoOn, OnItsWay, OwnSteps, Labels
<1> QED BY <1>1, <1>2, <1>3, <1>4, <1>5, Inductive, PTL DEF FairSpec, Spec, EraseCompletes
=============================================================================

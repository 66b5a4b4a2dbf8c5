---------------------------- MODULE TokenService ----------------------------
(***************************************************************************)
(* One signature: RequestHandler.sign, TokenService.sign and PKCS11Session *)
(* against the cards in the readers.                                       *)
(*                                                                         *)
(* Several host processes share the readers.  Between two PKCS #11 calls   *)
(* of one process anything may happen: the other process logs in, spends a *)
(* PIN try or signs, a card is pulled out or put in, the process is        *)
(* killed.  One atomic step is one call into the module (or one that reads *)
(* the readers once), or one answer of the person in the PIN window.       *)
(*                                                                         *)
(* The module and the cards are external and modelled from how the code    *)
(* uses them and what PKCS #11 says of the calls: a session belongs to the *)
(* card in the slot it was opened on and dies with its removal; a login    *)
(* belongs to one process and one slot, and ends with C_Logout or with the *)
(* process's last session there; a wrong PIN spends a try; any call may    *)
(* fail.                                                                   *)
(***************************************************************************)
EXTENDS Naturals

CONSTANTS
  Hosts,          \* host processes
  Slots,          \* slot numbers, in the order C_GetSlotList lists them
  Cards,          \* cards, each with a serial of its own
  Blank,          \* cards whose user PIN was never set
  NoCard, NoSlot, NoPin, WrongPin,
  MaxTries,       \* wrong PINs a card accepts before it locks itself
  CleanUpMayFail, \* C_Logout and C_CloseSession may fail; the code looks at neither
  OneShot         \* a process is sent one request (background.ts)

ASSUME SlotsAssumption == Slots \subseteq Nat /\ NoSlot \notin Slots
ASSUME CardsAssumption == /\ Blank \subseteq Cards
                          /\ NoCard \notin Cards
                          /\ {NoPin, WrongPin} \cap Cards = {}
                          /\ NoPin # WrongPin
ASSUME TriesAssumption == MaxTries \in Nat \ {0}
ASSUME ModesAssumption == CleanUpMayFail \in BOOLEAN /\ OneShot \in BOOLEAN

VARIABLES
  reader,   \* reader[s]: the usable card in slot s
  tries,    \* tries[c]: wrong PINs card c will still accept; 0 is locked
  login,    \* <<h, s>>: process h is logged in to the card in slot s
  unclosed, \* <<h, s>>: a session of h is open there that h has dropped
  step,     \* step[h]: where h is in handling a sign request
  cert,     \* cert[h]: the certificate id asked for, <serial>:<CKA_ID>
  shown,    \* shown[h]: the card whose label the open window shows
  pin,      \* pin[h]: the card whose PIN was typed
  slot,     \* slot[h]: where locate() found the certificate's card
  session,  \* session[h]: the card h's open session reaches, if any
  signer,   \* signer[h]: the card whose key made h's signature
  result,   \* result[h]: the answer's code
  served,   \* processes that have answered a request
  swapped,  \* history: processes whose slot changed hands after locate()
  failed    \* history: <<h, s, f>>: f failed to clean up after h at the card in s

cards   == <<reader, tries>>
left    == <<unclosed, failed, served>>
request == <<cert, shown, pin>>
call    == <<slot, session, signer, swapped>>
vars    == <<reader, tries, login, unclosed, step, cert, shown, pin,
             slot, session, signer, result, served, swapped, failed>>

(* The id names a card by serial; "key" is whether a private key goes by   *)
(* the CKA_ID in it.  Cards number their objects alike: the CKA_ID of a    *)
(* key on one card is the CKA_ID of a key on another.                      *)
Certificates == [card : Cards, key : BOOLEAN]
NoCertificate == [card |-> NoCard, key |-> FALSE]

Steps   == {"idle", "asked", "window", "locate", "open", "login", "find",
            "sign", "logout", "close", "answer"}
CleanUps == {"C_Logout", "C_CloseSession"}
Results == {"none", "signed", "bad_request", "refused", "not_found",
            "no_private_key", "pin_failed", "pin_locked", "token_error"}

TypeOK ==
  /\ reader \in [Slots -> Cards \cup {NoCard}]
  /\ tries \in [Cards -> 0..MaxTries]
  /\ login \subseteq Hosts \X Slots
  /\ unclosed \subseteq Hosts \X Slots
  /\ step \in [Hosts -> Steps]
  /\ cert \in [Hosts -> Certificates \cup {NoCertificate}]
  /\ shown \in [Hosts -> Cards \cup {NoCard}]
  /\ pin \in [Hosts -> Cards \cup {NoPin, WrongPin}]
  /\ slot \in [Hosts -> Slots \cup {NoSlot}]
  /\ session \in [Hosts -> Cards \cup {NoCard}]
  /\ signer \in [Hosts -> Cards \cup {NoCard}]
  /\ result \in [Hosts -> Results]
  /\ served \subseteq Hosts
  /\ swapped \subseteq Hosts
  /\ failed \subseteq Hosts \X Slots \X CleanUps

Init ==
  /\ reader \in {r \in [Slots -> Cards \cup {NoCard}] :
                   \A s, t \in Slots : r[s] = r[t] /\ r[s] # NoCard => s = t}
  /\ tries = [c \in Cards |-> MaxTries]
  /\ login = {} /\ unclosed = {} /\ failed = {} /\ served = {}
  /\ step = [h \in Hosts |-> "idle"]
  /\ cert = [h \in Hosts |-> NoCertificate]
  /\ shown = [h \in Hosts |-> NoCard]
  /\ pin = [h \in Hosts |-> NoPin]
  /\ slot = [h \in Hosts |-> NoSlot]
  /\ session = [h \in Hosts |-> NoCard]
  /\ signer = [h \in Hosts |-> NoCard]
  /\ result = [h \in Hosts |-> "none"]
  /\ swapped = {}

(***************************************************************************)
(* The codes of pkcs11t.h that ErrorCode.from tells apart.                 *)
(***************************************************************************)
PinFailures  == {"CKR_PIN_INCORRECT", "CKR_PIN_INVALID", "CKR_PIN_LEN_RANGE"}
PinLocks     == {"CKR_PIN_LOCKED", "CKR_USER_PIN_NOT_INITIALIZED"}
OtherErrors  == {"any other CKR_"}
ReturnValues == PinFailures \cup PinLocks \cup OtherErrors

(* Mutant: a code the protocol has no name for is answered by its own.     *)
CodeFromByName ==
  [rv \in ReturnValues |->
     CASE rv \in PinLocks -> "pin_locked"
       [] rv \in PinFailures -> "pin_failed"
       [] OTHER -> rv]

CodeFrom ==
  [rv \in ReturnValues |->
     CASE rv \in PinLocks -> "pin_locked"
       [] rv \in PinFailures -> "pin_failed"
       [] OTHER -> "token_error"]

(***************************************************************************)
(* RequestHandler.sign                                                     *)
(***************************************************************************)
Goto(h, s)    == step' = [step EXCEPT ![h] = s]
Resolve(h, r) == result' = [result EXCEPT ![h] = r]

Occupied == {s \in Slots : reader[s] # NoCard}

(* service.tokens().first?.label, or "your token" (NoCard): tokens() leaves *)
(* out the slots that do not answer, and may fail altogether.              *)
IsFirstToken(c) ==
  \E answering \in SUBSET Occupied :
    \/ answering = {} /\ c = NoCard
    \/ \E s \in answering : c = reader[s] /\ \A t \in answering : s <= t

(* Mutant: the page's next request goes to the same native port.           *)
RequestAgain(h, c) ==
  /\ step[h] = "idle"
  /\ Goto(h, "asked")
  /\ cert' = [cert EXCEPT ![h] = c]
  /\ UNCHANGED <<cards, login, left, shown, pin, call, result>>

(* A sign request of a paired origin arrives.  OneShot: the extension      *)
(* opens a native port, and so a process, for each request.                *)
Request(h, c) ==
  /\ step[h] = "idle"
  /\ OneShot => h \notin served
  /\ Goto(h, "asked")
  /\ cert' = [cert EXCEPT ![h] = c]
  /\ UNCHANGED <<cards, login, left, shown, pin, call, result>>

(* A field is missing or malformed, or the hash is not SHA-256; or no      *)
(* module could be loaded.  No window has been shown.                      *)
Reject(h) ==
  /\ step[h] = "asked"
  /\ \E r \in {"bad_request", "token_error"} : Resolve(h, r)
  /\ Goto(h, "answer")
  /\ UNCHANGED <<cards, login, left, request, call>>

ShowWindow(h) ==
  /\ step[h] = "asked"
  /\ Goto(h, "window")
  /\ \E c \in Cards \cup {NoCard} :
       IsFirstToken(c) /\ shown' = [shown EXCEPT ![h] = c]
  /\ UNCHANGED <<cards, login, left, cert, pin, call, result>>

(* Mutant: a cancelled window is an empty PIN.                             *)
CancelIsNoPin(h) ==
  /\ step[h] = "window"
  /\ Goto(h, "locate")
  /\ shown' = [shown EXCEPT ![h] = NoCard]
  /\ UNCHANGED <<cards, login, left, cert, pin, call, result>>

(* "Cancel", or a window that could not be shown.                          *)
Cancel(h) ==
  /\ step[h] = "window"
  /\ shown' = [shown EXCEPT ![h] = NoCard]
  /\ Resolve(h, "refused")
  /\ Goto(h, "answer")
  /\ UNCHANGED <<cards, login, left, cert, pin, call>>

EnterPin(h, p) ==
  /\ step[h] = "window"
  /\ shown' = [shown EXCEPT ![h] = NoCard]
  /\ pin' = [pin EXCEPT ![h] = p]
  /\ Goto(h, "locate")
  /\ UNCHANGED <<cards, login, left, cert, call, result>>

(* The answer leaves; the request's frame, the typed PIN in it, goes with  *)
(* it.  The process stays, and what it is still logged in to.              *)
Answer(h) ==
  /\ step[h] = "answer"
  /\ Goto(h, "idle")
  /\ cert' = [cert EXCEPT ![h] = NoCertificate]
  /\ pin' = [pin EXCEPT ![h] = NoPin]
  /\ slot' = [slot EXCEPT ![h] = NoSlot]
  /\ signer' = [signer EXCEPT ![h] = NoCard]
  /\ Resolve(h, "none")
  /\ swapped' = swapped \ {h}
  /\ served' = served \cup {h}
  /\ UNCHANGED <<cards, login, unclosed, failed, shown, session>>

(***************************************************************************)
(* TokenService.sign: locate, open, login, find, sign, and on every way    *)
(* out the session's deinit, after a login the deferred logout before it.  *)
(***************************************************************************)
(* An error thrown with no session open goes straight to the answer.       *)
Throw(h, r) ==
  /\ Resolve(h, r)
  /\ Goto(h, "answer")

(* login() throws: the session was never logged in, and is only closed.    *)
LoginThrows(h, r) ==
  /\ Resolve(h, r)
  /\ Goto(h, "close")

(* sign() is left after a login, with a signature or an error.             *)
Unwind(h, r) ==
  /\ Resolve(h, r)
  /\ Goto(h, "logout")

(* Mutant: the first usable slot, whatever its serial.                     *)
LocateAny(h) ==
  /\ step[h] = "locate"
  /\ \E s \in Occupied : slot' = [slot EXCEPT ![h] = s]
  /\ Goto(h, "open")
  /\ UNCHANGED <<cards, login, left, request, session, signer, result, swapped>>

(* The slot whose serial is the id's; not_found when there is none, when it *)
(* does not answer C_GetTokenInfo (try?), or when the id is malformed.     *)
Locate(h) ==
  /\ step[h] = "locate"
  /\ \/ \E s \in Slots :
          /\ reader[s] = cert[h].card
          /\ slot' = [slot EXCEPT ![h] = s]
          /\ Goto(h, "open")
          /\ UNCHANGED result
     \/ /\ \E r \in {"not_found", "token_error"} : Throw(h, r)
        /\ UNCHANGED slot
  /\ UNCHANGED <<cards, login, left, request, session, signer, swapped>>

OpenSession(h) ==
  /\ step[h] = "open"
  /\ \/ /\ reader[slot[h]] # NoCard
        /\ session' = [session EXCEPT ![h] = reader[slot[h]]]
        /\ Goto(h, "login")
        /\ UNCHANGED result
     \/ Throw(h, "token_error") /\ UNCHANGED session
  /\ UNCHANGED <<cards, login, left, request, slot, signer, swapped>>

Alive(h)    == session[h] # NoCard
LoggedIn(h) == <<h, slot[h]>> \in login

(* CKR_USER_ALREADY_LOGGED_IN: taken for success, the PIN unexamined.      *)
LoginAlready(h) ==
  /\ step[h] = "login" /\ Alive(h) /\ LoggedIn(h)
  /\ Goto(h, "find")
  /\ UNCHANGED <<cards, login, left, request, call, result>>

LoginOk(h) ==
  /\ step[h] = "login" /\ Alive(h) /\ ~LoggedIn(h)
  /\ pin[h] = session[h] /\ tries[session[h]] > 0 /\ session[h] \notin Blank
  /\ tries' = [tries EXCEPT ![session[h]] = MaxTries]
  /\ login' = login \cup {<<h, slot[h]>>}
  /\ Goto(h, "find")
  /\ UNCHANGED <<reader, left, request, call, result>>

(* Mutant: a wrong PIN is tried again instead of being reported.           *)
LoginWrongRetries(h) ==
  /\ step[h] = "login" /\ Alive(h) /\ ~LoggedIn(h)
  /\ pin[h] # session[h] /\ tries[session[h]] > 0
  /\ tries' = [tries EXCEPT ![session[h]] = @ - 1]
  /\ UNCHANGED <<reader, step, login, left, request, call, result>>

(* CKR_PIN_INCORRECT spends a try, and a module may report the last one as *)
(* CKR_PIN_LOCKED; CKR_PIN_LEN_RANGE and CKR_PIN_INVALID spend none.       *)
LoginWrong(h) ==
  /\ step[h] = "login" /\ Alive(h) /\ ~LoggedIn(h)
  /\ pin[h] # session[h] /\ tries[session[h]] > 0 /\ session[h] \notin Blank
  /\ \E rv \in PinFailures \cup {"CKR_PIN_LOCKED"} :
       /\ LoginThrows(h, CodeFrom[rv])
       /\ rv = "CKR_PIN_LOCKED" => tries[session[h]] = 1
       /\ tries' = IF rv \in {"CKR_PIN_INCORRECT", "CKR_PIN_LOCKED"}
                     THEN [tries EXCEPT ![session[h]] = @ - 1] ELSE tries
  /\ UNCHANGED <<reader, login, left, request, call>>

(* A locked card, or one whose PIN was never set.                          *)
LoginLocked(h) ==
  /\ step[h] = "login" /\ Alive(h) /\ ~LoggedIn(h)
  /\ \E rv \in PinLocks :
       /\ IF rv = "CKR_PIN_LOCKED" THEN tries[session[h]] = 0 ELSE session[h] \in Blank
       /\ LoginThrows(h, CodeFrom[rv])
  /\ UNCHANGED <<cards, login, left, request, call>>

(* C_FindObjects for the private key with the certificate's CKA_ID.        *)
FindKey(h) ==
  /\ step[h] = "find" /\ Alive(h)
  /\ \/ cert[h].key /\ Goto(h, "sign") /\ UNCHANGED result
     \/ ~cert[h].key /\ Unwind(h, "no_private_key")
  /\ UNCHANGED <<cards, login, left, request, call>>

(* C_SignInit, C_Sign for the length, C_Sign: the key asks for a login.    *)
Sign(h) ==
  /\ step[h] = "sign" /\ Alive(h) /\ LoggedIn(h)
  /\ signer' = [signer EXCEPT ![h] = session[h]]
  /\ Unwind(h, "signed")
  /\ UNCHANGED <<cards, login, left, request, slot, session, swapped>>

(* Any other CKR_ from a call on the session: a dead session, no login, or *)
(* whatever a module is free to return.                                    *)
Fail(h) ==
  /\ \E rv \in OtherErrors :
       \/ step[h] = "login" /\ LoginThrows(h, CodeFrom[rv])
       \/ step[h] \in {"find", "sign"} /\ Unwind(h, CodeFrom[rv])
  /\ UNCHANGED <<cards, login, left, request, call>>

(* Mutant: loggedIn is reset, but C_Logout is not called.                  *)
LogoutForgotten(h) ==
  /\ step[h] = "logout"
  /\ Goto(h, "close")
  /\ UNCHANGED <<cards, login, left, request, call, result>>

Fails(h, f) == CleanUpMayFail /\ Alive(h) /\ failed' = failed \cup {<<h, slot[h], f>>}

(* logout(): C_Logout, its result unseen.                                  *)
Logout(h) ==
  /\ step[h] = "logout"
  /\ \/ login' = login \ {<<h, slot[h]>>} /\ UNCHANGED failed
     \/ Fails(h, "C_Logout") /\ UNCHANGED login
  /\ Goto(h, "close")
  /\ UNCHANGED <<cards, unclosed, served, request, call, result>>

(* Mutants: no C_CloseSession; a dead session is waited for.               *)
CloseNothing(h) ==
  /\ step[h] = "close"
  /\ session' = [session EXCEPT ![h] = NoCard]
  /\ unclosed' = IF Alive(h) THEN unclosed \cup {<<h, slot[h]>>} ELSE unclosed
  /\ Goto(h, "answer")
  /\ UNCHANGED <<cards, login, failed, served, request, slot, signer, result, swapped>>

CloseIfAlive(h) ==
  /\ step[h] = "close" /\ Alive(h)
  /\ session' = [session EXCEPT ![h] = NoCard]
  /\ login' = login \ {<<h, slot[h]>>}
  /\ Goto(h, "answer")
  /\ UNCHANGED <<cards, left, request, slot, signer, result, swapped>>

(* deinit: the handle is dropped after C_CloseSession, whose result nobody *)
(* looks at.  The last session of a process to be closed ends its login;   *)
(* one that could not be closed stays at the module, and the login with it. *)
Close(h) ==
  /\ step[h] = "close"
  /\ session' = [session EXCEPT ![h] = NoCard]
  /\ \/ /\ login' = IF <<h, slot[h]>> \in unclosed THEN login ELSE login \ {<<h, slot[h]>>}
        /\ UNCHANGED <<unclosed, failed>>
     \/ /\ Fails(h, "C_CloseSession")
        /\ unclosed' = unclosed \cup {<<h, slot[h]>>}
        /\ UNCHANGED login
  /\ Goto(h, "answer")
  /\ UNCHANGED <<cards, served, request, slot, signer, result, swapped>>

(***************************************************************************)
(* The readers, and the process's end.                                     *)
(***************************************************************************)
Remove(s) ==
  /\ reader[s] # NoCard
  /\ reader' = [reader EXCEPT ![s] = NoCard]
  /\ login' = login \ (Hosts \X {s})
  /\ unclosed' = unclosed \ (Hosts \X {s})
  /\ failed' = failed \ (Hosts \X {s} \X CleanUps)
  /\ session' = [h \in Hosts |-> IF slot[h] = s THEN NoCard ELSE session[h]]
  /\ swapped' = swapped \cup {h \in Hosts : step[h] = "open" /\ slot[h] = s}
  /\ UNCHANGED <<tries, step, served, request, slot, signer, result>>

Insert(s, c) ==
  /\ reader[s] = NoCard
  /\ \A t \in Slots : reader[t] # c
  /\ reader' = [reader EXCEPT ![s] = c]
  /\ UNCHANGED <<tries, login, left, step, request, call, result>>

(* A process that is gone leaves nothing at the module, and makes room for *)
(* another.                                                                *)
Gone(h) ==
  /\ login' = login \ ({h} \X Slots)
  /\ unclosed' = unclosed \ ({h} \X Slots)
  /\ failed' = failed \ ({h} \X Slots \X CleanUps)
  /\ served' = served \ {h}

(* leave() at the end of the stream: release(), C_Finalize in it, _exit.   *)
Leave(h) ==
  /\ step[h] = "idle" /\ h \in served
  /\ Gone(h)
  /\ UNCHANGED <<cards, step, request, call, result>>

Kill(h) ==
  /\ step[h] # "idle"
  /\ Gone(h)
  /\ Goto(h, "idle")
  /\ cert' = [cert EXCEPT ![h] = NoCertificate]
  /\ shown' = [shown EXCEPT ![h] = NoCard]
  /\ pin' = [pin EXCEPT ![h] = NoPin]
  /\ slot' = [slot EXCEPT ![h] = NoSlot]
  /\ session' = [session EXCEPT ![h] = NoCard]
  /\ signer' = [signer EXCEPT ![h] = NoCard]
  /\ Resolve(h, "none")
  /\ swapped' = swapped \ {h}
  /\ UNCHANGED cards

Proceed(h) ==
  \/ Reject(h) \/ ShowWindow(h) \/ Locate(h) \/ OpenSession(h)
  \/ LoginAlready(h) \/ LoginOk(h) \/ LoginWrong(h) \/ LoginLocked(h)
  \/ FindKey(h) \/ Sign(h) \/ Fail(h)
  \/ Logout(h) \/ Close(h) \/ Answer(h)

Next ==
  \/ \E h \in Hosts :
       \/ Proceed(h) \/ Cancel(h) \/ Leave(h) \/ Kill(h)
       \/ \E c \in Certificates : Request(h, c)
       \/ \E p \in Cards \cup {WrongPin} : EnterPin(h, p)
  \/ \E s \in Slots : Remove(s) \/ \E c \in Cards : Insert(s, c)

Spec == Init /\ [][Next]_vars

(* Module calls return; nobody has to answer a window or move a card.      *)
FairSpec == Spec /\ \A h \in Hosts : WF_vars(Proceed(h))

-----------------------------------------------------------------------------
(* The PIN is the consent (README, TokenService.sign): whatever card made  *)
(* the signature, its own PIN was typed in this request's window -- not in *)
(* an earlier request's, and not in another process's.                     *)
SignedWithOwnPin == \A h \in Hosts : signer[h] # NoCard => pin[h] = signer[h]

(* A login lives inside one request, opened by the PIN of the card in that *)
(* slot -- or it was left behind: C_Logout failed, and C_CloseSession, the *)
(* other way to end it, has failed too or is about to be called.           *)
FailedTwice(h, s) == \A f \in CleanUps : <<h, s, f>> \in failed

LoginScoped ==
  \A h \in Hosts, s \in Slots : <<h, s>> \in login =>
    /\ reader[s] # NoCard
    /\ \/ slot[h] = s /\ pin[h] = reader[s] /\ step[h] \in {"find", "sign", "logout"}
       \/ slot[h] = s /\ step[h] = "close" /\ <<h, s, "C_Logout">> \in failed
       \/ FailedTwice(h, s)

(* A process kept for several requests signs with the PIN of the request   *)
(* too, unless both ways to end an earlier login have failed at the card:  *)
(* after a failed C_Logout alone, C_CloseSession has logged out.           *)
OwnPinUnlessFailedTwice ==
  [][\A h \in Hosts : signer'[h] \notin {signer[h], NoCard}
       => pin[h] = signer'[h] \/ FailedTwice(h, slot[h])]_vars

(* The signature is the asked-for card's, unless the card in the slot was  *)
(* changed after locate() had read its serial.                             *)
SignedBySelected ==
  \A h \in Hosts : signer[h] # NoCard => signer[h] = cert[h].card \/ h \in swapped

(* A card loses a try only to a PIN a person typed in an open request on   *)
(* it, never more than one at a time, and the answer says so: the request  *)
(* ends in pin_failed or pin_locked, never in a retry.                     *)
TrySpentIsAnswered ==
  [][\A c \in Cards : tries'[c] < tries[c] =>
       /\ tries'[c] = tries[c] - 1
       /\ \E h \in Hosts : /\ session[h] = c /\ pin[h] \notin {NoPin, c}
                           /\ result[h] = "none"
                           /\ result'[h] \in {"pin_failed", "pin_locked"}]_vars

(* Once the PIN is typed the request is answered, whatever happens to the  *)
(* card.                                                                   *)
PinTypedAnswered == \A h \in Hosts : step[h] = "locate" ~> step[h] = "idle"

(* One window, one PIN, one signature by that PIN's card: the request as   *)
(* the person sees it, whatever goes on at the card (README, sign).        *)
Phase(st) ==
  CASE st \in {"locate", "open", "login", "find", "sign"} -> "working"
    [] st \in {"logout", "close", "answer"} -> "answered"
    [] OTHER -> st

Contract ==
  INSTANCE SigningContract WITH
    phase <- [h \in Hosts |-> Phase(step[h])],
    Failures <- Results \ {"none", "signed"}

KeepsContract == Contract!Spec

-----------------------------------------------------------------------------
(* What the documentation or a check says and the code does not do.        *)

(* signbridge-check: an unknown certificate id fails before anyone is      *)
(* asked for a PIN.                                                        *)
KnownBeforePin ==
  [][\A h \in Hosts : step[h] = "asked" /\ step'[h] = "window"
       => \E s \in Slots : reader[s] = cert[h].card]_vars

(* Consent: show what is about to be signed, and with which token -- a     *)
(* window that names a card does not collect a PIN for another one.        *)
ShownIsTried ==
  [][\A h \in Hosts : step[h] = "window" /\ step'[h] = "locate"
       => shown[h] \in {NoCard, cert[h].card}]_vars

(* Session.login: the PIN exists in this process for the length of one C   *)
(* call and no longer.                                                     *)
PinForOneCall == \A h \in Hosts : pin[h] # NoPin => step[h] = "login"

(* protocol.md: no_token is the answer when nothing usable is in a reader. *)
NoTokenReported ==
  [][\A h \in Hosts : result[h] = "none" /\ result'[h] = "not_found" => Occupied # {}]_vars

(* protocol.md: pin_locked means the card has locked itself; the code says *)
(* it of a card whose PIN was never set, too.                              *)
PinLockedMeansLocked ==
  [][\A h \in Hosts : result[h] = "none" /\ result'[h] = "pin_locked"
       => tries'[session[h]] = 0]_vars
=============================================================================

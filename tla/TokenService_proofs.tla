------------------------ MODULE TokenService_proofs ------------------------
(***************************************************************************)
(* Proofs about TokenService, for any processes, slots, cards and number   *)
(* of tries.                                                               *)
(*                                                                         *)
(* SessionInv says what an open session reaches and needs nothing of the   *)
(* module.  LoginInv says whose PIN stands behind a login, or which calls  *)
(* have failed to end it; it rests on SessionInv and on the module's own   *)
(* count of what was left open.  PinInv says it of a signature, where no   *)
(* failure outlives the process that met it.  TypedInv carries the action  *)
(* properties: a request at the card has a typed PIN and no answer yet.    *)
(***************************************************************************)
EXTENDS TokenService, TLAPS

(* No session outlives its card, and no two kinds of card share a slot.    *)
SessionReachesReader ==
  \A h \in Hosts : session[h] # NoCard => slot[h] \in Slots /\ session[h] = reader[slot[h]]

SelectedInv(h) ==
  /\ step[h] # "idle" => cert[h] \in Certificates
  /\ step[h] = "open" =>
       slot[h] \in Slots /\ (reader[slot[h]] = cert[h].card \/ h \in swapped)
  /\ session[h] # NoCard => session[h] = cert[h].card \/ h \in swapped

SessionInv ==
  /\ TypeOK
  /\ SessionReachesReader
  /\ SignedBySelected
  /\ \A h \in Hosts :
       /\ session[h] # NoCard => step[h] \in {"login", "find", "sign", "logout", "close"}
       /\ signer[h] # NoCard => step[h] \in {"logout", "close", "answer"}
       /\ SelectedInv(h)

LoginInv ==
  /\ LoginScoped
  /\ \A h \in Hosts, s \in Slots :
       <<h, s>> \in unclosed => <<h, s, "C_CloseSession">> \in failed

PinInv ==
  /\ SignedWithOwnPin
  /\ \A h \in Hosts, s \in Slots, f \in CleanUps : <<h, s, f>> \in failed =>
       /\ OneShot
       /\ step[h] \in {"close", "answer"} \/ (step[h] = "idle" /\ h \in served)

-----------------------------------------------------------------------------
(* ErrorCode.from, code by code: no code counts as two things.             *)
LEMMA Codes ==
  /\ \A rv \in PinFailures : CodeFrom[rv] = "pin_failed"
  /\ \A rv \in PinLocks : CodeFrom[rv] = "pin_locked"
  /\ \A rv \in OtherErrors : CodeFrom[rv] = "token_error"
BY DEF CodeFrom, ReturnValues, PinFailures, PinLocks, OtherErrors

LEMMA NextSession == SessionInv /\ [Next]_vars => SessionInv'
<1> SUFFICES ASSUME SessionInv, [Next]_vars PROVE SessionInv'
  OBVIOUS
<1> USE CardsAssumption, TriesAssumption
    DEF SessionInv, SelectedInv, TypeOK, SessionReachesReader, SignedBySelected,
        Steps, Results, CleanUps, Goto, Resolve, Throw, LoginThrows, Unwind, Alive, Fails,
        Gone, cards, left, request, call
<1>1. ASSUME NEW h \in Hosts, NEW c \in Certificates, Request(h, c) PROVE SessionInv'
  BY <1>1 DEF Request
<1>2. ASSUME NEW h \in Hosts, Reject(h) \/ Cancel(h) PROVE SessionInv'
  BY <1>2 DEF Reject, Cancel
<1>3. ASSUME NEW h \in Hosts, ShowWindow(h) PROVE SessionInv'
  BY <1>3 DEF ShowWindow
<1>4. ASSUME NEW h \in Hosts, NEW p \in Cards \cup {WrongPin}, EnterPin(h, p)
      PROVE  SessionInv'
  BY <1>4 DEF EnterPin
<1>5. ASSUME NEW h \in Hosts, Answer(h) PROVE SessionInv'
  BY <1>5 DEF Answer
<1>6. ASSUME NEW h \in Hosts, Locate(h) PROVE SessionInv'
  BY <1>6 DEF Locate
<1>7. ASSUME NEW h \in Hosts, OpenSession(h) PROVE SessionInv'
  BY <1>7 DEF OpenSession
<1>8. ASSUME NEW h \in Hosts, LoginAlready(h) \/ LoginLocked(h) \/ FindKey(h) \/ Fail(h)
      PROVE  SessionInv'
  BY <1>8, Codes DEF LoginAlready, LoginLocked, FindKey, Fail
<1>9. ASSUME NEW h \in Hosts, LoginOk(h) PROVE SessionInv'
  BY <1>9 DEF LoginOk
<1>10. ASSUME NEW h \in Hosts, LoginWrong(h) PROVE SessionInv'
  BY <1>10, Codes DEF LoginWrong, PinLocks
<1>11. ASSUME NEW h \in Hosts, Sign(h) PROVE SessionInv'
  BY <1>11 DEF Sign
<1>12. ASSUME NEW h \in Hosts, Logout(h) PROVE SessionInv'
  <2>1. slot[h] \in Slots \/ failed' = failed
    BY <1>12 DEF Logout
  <2> QED BY <1>12, <2>1 DEF Logout
<1>13. ASSUME NEW h \in Hosts, Close(h) PROVE SessionInv'
  <2>1. slot[h] \in Slots \/ UNCHANGED <<unclosed, failed>>
    BY <1>13 DEF Close
  <2> QED BY <1>13, <2>1 DEF Close
<1>14. ASSUME NEW h \in Hosts, Leave(h) \/ Kill(h) PROVE SessionInv'
  <2>1. CASE Leave(h)
    BY <2>1 DEF Leave
  <2>2. CASE Kill(h)
    <3>1. TypeOK'
      BY <2>2 DEF Kill
    <3>2. SessionReachesReader' /\ SignedBySelected'
      BY <2>2 DEF Kill
    <3> QED BY <2>2, <3>1, <3>2 DEF Kill
  <2> QED BY <1>14, <2>1, <2>2
<1>15. ASSUME NEW s \in Slots, Remove(s) PROVE SessionInv'
  BY <1>15 DEF Remove
<1>16. ASSUME NEW s \in Slots, NEW c \in Cards, Insert(s, c) PROVE SessionInv'
  BY <1>16 DEF Insert, Certificates
<1>17. CASE UNCHANGED vars
  BY <1>17 DEF vars
<1> QED
  BY <1>1, <1>2, <1>3, <1>4, <1>5, <1>6, <1>7, <1>8, <1>9, <1>10, <1>11, <1>12,
     <1>13, <1>14, <1>15, <1>16, <1>17 DEF Next, Proceed

LEMMA SessionInvariant == Spec => []SessionInv
<1>1. Init => SessionInv
  <2> SUFFICES ASSUME Init PROVE SessionInv
    OBVIOUS
  <2>1. MaxTries \in 0..MaxTries
    BY TriesAssumption
  <2> QED BY <2>1 DEF Init, SessionInv, SelectedInv, TypeOK, SessionReachesReader,
                      SignedBySelected, Steps, Results
<1> QED BY <1>1, NextSession, PTL DEF Spec

(* Every variable has its type in every reachable state.                   *)
THEOREM TypeCorrect == Spec => []TypeOK
<1>1. SessionInv => TypeOK
  BY DEF SessionInv
<1> QED BY <1>1, SessionInvariant, PTL

(* The card that signs is the one the certificate id names, or the card in *)
(* the slot was changed between locate() and openSession().                *)
THEOREM SelectedCardSigns == Spec => []SignedBySelected
<1>1. SessionInv => SignedBySelected
  BY DEF SessionInv
<1> QED BY <1>1, SessionInvariant, PTL

-----------------------------------------------------------------------------
(* A step that touches no login, taken before there can be one of its own  *)
(* or while it is in use.                                                  *)
LEMMA LoginFrame ==
  ASSUME LoginInv, NEW h \in Hosts,
         UNCHANGED <<reader, login, unclosed, failed>>,
         \A g \in Hosts \ {h} : slot'[g] = slot[g] /\ pin'[g] = pin[g] /\ step'[g] = step[g],
         \/ step[h] \notin {"find", "sign", "logout", "close"}
         \/ /\ step[h] \in {"find", "sign"} /\ step'[h] \in {"find", "sign", "logout"}
            /\ slot'[h] = slot[h] /\ pin'[h] = pin[h]
  PROVE  LoginInv'
<1> USE DEF LoginInv, LoginScoped, FailedTwice
<1>1. ASSUME NEW g \in Hosts \ {h}, NEW s \in Slots, <<g, s>> \in login'
      PROVE  /\ reader'[s] # NoCard
             /\ \/ slot'[g] = s /\ pin'[g] = reader'[s] /\ step'[g] \in {"find", "sign", "logout"}
                \/ slot'[g] = s /\ step'[g] = "close" /\ <<g, s, "C_Logout">> \in failed'
                \/ FailedTwice(g, s)'
  BY <1>1
<1>2. ASSUME NEW s \in Slots, <<h, s>> \in login'
      PROVE  /\ reader'[s] # NoCard
             /\ \/ slot'[h] = s /\ pin'[h] = reader'[s] /\ step'[h] \in {"find", "sign", "logout"}
                \/ FailedTwice(h, s)'
  BY <1>2
<1>3. \A g \in Hosts, s \in Slots : <<g, s>> \in unclosed' => <<g, s, "C_CloseSession">> \in failed'
  OBVIOUS
<1> QED BY <1>1, <1>2, <1>3

LEMMA NextLogin == ASSUME SessionInv, LoginInv, [Next]_vars PROVE LoginInv'
<1> USE CardsAssumption
    DEF LoginInv, LoginScoped, FailedTwice, SessionInv, TypeOK, CleanUps,
        Goto, Resolve, Throw, LoginThrows, Unwind, Gone, cards, left, request, call
<1>1. ASSUME NEW h \in Hosts, Locate(h) \/ OpenSession(h) \/ FindKey(h) \/ Sign(h) \/ Fail(h)
      PROVE  LoginInv'
  <2> HIDE DEF LoginInv, LoginScoped, FailedTwice
  <2>1. /\ UNCHANGED <<reader, login, unclosed, failed, pin>>
        /\ \A g \in Hosts \ {h} : slot'[g] = slot[g] /\ step'[g] = step[g]
    BY <1>1 DEF Locate, OpenSession, FindKey, Sign, Fail
  <2>2. \/ step[h] \notin {"find", "sign", "logout", "close"}
        \/ /\ step[h] \in {"find", "sign"} /\ step'[h] \in {"find", "sign", "logout"}
           /\ slot'[h] = slot[h]
    BY <1>1 DEF Locate, OpenSession, FindKey, Sign, Fail
  <2> QED BY <2>1, <2>2, LoginFrame
<1>2. ASSUME NEW h \in Hosts, Reject(h) \/ ShowWindow(h) \/ Cancel(h) PROVE LoginInv'
  <2> HIDE DEF LoginInv, LoginScoped, FailedTwice
  <2>1. /\ UNCHANGED <<reader, login, unclosed, failed, pin, slot>> /\ step[h] \in {"asked", "window"}
        /\ \A g \in Hosts \ {h} : step'[g] = step[g]
    BY <1>2 DEF Reject, ShowWindow, Cancel
  <2> QED BY <2>1, LoginFrame
<1>3. ASSUME NEW h \in Hosts, NEW p \in Cards \cup {WrongPin}, EnterPin(h, p)
      PROVE  LoginInv'
  <2> HIDE DEF LoginInv, LoginScoped, FailedTwice
  <2>1. /\ UNCHANGED <<reader, login, unclosed, failed, slot>> /\ step[h] = "window"
        /\ \A g \in Hosts \ {h} : step'[g] = step[g] /\ pin'[g] = pin[g]
    BY <1>3 DEF EnterPin
  <2> QED BY <2>1, LoginFrame
<1>4. ASSUME NEW h \in Hosts, Answer(h) PROVE LoginInv'
  <2> HIDE DEF LoginInv, LoginScoped, FailedTwice
  <2>1. /\ UNCHANGED <<reader, login, unclosed, failed>> /\ step[h] = "answer"
        /\ \A g \in Hosts \ {h} : step'[g] = step[g] /\ pin'[g] = pin[g] /\ slot'[g] = slot[g]
    BY <1>4 DEF Answer
  <2> QED BY <2>1, LoginFrame
<1>5. ASSUME NEW h \in Hosts, NEW c \in Certificates, Request(h, c) PROVE LoginInv'
  <2> HIDE DEF LoginInv, LoginScoped, FailedTwice
  <2>1. /\ UNCHANGED <<reader, login, unclosed, failed, pin, slot>> /\ step[h] = "idle"
        /\ \A g \in Hosts \ {h} : step'[g] = step[g]
    BY <1>5 DEF Request
  <2> QED BY <2>1, LoginFrame
<1>6. ASSUME NEW h \in Hosts, LoginAlready(h) \/ LoginLocked(h) \/ LoginWrong(h)
      PROVE  LoginInv'
  <2> HIDE DEF LoginInv, LoginScoped, FailedTwice
  <2>1. /\ UNCHANGED <<reader, login, unclosed, failed, pin, slot>> /\ step[h] = "login"
        /\ \A g \in Hosts \ {h} : step'[g] = step[g]
    BY <1>6 DEF LoginAlready, LoginLocked, LoginWrong
  <2> QED BY <2>1, LoginFrame
<1>7. ASSUME NEW h \in Hosts, LoginOk(h) PROVE LoginInv'
  BY <1>7 DEF LoginOk, Alive, SessionReachesReader
<1>8. ASSUME NEW h \in Hosts, Logout(h) PROVE LoginInv'
  BY <1>8 DEF Logout, Fails
<1>9. ASSUME NEW h \in Hosts, Close(h) PROVE LoginInv'
  BY <1>9, ZenonT(30) DEF Close, Fails
<1>10. ASSUME NEW h \in Hosts, Leave(h) \/ Kill(h) PROVE LoginInv'
  <2>1. CASE Leave(h)
    BY <2>1 DEF Leave
  <2>2. CASE Kill(h)
    <3> HIDE DEF LoginInv, LoginScoped, FailedTwice
    <3>1. /\ \A g \in Hosts, s \in Slots :
               /\ <<g, s>> \in login' => g # h /\ <<g, s>> \in login
               /\ <<g, s>> \in unclosed' => g # h /\ <<g, s>> \in unclosed
               /\ g # h => \A f : <<g, s, f>> \in failed => <<g, s, f>> \in failed'
          /\ UNCHANGED reader
          /\ \A g \in Hosts : g # h => slot'[g] = slot[g] /\ pin'[g] = pin[g] /\ step'[g] = step[g]
      BY <2>2 DEF Kill
    <3> QED BY <3>1 DEF LoginInv, LoginScoped, FailedTwice
  <2> QED BY <1>10, <2>1, <2>2
<1>11. ASSUME NEW s \in Slots, Remove(s) PROVE LoginInv'
  BY <1>11 DEF Remove
<1>12. ASSUME NEW s \in Slots, NEW c \in Cards, Insert(s, c) PROVE LoginInv'
  BY <1>12 DEF Insert
<1>13. CASE UNCHANGED vars
  BY <1>13 DEF vars
<1> QED
  BY <1>1, <1>2, <1>3, <1>4, <1>5, <1>6, <1>7, <1>8, <1>9, <1>10, <1>11, <1>12, <1>13
  DEF Next, Proceed

LEMMA LoginInvariant == Spec => []LoginInv
<1>1. Init => LoginInv
  BY DEF Init, LoginInv, LoginScoped
<1>2. SessionInv /\ LoginInv /\ [Next]_vars => LoginInv'
  BY NextLogin
<1> QED BY <1>1, <1>2, SessionInvariant, PTL DEF Spec

(* A login lives inside the request whose PIN opened it, or every call     *)
(* that should have ended it has failed.                                   *)
THEOREM LoginsAreScoped == Spec => []LoginScoped
<1>1. LoginInv => LoginScoped
  BY DEF LoginInv
<1> QED BY <1>1, LoginInvariant, PTL

(* What stands behind a signature that is made now.                        *)
LEMMA SignsWithPin ==
  ASSUME SessionInv, LoginInv, NEW h \in Hosts, Sign(h)
  PROVE  /\ session[h] \in Cards
         /\ pin[h] = session[h] \/ FailedTwice(h, slot[h])
BY ZenonT(30) DEF Sign, Alive, LoggedIn, SessionInv, TypeOK, SessionReachesReader, LoginInv, LoginScoped

LEMMA StepSigns ==
  ASSUME SessionInv, LoginInv, [Next]_vars,
         NEW h \in Hosts, signer'[h] \notin {signer[h], NoCard}
  PROVE  pin[h] = signer'[h] \/ FailedTwice(h, slot[h])
<1>1. ASSUME NEW g \in Hosts, Sign(g)
      PROVE  pin[h] = signer'[h] \/ FailedTwice(h, slot[h])
  <2>1. h = g /\ signer'[h] = session[h]
    BY <1>1 DEF Sign, SessionInv, TypeOK
  <2> QED BY <1>1, <2>1, SignsWithPin
<1>2. CASE UNCHANGED signer
  BY <1>2
<1>3. ASSUME NEW g \in Hosts, Answer(g) \/ Kill(g) PROVE FALSE
  BY <1>3 DEF Answer, Kill, SessionInv, TypeOK
<1> QED
  BY <1>1, <1>2, <1>3, ZenonT(30)
  DEF Next, Proceed, vars, call, Request, Reject, ShowWindow, Cancel, EnterPin, Locate,
      OpenSession, LoginAlready, LoginOk, LoginWrong, LoginLocked, FindKey, Fail, Logout,
      Close, Leave, Remove, Insert

(* Even a process that serves many requests signs with the PIN of the      *)
(* request, unless C_Logout and C_CloseSession have both failed there.     *)
THEOREM OwnPinSigns == Spec => OwnPinUnlessFailedTwice
<1>1. SessionInv /\ LoginInv /\ [Next]_vars
        => [\A h \in Hosts : signer'[h] \notin {signer[h], NoCard}
              => pin[h] = signer'[h] \/ FailedTwice(h, slot[h])]_vars
  BY StepSigns
<1> QED BY <1>1, SessionInvariant, LoginInvariant, PTL DEF Spec, OwnPinUnlessFailedTwice

-----------------------------------------------------------------------------
LEMMA OwnPin ==
  ASSUME SessionInv, LoginInv, PinInv, NEW h \in Hosts, Sign(h)
  PROVE  pin[h] = session[h] /\ session[h] \in Cards
<1>1. ~FailedTwice(h, slot[h])
  <2>1. slot[h] \in Slots
    BY DEF Sign, Alive, SessionInv, SessionReachesReader
  <2> QED BY <2>1 DEF Sign, FailedTwice, PinInv, CleanUps
<1> QED BY <1>1, SignsWithPin

LEMMA NextPin ==
  ASSUME CleanUpMayFail => OneShot, SessionInv, LoginInv, PinInv, [Next]_vars
  PROVE  PinInv'
<1> USE CardsAssumption
    DEF PinInv, SignedWithOwnPin, SessionInv, TypeOK, CleanUps,
        Goto, Resolve, Throw, LoginThrows, Unwind, Gone, cards, left, request, call
<1>1. ASSUME NEW h \in Hosts, NEW c \in Certificates, Request(h, c) PROVE PinInv'
  BY <1>1 DEF Request
<1>2. ASSUME NEW h \in Hosts, Reject(h) \/ ShowWindow(h) \/ Cancel(h) PROVE PinInv'
  BY <1>2 DEF Reject, ShowWindow, Cancel
<1>3. ASSUME NEW h \in Hosts, NEW p \in Cards \cup {WrongPin}, EnterPin(h, p)
      PROVE  PinInv'
  BY <1>3 DEF EnterPin
<1>4. ASSUME NEW h \in Hosts, Answer(h) PROVE PinInv'
  BY <1>4 DEF Answer
<1>5. ASSUME NEW h \in Hosts, Locate(h) \/ OpenSession(h) PROVE PinInv'
  BY <1>5 DEF Locate, OpenSession
<1>6. ASSUME NEW h \in Hosts,
             \/ LoginAlready(h) \/ LoginOk(h) \/ LoginWrong(h) \/ LoginLocked(h)
             \/ FindKey(h) \/ Fail(h)
      PROVE  PinInv'
  BY <1>6 DEF LoginAlready, LoginOk, LoginWrong, LoginLocked, FindKey, Fail
<1>7. ASSUME NEW h \in Hosts, Sign(h) PROVE PinInv'
  BY <1>7, OwnPin DEF Sign
<1>8. ASSUME NEW h \in Hosts, Logout(h) PROVE PinInv'
  BY <1>8 DEF Logout, Fails
<1>9. ASSUME NEW h \in Hosts, Close(h) PROVE PinInv'
  BY <1>9 DEF Close, Fails
<1>10. ASSUME NEW h \in Hosts, Leave(h) \/ Kill(h) PROVE PinInv'
  BY <1>10 DEF Leave, Kill
<1>11. ASSUME NEW s \in Slots, Remove(s) PROVE PinInv'
  BY <1>11 DEF Remove
<1>12. ASSUME NEW s \in Slots, NEW c \in Cards, Insert(s, c) PROVE PinInv'
  BY <1>12 DEF Insert
<1>13. CASE UNCHANGED vars
  BY <1>13 DEF vars
<1> QED
  BY <1>1, <1>2, <1>3, <1>4, <1>5, <1>6, <1>7, <1>8, <1>9, <1>10, <1>11, <1>12,
     <1>13 DEF Next, Proceed

LEMMA PinInvariant == ASSUME CleanUpMayFail => OneShot PROVE Spec => []PinInv
<1>1. Init => PinInv
  BY DEF Init, PinInv, SignedWithOwnPin
<1>2. SessionInv /\ LoginInv /\ PinInv /\ [Next]_vars => PinInv'
  BY NextPin
<1> QED BY <1>1, <1>2, SessionInvariant, LoginInvariant, PTL DEF Spec

(* The PIN is the consent: the PIN of the card that signed was typed in    *)
(* this request's window.  A module that fails to clean up is no exception *)
(* as long as a process is sent one request.                               *)
THEOREM PinIsTheConsent ==
  ASSUME CleanUpMayFail => OneShot PROVE Spec => []SignedWithOwnPin
<1>1. PinInv => SignedWithOwnPin
  BY DEF PinInv
<1> QED BY <1>1, PinInvariant, PTL

-----------------------------------------------------------------------------
(* A request on its way to the card has a typed PIN and no result yet.     *)
TypedInv ==
  \A h \in Hosts :
    /\ step[h] \in {"locate", "open", "login", "find", "sign"} => pin[h] # NoPin
    /\ step[h] \notin {"logout", "close", "answer"} => result[h] = "none"

LEMMA NextTyped == ASSUME TypeOK, TypedInv, [Next]_vars PROVE TypedInv'
<1> USE CardsAssumption
    DEF TypedInv, TypeOK, Goto, Resolve, Throw, LoginThrows, Unwind, cards, request, call
<1>1. ASSUME NEW h \in Hosts,
             \/ Reject(h) \/ ShowWindow(h) \/ Locate(h) \/ OpenSession(h)
             \/ Cancel(h) \/ Leave(h) \/ Kill(h) \/ Answer(h)
      PROVE  TypedInv'
  BY <1>1 DEF Reject, ShowWindow, Locate, OpenSession, Cancel, Leave, Kill, Answer
<1>2. ASSUME NEW h \in Hosts, NEW c \in Certificates, Request(h, c) PROVE TypedInv'
  BY <1>2 DEF Request
<1>3. ASSUME NEW h \in Hosts, NEW p \in Cards \cup {WrongPin}, EnterPin(h, p)
      PROVE  TypedInv'
  BY <1>3 DEF EnterPin
<1>4. ASSUME NEW h \in Hosts,
             \/ LoginAlready(h) \/ LoginOk(h) \/ LoginWrong(h) \/ LoginLocked(h)
             \/ FindKey(h) \/ Sign(h) \/ Fail(h) \/ Logout(h) \/ Close(h)
      PROVE  TypedInv'
  BY <1>4 DEF LoginAlready, LoginOk, LoginWrong, LoginLocked, FindKey, Sign, Fail, Logout, Close
<1>5. ASSUME NEW s \in Slots, Remove(s) \/ \E c \in Cards : Insert(s, c) PROVE TypedInv'
  BY <1>5 DEF Remove, Insert
<1>6. CASE UNCHANGED vars
  BY <1>6 DEF vars
<1> QED BY <1>1, <1>2, <1>3, <1>4, <1>5, <1>6 DEF Next, Proceed

LEMMA TypedInvariant == Spec => []TypedInv
<1>1. Init => TypedInv
  BY DEF Init, TypedInv
<1>2. TypeOK /\ TypedInv /\ [Next]_vars => TypedInv'
  BY NextTyped
<1> QED BY <1>1, <1>2, TypeCorrect, PTL DEF Spec

SpentOnce(c) ==
  tries'[c] < tries[c] =>
    /\ tries'[c] = tries[c] - 1
    /\ \E h \in Hosts : /\ session[h] = c /\ pin[h] \notin {NoPin, c}
                        /\ result[h] = "none"
                        /\ result'[h] \in {"pin_failed", "pin_locked"}

LEMMA StepSpends ==
  ASSUME TypeOK, TypedInv, [Next]_vars, NEW c \in Cards PROVE SpentOnce(c)
<1> USE CardsAssumption, TriesAssumption DEF SpentOnce, TypeOK
<1>1. ASSUME NEW h \in Hosts, LoginOk(h) PROVE SpentOnce(c)
  BY <1>1 DEF LoginOk, Alive
<1>2. ASSUME NEW h \in Hosts, LoginWrong(h) PROVE SpentOnce(c)
  <2>1. pin[h] \notin {NoPin, session[h]} /\ result[h] = "none"
    BY <1>2 DEF LoginWrong, TypedInv
  <2>2. session[h] \in Cards /\ result'[h] \in {"pin_failed", "pin_locked"}
    BY <1>2, Codes DEF LoginWrong, Alive, LoginThrows, Resolve, PinLocks
  <2>3. tries' = tries \/ tries' = [tries EXCEPT ![session[h]] = tries[session[h]] - 1]
    BY <1>2, <2>2 DEF LoginWrong
  <2> QED BY <2>1, <2>2, <2>3
<1>3. CASE UNCHANGED tries
  BY <1>3
<1> QED
  BY <1>1, <1>2, <1>3, ZenonT(30)
  DEF Next, Proceed, vars, cards, Request, Reject, ShowWindow, Cancel, EnterPin, Answer,
      Locate, OpenSession, LoginAlready, LoginLocked, FindKey, Sign, Fail, Logout, Close,
      Remove, Insert, Leave, Kill

(* A try is spent on a typed PIN only, one at a time, and the request that *)
(* spent it ends in pin_failed or pin_locked: nothing is tried twice.      *)
THEOREM TriesAreAnswered == Spec => TrySpentIsAnswered
<1>1. TypeOK /\ TypedInv /\ [Next]_vars
        => [\A c \in Cards : tries'[c] < tries[c] =>
              /\ tries'[c] = tries[c] - 1
              /\ \E h \in Hosts : /\ session[h] = c /\ pin[h] \notin {NoPin, c}
                                  /\ result[h] = "none"
                                  /\ result'[h] \in {"pin_failed", "pin_locked"}]_vars
  BY StepSpends DEF SpentOnce
<1> QED BY <1>1, TypeCorrect, TypedInvariant, PTL DEF Spec, TrySpentIsAnswered

-----------------------------------------------------------------------------
(* The refinement: the steps of the contract are the six after which the   *)
(* person's view of the request has changed; the others stutter.           *)
LEMMA ContractInit == Init => Contract!Init
BY DEF Init, Contract!Init, Phase

LEMMA ContractNext ==
  ASSUME SessionInv, LoginInv, PinInv, TypedInv, [Next]_vars
  PROVE  [Contract!Next]_(Contract!vars)
<1> DEFINE View == [h \in Hosts |-> Phase(step[h])]
           Stutters == UNCHANGED Contract!vars
<1> USE DEF SessionInv, TypeOK, Steps
<1>1. ASSUME NEW h \in Hosts, NEW s \in Steps, Goto(h, s)
      PROVE  View' = [View EXCEPT ![h] = Phase(s)]
  BY <1>1 DEF Goto
<1>2. ASSUME NEW h \in Hosts, NEW c \in Certificates, Request(h, c) PROVE Contract!Ask(h)
  BY <1>1, <1>2 DEF Request, Contract!Ask, Contract!Move, Phase, call
<1>3. ASSUME NEW h \in Hosts, ShowWindow(h) PROVE Contract!Show(h)
  BY <1>1, <1>3 DEF ShowWindow, Contract!Show, Contract!Move, Phase, call
<1>4. ASSUME NEW h \in Hosts, NEW p \in Cards \cup {WrongPin}, EnterPin(h, p)
      PROVE  Contract!Type(h, p)
  BY <1>1, <1>4 DEF EnterPin, Contract!Type, Contract!Move, Phase, call
<1>5. ASSUME NEW h \in Hosts, NEW r \in Results \ {"none", "signed"}, 
             Throw(h, r) \/ LoginThrows(h, r) \/ Unwind(h, r),
             step[h] \notin {"idle", "logout", "close", "answer"}, UNCHANGED <<pin, signer>>
      PROVE  Contract!Fail(h, r)
  BY <1>1, <1>5 DEF Throw, LoginThrows, Unwind, Resolve, Contract!Fail, Contract!Move, Phase
<1>6. ASSUME NEW h \in Hosts, Sign(h) PROVE Contract!Sign(h)
  <2>1. pin[h] = session[h] /\ session[h] \in Cards
    BY <1>6, OwnPin
  <2> QED
    BY <1>1, <1>6, <2>1
    DEF Sign, Unwind, Resolve, Contract!Sign, Contract!Move, Phase, request
<1>7. ASSUME NEW h \in Hosts, Answer(h) \/ Kill(h) PROVE Contract!End(h)
  BY <1>1, <1>7 DEF Answer, Kill, Resolve, Contract!End, Phase
<1>8. ASSUME NEW h \in Hosts, NEW s \in Steps, Goto(h, s), Phase(s) = Phase(step[h]),
             UNCHANGED <<pin, signer, result>>
      PROVE  Stutters
  <2>1. \A g \in Hosts : Phase(step'[g]) = Phase(step[g])
    BY <1>8 DEF Goto
  <2>2. View' = View
    BY <2>1
  <2> QED BY <1>8, <2>2 DEF Contract!vars
<1>9. ASSUME NEW h \in Hosts, Locate(h) \/ OpenSession(h)
      PROVE  Stutters \/ \E r \in Results \ {"none", "signed"} : Contract!Fail(h, r)
  <2>1. CASE \E s \in {"open", "login"} : Goto(h, s) /\ UNCHANGED result
    BY <1>8, <1>9, <2>1 DEF Locate, OpenSession, Phase, request
  <2>2. CASE \E r \in {"not_found", "token_error"} : Throw(h, r)
    BY <1>5, <1>9, <2>2 DEF Locate, OpenSession, Results, request
  <2> QED BY <1>9, <2>1, <2>2 DEF Locate, OpenSession
<1>10. ASSUME NEW h \in Hosts, \/ LoginAlready(h) \/ LoginOk(h) \/ FindKey(h)
                                \/ Logout(h) \/ Close(h)
       PROVE  Stutters \/ \E r \in Results \ {"none", "signed"} : Contract!Fail(h, r)
  <2>1. CASE \E s \in {"find", "sign", "close", "answer"} :
               Goto(h, s) /\ Phase(s) = Phase(step[h]) /\ UNCHANGED result
    BY <1>8, <1>10, <2>1 DEF LoginAlready, LoginOk, FindKey, Logout, Close, request, call
  <2>2. CASE Unwind(h, "no_private_key") /\ FindKey(h)
    BY <1>5, <2>2 DEF FindKey, Results, request, call
  <2> QED BY <1>10, <2>1, <2>2 DEF LoginAlready, LoginOk, FindKey, Logout, Close, Phase
<1>11. ASSUME NEW h \in Hosts,
              Reject(h) \/ Cancel(h) \/ LoginWrong(h) \/ LoginLocked(h) \/ Fail(h)
       PROVE  \E r \in Results \ {"none", "signed"} : Contract!Fail(h, r)
  <2>1. CASE \E r \in {"bad_request", "token_error", "refused"} : Throw(h, r)
    BY <1>5, <1>11, <2>1
    DEF Reject, Cancel, LoginWrong, LoginLocked, Fail, Results, request, call
  <2>2. CASE \E r \in {"pin_failed", "pin_locked", "token_error"} :
               LoginThrows(h, r) \/ Unwind(h, r)
    BY <1>5, <1>11, <2>2
    DEF Reject, Cancel, LoginWrong, LoginLocked, Fail, Results, request, call
  <2> QED
    BY <1>11, <2>1, <2>2, Codes
    DEF Reject, Cancel, LoginWrong, LoginLocked, Fail, Throw, PinLocks
<1>12. CASE \/ \E s \in Slots : Remove(s) \/ \E c \in Cards : Insert(s, c)
            \/ \E h \in Hosts : Leave(h)
            \/ UNCHANGED vars
  BY <1>12 DEF Leave, Remove, Insert, vars, Contract!vars, request, call
<1> QED
  BY <1>2, <1>3, <1>4, <1>6, <1>7, <1>9, <1>10, <1>11, <1>12
  DEF Next, Proceed, Contract!Next

(* Every behaviour of the code, seen through the window, is one of the     *)
(* contract: at most one PIN per request, at most one signature per PIN,   *)
(* by the card whose PIN it is.                                            *)
THEOREM ContractIsKept ==
  ASSUME CleanUpMayFail => OneShot PROVE Spec => KeepsContract
<1>1. SessionInv /\ LoginInv /\ PinInv /\ TypedInv /\ [Next]_vars => [Contract!Next]_(Contract!vars)
  BY ContractNext
<1> QED
  BY <1>1, ContractInit, SessionInvariant, LoginInvariant, PinInvariant, TypedInvariant, PTL
  DEF Spec, KeepsContract, Contract!Spec
=============================================================================

------------------------------- MODULE Listing -------------------------------
(***************************************************************************)
(* What a page is told of the cards: the tokens of hello and the rows of   *)
(* listCertificates, both gathered call by call from slots whose cards     *)
(* come and go meanwhile.  One step is one call into the module; the calls *)
(* that read one object are one step.  A slot that fails before its        *)
(* session is open is skipped; an error after that ends the listing.       *)
(***************************************************************************)
EXTENDS Cryptoki

CONSTANT NoSlot
ASSUME NoSlotAssumption == NoSlot \notin Slots

VARIABLES
  pc,       \* where the request is
  request,  \* "hello" or "list"
  room,     \* the length C_GetSlotList gave
  pending,  \* slots usableSlots() has still to filter
  usable,   \* slots it has let through and the loop has not visited
  at,       \* the slot the loop is at
  info,     \* the card whose token info it holds
  class,    \* the class of the search
  found,    \* objects found and not read yet
  keys,     \* publicKeyIds
  tokens,   \* the cards of a hello answer
  rows,     \* the certificates of a listCertificates answer
  result,   \* "none", "ok" or "token_error"
  unclosed, \* history: unclosed[s]: sessions C_CloseSession failed to close in s
  steady,   \* history: slots that kept their card and answered every call
  swapped   \* history: slots whose card changed before the session was open

answer == <<tokens, rows, result>>
search == <<class, found, keys>>
slots  == <<room, pending, usable, at, info>>
vars   == <<reader, sessions, session, active, left, pc, request, room, pending,
            usable, at, info, class, found, keys, tokens, rows, result,
            unclosed, steady, swapped>>

Row == [serial : Cards, owner : Cards, object : Object, hasPrivateKey : BOOLEAN]

InSession == {"init", "page", "read"}

TypeOK ==
  /\ CryptokiTypeOK
  /\ pc \in {"idle", "count", "fetch", "slots", "open", "reply"} \cup InSession
  /\ request \in {"hello", "list"}
  /\ room \in Nat
  /\ pending \subseteq Slots /\ usable \subseteq Slots
  /\ at \in Slots \cup {NoSlot}
  /\ info \in Cards \cup {NoCard}
  /\ class \in Classes
  /\ found \in Seq(Object)
  /\ keys \subseteq Ids
  /\ tokens \in Seq(Cards)
  /\ rows \in Seq(Row)
  /\ result \in {"none", "ok", "token_error"}
  /\ unclosed \in [Slots -> Nat]
  /\ steady \subseteq Slots /\ swapped \subseteq Slots

Init ==
  /\ CryptokiInit
  /\ pc = "idle" /\ request = "hello" /\ room = 0 /\ pending = {} /\ usable = {}
  /\ at = NoSlot /\ info = NoCard /\ class = "public_key" /\ found = <<>>
  /\ keys = {} /\ tokens = <<>> /\ rows = <<>> /\ result = "none"
  /\ unclosed = [s \in Slots |-> 0] /\ steady = Slots /\ swapped = {}

Goto(there) == pc' = there
Blame(s)    == steady' = steady \ {s}
Least(s, S) == s \in S /\ \A t \in S : s <= t

(***************************************************************************)
(* RequestHandler.hello and listCertificates.                              *)
(***************************************************************************)
Request(r) ==
  /\ pc = "idle"
  /\ request' = r
  /\ steady' = Slots
  /\ Goto("count")
  /\ UNCHANGED <<module, slots, search, answer, unclosed, swapped>>

(* An error reaches the handler: hello says there is no card, a listing is *)
(* answered token_error and loses the rows it had.                         *)
GiveUp ==
  /\ Goto("reply")
  /\ tokens' = <<>> /\ rows' = <<>>
  /\ result' = IF request = "hello" THEN "ok" ELSE "token_error"

Reply ==
  /\ pc = "reply"
  /\ Goto("idle")
  /\ room' = 0 /\ pending' = {} /\ usable' = {} /\ at' = NoSlot /\ info' = NoCard
  /\ class' = "public_key" /\ found' = <<>> /\ keys' = {}
  /\ tokens' = <<>> /\ rows' = <<>> /\ result' = "none"
  /\ steady' = Slots /\ swapped' = {}
  /\ UNCHANGED <<module, request, unclosed>>

(***************************************************************************)
(* PKCS11Module.usableSlots.                                               *)
(***************************************************************************)
(* No module, or C_GetSlotList fails: no slot is to blame for it.          *)
ModuleFails ==
  /\ pc \in {"count", "fetch"}
  /\ GiveUp
  /\ steady' = {}
  /\ UNCHANGED <<module, request, slots, search, swapped, unclosed>>

Count ==
  /\ pc = "count"
  /\ C_GetSlotListLength(room')
  /\ \/ room' > 0 /\ Goto("fetch") /\ UNCHANGED result
     \/ room' = 0 /\ Goto("reply") /\ result' = "ok"
  /\ UNCHANGED <<module, request, pending, usable, at, info, search, tokens,
                 rows, steady, swapped, unclosed>>

(* Mutant: room for one more than is needed is asked for.                  *)
FetchStrictly ==
  /\ pc = "fetch"
  /\ \/ /\ Cardinality(Present) < room /\ pending' = Present
        /\ Goto("slots")
        /\ UNCHANGED answer
     \/ Cardinality(Present) >= room /\ GiveUp /\ UNCHANGED pending
  /\ UNCHANGED <<module, request, room, usable, at, info, search, steady, swapped, unclosed>>

(* More slots than there were a moment ago: CKR_BUFFER_TOO_SMALL.          *)
Fetch ==
  /\ pc = "fetch"
  /\ \/ /\ C_GetSlotList(room, pending')
        /\ Goto("slots")
        /\ UNCHANGED answer
     \/ Cardinality(Present) > room /\ GiveUp /\ UNCHANGED pending
  /\ UNCHANGED <<module, request, room, usable, at, info, search, steady, swapped, unclosed>>

(* A slot is let through if it answers C_GetTokenInfo with a token that is *)
(* initialised.                                                            *)
Filter(s) ==
  /\ pc = "slots" /\ Least(s, pending)
  /\ pending' = pending \ {s}
  /\ \/ \E c \in Initialized :
          C_GetTokenInfo(s, c) /\ usable' = usable \cup {s} /\ UNCHANGED steady
     \/ reader[s] \notin Initialized /\ UNCHANGED <<usable, steady>>
     \/ Blame(s) /\ UNCHANGED usable
  /\ UNCHANGED <<module, pc, request, room, at, info, search, answer, swapped, unclosed>>

(***************************************************************************)
(* The loops of tokens() and listCertificates() over the usable slots.     *)
(***************************************************************************)
(* Mutant: a slot that does not answer is left for later.                  *)
SkipForNow(s) ==
  /\ pc = "slots" /\ pending = {} /\ Least(s, usable)
  /\ Blame(s)
  /\ UNCHANGED <<module, pc, request, slots, search, answer, swapped, unclosed>>

(* try? module.tokenInfo: the slot is passed over.                         *)
Skip(s) ==
  /\ pc = "slots" /\ pending = {} /\ Least(s, usable)
  /\ usable' = usable \ {s}
  /\ Blame(s)
  /\ UNCHANGED <<module, pc, request, room, pending, at, info, search, answer, swapped, unclosed>>

(* Mutant: the token info of the first slot serves for all.                *)
VisitKeepsInfo(s) ==
  /\ pc = "slots" /\ pending = {} /\ Least(s, usable)
  /\ usable' = usable \ {s}
  /\ \E c \in Cards :
       C_GetTokenInfo(s, c) /\ info' = IF info = NoCard THEN c ELSE info
  /\ IF request = "hello"
       THEN tokens' = Append(tokens, reader[s]) /\ UNCHANGED <<pc, at>>
       ELSE Goto("open") /\ at' = s /\ UNCHANGED tokens
  /\ UNCHANGED <<module, request, room, pending, search, rows, result, steady, swapped, unclosed>>

Visit(s) ==
  /\ pc = "slots" /\ pending = {} /\ Least(s, usable)
  /\ usable' = usable \ {s}
  /\ \E c \in Cards : C_GetTokenInfo(s, c) /\ info' = c
  /\ IF request = "hello"
       THEN tokens' = Append(tokens, info') /\ UNCHANGED <<pc, at>>
       ELSE Goto("open") /\ at' = s /\ UNCHANGED tokens
  /\ UNCHANGED <<module, request, room, pending, search, rows, result, steady, swapped, unclosed>>

Finish ==
  /\ pc = "slots" /\ pending = {} /\ usable = {}
  /\ Goto("reply")
  /\ result' = "ok"
  /\ UNCHANGED <<module, request, slots, search, tokens, rows, steady, swapped, unclosed>>

(***************************************************************************)
(* listCertificates in one slot.                                           *)
(***************************************************************************)
(* Mutant: the key ids of the slot before are kept.                        *)
OpenSessionKeepsKeys ==
  /\ pc = "open"
  /\ \/ /\ C_OpenSession(at) /\ Goto("init")
        /\ class' = "public_key"
        /\ UNCHANGED <<keys, steady>>
     \/ Goto("slots") /\ Blame(at) /\ UNCHANGED <<module, class, keys>>
  /\ UNCHANGED <<request, slots, found, answer, swapped, unclosed>>

OpenSession ==
  /\ pc = "open"
  /\ \/ /\ C_OpenSession(at) /\ Goto("init")
        /\ class' = "public_key" /\ keys' = {}
        /\ UNCHANGED steady
     \/ Goto("slots") /\ Blame(at) /\ UNCHANGED <<module, class, keys>>
  /\ UNCHANGED <<request, slots, found, answer, swapped, unclosed>>

(* PKCS11Session.deinit: the handle is dropped after C_CloseSession, whose *)
(* result nobody looks at.                                                 *)
Deinit ==
  /\ \/ C_CloseSession(at) /\ UNCHANGED unclosed
     \/ Alive /\ unclosed' = [unclosed EXCEPT ![at] = @ + 1] /\ UNCHANGED sessions
     \/ ~Alive /\ UNCHANGED <<sessions, unclosed>>
  /\ session' = NoCard /\ active' = FALSE /\ left' = <<>>
  /\ UNCHANGED reader

(* Mutant: the error leaves without the session's deinit.                  *)
ThrowWithoutClose ==
  /\ pc \in InSession
  /\ GiveUp
  /\ Blame(at)
  /\ UNCHANGED <<module, unclosed, request, slots, search, swapped>>

(* Any call on the open session fails: the session is closed on the way    *)
(* out, and the error is the whole request's.                              *)
Throw ==
  /\ pc \in InSession
  /\ Deinit
  /\ GiveUp
  /\ Blame(at)
  /\ UNCHANGED <<request, slots, search, swapped>>

FindObjectsInit ==
  /\ pc = "init"
  /\ C_FindObjectsInit(class)
  /\ found' = <<>>
  /\ Goto("page")
  /\ UNCHANGED <<request, slots, class, keys, answer, steady, swapped, unclosed>>

(* Mutant: one page only.                                                  *)
FirstPage(n) ==
  /\ pc = "page"
  /\ C_FindObjects(n) /\ n = FullPage
  /\ found' = found \o SubSeq(left, 1, n)
  /\ left' = SubSeq(left, n + 1, Len(left))
  /\ Goto("read") /\ active' = FALSE
  /\ UNCHANGED <<reader, sessions, session, request, slots, class, keys, answer,
                 steady, swapped, unclosed>>

(* C_FindObjects; on a page that is not full, C_FindObjectsFinal, whose    *)
(* result nobody looks at, and the loop is left.                           *)
Page(n) ==
  /\ pc = "page"
  /\ C_FindObjects(n)
  /\ found' = found \o SubSeq(left, 1, n)
  /\ left' = SubSeq(left, n + 1, Len(left))
  /\ IF n < PageSize
       THEN Goto("read") /\ active' \in BOOLEAN
       ELSE UNCHANGED <<pc, active>>
  /\ IF n < FullPage THEN Blame(at) ELSE UNCHANGED steady
  /\ UNCHANGED <<reader, sessions, session, request, slots, class, keys, answer, swapped, unclosed>>

(* Mutant: a key without an id is kept, under no id.                       *)
ReadKeyWithoutId ==
  /\ pc = "read" /\ class = "public_key" /\ found # <<>>
  /\ C_GetAttributeValue
  /\ keys' = keys \cup {Head(found).id}
  /\ found' = Tail(found)
  /\ UNCHANGED <<module, pc, request, slots, class, answer, steady, swapped, unclosed>>

(* CKA_ID of a public key; one without is left out.                        *)
ReadKey ==
  /\ pc = "read" /\ class = "public_key" /\ found # <<>>
  /\ C_GetAttributeValue
  /\ keys' = keys \cup ({Head(found).id} \ {NoId})
  /\ found' = Tail(found)
  /\ UNCHANGED <<module, pc, request, slots, class, answer, steady, swapped, unclosed>>

KeysRead ==
  /\ pc = "read" /\ class = "public_key" /\ found = <<>>
  /\ class' = "certificate"
  /\ Goto("init")
  /\ UNCHANGED <<module, request, slots, found, keys, answer, steady, swapped, unclosed>>

(* CKA_VALUE, and CKA_ID for the id and the flag; no value, no row.        *)
ReadCertificate ==
  /\ pc = "read" /\ class = "certificate" /\ found # <<>>
  /\ C_GetAttributeValue
  /\ LET object == Head(found)
         row == [serial |-> info, owner |-> session, object |-> object,
                 hasPrivateKey |-> object.id \in keys]
     IN  rows' = IF object.der THEN Append(rows, row) ELSE rows
  /\ found' = Tail(found)
  /\ UNCHANGED <<module, pc, request, slots, class, keys, tokens, result, steady, swapped, unclosed>>

(* The session goes out of scope.                                          *)
CloseSession ==
  /\ pc = "read" /\ class = "certificate" /\ found = <<>>
  /\ Deinit
  /\ Goto("slots")
  /\ UNCHANGED <<request, slots, search, answer, steady, swapped>>

(***************************************************************************)
(* The readers.                                                            *)
(***************************************************************************)
Touched(s) ==
  /\ Blame(s)
  /\ swapped' = IF pc = "open" /\ at = s THEN swapped \cup {s} ELSE swapped
  /\ UNCHANGED <<pc, request, slots, search, answer>>

TakeOut(s)  == Remove(s) /\ Touched(s) /\ unclosed' = [unclosed EXCEPT ![s] = 0]
PutIn(s, c) == Insert(s, c) /\ Touched(s) /\ UNCHANGED unclosed

Proceed ==
  \/ ModuleFails \/ Count \/ Fetch \/ Finish \/ OpenSession \/ Throw
  \/ FindObjectsInit \/ ReadKey \/ KeysRead \/ ReadCertificate \/ CloseSession
  \/ Reply
  \/ \E s \in Slots : Filter(s) \/ Skip(s) \/ Visit(s)
  \/ \E n \in 0..PageSize : Page(n)

Next ==
  \/ Proceed
  \/ \E r \in {"hello", "list"} : Request(r)
  \/ \E s \in Slots : TakeOut(s) \/ \E c \in Cards : PutIn(s, c)

Spec == Init /\ [][Next]_vars

(* The process runs on; nobody has to ask, or to touch a reader.           *)
FairSpec == Spec /\ WF_vars(Proceed)

-----------------------------------------------------------------------------
Expected(s) == IF reader[s] \in Initialized THEN {reader[s]} ELSE {}

Signable(c, object) ==
  /\ object.id # NoId
  /\ \E k \in DOMAIN Objects[c]["public_key"] : Objects[c]["public_key"][k].id = object.id

(* The certificates among the first m of card c that have a value to show. *)
Valued(c, m) == {k \in 1..m : Objects[c]["certificate"][k].der}

(* What is listed of card c are those certificates: each has one row, in   *)
(* the card's order and rightly flagged, and no other row is of the card.  *)
Lists(listed, c, m) ==
  \E place \in [Valued(c, m) -> DOMAIN listed] :
    /\ \A i \in DOMAIN listed :
         listed[i].owner = c <=> \E k \in Valued(c, m) : place[k] = i
    /\ \A k, l \in Valued(c, m) : k < l => place[k] < place[l]
    /\ \A k \in Valued(c, m) :
         LET certificate == Objects[c]["certificate"][k]
         IN  /\ listed[place[k]].object = certificate
             /\ listed[place[k]].hasPrivateKey <=> Signable(c, certificate)

(* What an ok answer holds of the slots that kept their card and answered  *)
(* every call, whatever happened to the others: hello each usable card     *)
(* once, or none at all after a failure; a listing every certificate of    *)
(* each once, in the card's order and rightly flagged (usableSlots,        *)
(* findObjects' pages).                                                    *)
SteadyCardsAreListed ==
  pc = "reply" /\ result = "ok" =>
    \A s \in steady :
      IF request = "hello"
        THEN \/ Cardinality({i \in DOMAIN tokens : tokens[i] = reader[s]})
                  = Cardinality(Expected(s))
             \/ tokens = <<>> /\ steady # Slots
        ELSE \A c \in Expected(s) :
               Lists(rows, c, Len(Objects[c]["certificate"]))

(* A row carries the serial and label of the card its certificate was read *)
(* from: sign selects on it.  The serial is read before the session is     *)
(* open; only a card exchanged in between goes by another's.               *)
RowsUnderOwnSerial ==
  [][\A i \in DOMAIN rows' \ DOMAIN rows :
       rows'[i].serial = rows'[i].owner \/ at \in swapped]_vars

(* No certificate is offered for signing on the strength of another       *)
(* card's key, or of having no id: cards number their objects alike.       *)
FlagIsOwnKey ==
  \A i \in DOMAIN rows : rows[i].hasPrivateKey => Signable(rows[i].owner, rows[i].object)

(* "Every method opens its own session and closes it again": on every way  *)
(* out, errors included, each session that was opened is given to          *)
(* C_CloseSession once.  What is open at a card is what that call refused  *)
(* to close, and the one session of the slot the loop is at.               *)
InUse(s) == pc \in InSession /\ Alive /\ at = s

SessionIsClosed ==
  \A s \in Slots : sessions[s] = unclosed[s] + (IF InUse(s) THEN 1 ELSE 0)

(* A listing fails only if a call failed or a reader changed while it was  *)
(* made: attributes an object lacks, full pages, blank tokens and as many  *)
(* slots as were announced are no errors.                                  *)
FailsForAReason == result = "token_error" => steady # Slots

(* Every hello and every listing is answered, whatever the cards do.       *)
ListingAnswered == pc = "count" ~> pc = "idle"

-----------------------------------------------------------------------------
(* TokenService.listCertificates: with two readers attached, the answer    *)
(* for a working card must not depend on the state of the other one.       *)
OtherReaderDoesNotMatter ==
  result = "token_error" /\ at # NoSlot => \A s \in steady : Expected(s) = {}
=============================================================================

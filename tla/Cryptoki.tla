------------------------------ MODULE Cryptoki ------------------------------
(***************************************************************************)
(* The cards in the readers and one session on one of them, as the calls   *)
(* of pkcs11f.h that read a token show them to this program.  A card       *)
(* cannot be read behind a session that died with its removal, and grants  *)
(* only so many sessions at a time.  Each operator is the call that        *)
(* returns CKR_OK; that any call may fail is the caller's concern.         *)
(***************************************************************************)
EXTENDS Naturals, Sequences, FiniteSets

CONSTANTS
  Slots,          \* slot numbers
  Cards,          \* cards, each with a serial of its own
  Initialized,    \* cards whose CKF_TOKEN_INITIALIZED is set
  Objects,        \* Objects[c][k]: the objects of class k on card c, in search order
  NoCard,
  Ids, NoId,      \* values of CKA_ID; an object without one
  MaxSessions,    \* sessions a card grants at a time (ulMaxSessionCount)
  PageSize        \* handles C_FindObjects is asked for at a time (32 in the code)

Classes == {"public_key", "certificate"}

(* "der" is whether the object has a CKA_VALUE.                            *)
Object == [id : Ids \cup {NoId}, der : BOOLEAN]

ASSUME SlotsAssumption == Slots \subseteq Nat /\ IsFiniteSet(Slots)
ASSUME CardsAssumption == NoCard \notin Cards /\ Initialized \subseteq Cards
ASSUME ObjectsAssumption == 
  Objects \in [Cards -> [Classes -> Seq(Object)]] /\ NoId \notin Ids
ASSUME PageAssumption == PageSize \in Nat \ {0}
ASSUME SessionsAssumption == MaxSessions \in Nat \ {0}

VARIABLES
  reader,    \* reader[s]: the card in slot s
  sessions,  \* sessions[s]: how many the process has open in slot s
  session,   \* the card the process's session handle reaches
  active,    \* a search is under way on the session
  left       \* what the search has not returned yet

module == <<reader, sessions, session, active, left>>

Present == {s \in Slots : reader[s] # NoCard}

CryptokiTypeOK ==
  /\ reader \in [Slots -> Cards \cup {NoCard}]
  /\ sessions \in [Slots -> 0..MaxSessions]
  /\ session \in Cards \cup {NoCard}
  /\ active \in BOOLEAN
  /\ left \in Seq(Object)

CryptokiInit ==
  /\ reader \in {r \in [Slots -> Cards \cup {NoCard}] :
                   \A s, t \in Slots : r[s] = r[t] /\ r[s] # NoCard => s = t}
  /\ sessions = [s \in Slots |-> 0]
  /\ session = NoCard /\ active = FALSE /\ left = <<>>

(* The length alone, then the list, for a caller with room for that many.  *)
C_GetSlotListLength(n) == n = Cardinality(Present)

C_GetSlotList(n, list) == Cardinality(Present) <= n /\ list = Present

C_GetTokenInfo(s, card) == card = reader[s] /\ card # NoCard

C_OpenSession(s) ==
  /\ reader[s] \in Initialized /\ sessions[s] < MaxSessions
  /\ sessions' = [sessions EXCEPT ![s] = @ + 1]
  /\ session' = reader[s] /\ active' = FALSE /\ left' = <<>>
  /\ UNCHANGED reader

Alive == session # NoCard

C_CloseSession(s) == Alive /\ sessions' = [sessions EXCEPT ![s] = @ - 1]

C_FindObjectsInit(class) ==
  /\ Alive /\ ~active
  /\ active' = TRUE
  /\ left' = Objects[session][class]
  /\ UNCHANGED <<reader, sessions, session>>

(* A page: an empty one when nothing is left, a short one at the module's  *)
(* discretion.                                                             *)
C_FindObjects(n) ==
  /\ Alive /\ active
  /\ n <= PageSize /\ n <= Len(left)
  /\ n = 0 => left = <<>>

FullPage == IF Len(left) < PageSize THEN Len(left) ELSE PageSize

C_GetAttributeValue == Alive

Remove(s) ==
  /\ reader[s] # NoCard
  /\ reader' = [reader EXCEPT ![s] = NoCard]
  /\ sessions' = [sessions EXCEPT ![s] = 0]
  /\ session' = IF session = reader[s] THEN NoCard ELSE session
  /\ UNCHANGED <<active, left>>

Insert(s, c) ==
  /\ reader[s] = NoCard /\ \A t \in Slots : reader[t] # c
  /\ reader' = [reader EXCEPT ![s] = c]
  /\ UNCHANGED <<sessions, session, active, left>>
=============================================================================

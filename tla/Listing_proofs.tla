---------------------------- MODULE Listing_proofs ----------------------------
(***************************************************************************)
(* Proofs about Listing, for any slots, cards, objects and page size.      *)
(*                                                                         *)
(* Held says what the loop holds while it is at a slot, Serials whose      *)
(* serial that is, and Keys that everything collected for the flag is on   *)
(* the card behind the session.  Room says that the length of the first    *)
(* C_GetSlotList is still the number of cards while every slot is steady,  *)
(* and Reasons why a listing can have failed.                              *)
(*                                                                         *)
(* Following is what the loop knows of a steady slot: OneCardEach, that no *)
(* card is in two of them, and for each slot what was collected before its *)
(* visit (nothing), during it (what the pages so far held) and after it    *)
(* (what SteadyCardsAreListed promises).                                   *)
(***************************************************************************)
EXTENDS Listing, SequenceTheorems, FiniteSetTheorems, TLAPS

Held ==
  /\ pc \in InSession \cup {"open"} => at \in Slots /\ info \in Cards

Serials ==
  /\ pc = "open" => reader[at] = info \/ at \in swapped
  /\ pc \in InSession => session \in {info, NoCard} \/ at \in swapped

PublicKeys == Objects[session]["public_key"]

Among(object) == \E k \in DOMAIN PublicKeys : PublicKeys[k] = object

Keys ==
  pc \in InSession /\ Alive =>
    /\ \A id \in keys : \E k \in DOMAIN PublicKeys : PublicKeys[k].id = id
    /\ class = "public_key" /\ pc # "init" =>
         /\ \A i \in DOMAIN found : Among(found[i])
         /\ \A i \in DOMAIN left : Among(left[i])

Room == pc = "fetch" /\ steady = Slots => room = Cardinality(Present)

Reasons ==
  /\ result = "token_error" => steady # Slots
  /\ pc = "idle" => result = "none"

(***************************************************************************)
(* What is known of the slots that have been steady so far.                *)
(***************************************************************************)
OneCardEach ==
  \A s, t \in Slots : reader[s] = reader[t] /\ reader[s] # NoCard => s = t

(* A handle that still reaches a card reaches the one in the slot.         *)
Behind == pc \in InSession => session \in {reader[at], NoCard}

Visiting == InSession \cup {"open"}

Stages ==
  /\ pc \in {"idle", "count", "fetch"} =>
       pending = {} /\ usable = {} /\ tokens = <<>> /\ rows = <<>>
  /\ pc \in Visiting => request = "list" /\ pending = {} /\ at \notin usable

Told(s) == {i \in DOMAIN tokens : tokens[i] = reader[s]}

Certificates(c) == Objects[c]["certificate"]

(* A slot before its visit, and after it.                                  *)
Untold(s) ==
  /\ Told(s) = {}
  /\ reader[s] \in Initialized => Lists(rows, reader[s], 0)

Gathered(s) ==
  IF reader[s] \in Initialized
    THEN IF request = "hello" THEN \E i \in DOMAIN tokens : Told(s) = {i}
                              ELSE Lists(rows, reader[s], Len(Certificates(reader[s])))
    ELSE request = "hello" => Told(s) = {}

(* How many objects of the class have been read, and how they, those found *)
(* and those left make up what the card has.                               *)
Sought == Objects[session][class]

Read == IF pc = "init" THEN 0 ELSE Len(Sought) - (Len(found) + Len(left))

Searched ==
  pc \in {"page", "read"} =>
    /\ Len(found) + Len(left) <= Len(Sought)
    /\ \A i \in DOMAIN found : found[i] = Sought[Read + i]
    /\ \A i \in DOMAIN left : left[i] = Sought[Read + Len(found) + i]
    /\ pc = "page" => Read = 0
    /\ pc = "read" => left = <<>>

KeyIds(c, m) == {Objects[c]["public_key"][k].id : k \in 1..m} \ {NoId}

(* The slot of the open session.                                           *)
Halfway ==
  /\ session = reader[at]
  /\ Searched
  /\ class = "public_key"  => keys = KeyIds(session, Read) /\ Lists(rows, session, 0)
  /\ class = "certificate" =>
       keys = KeyIds(session, Len(PublicKeys)) /\ Lists(rows, session, Read)

Visited(s) ==
  /\ pc \in {"slots"} \cup Visiting
  /\ s \notin pending \cup usable
  /\ pc \in Visiting => s # at

Followed(s) ==
  /\ s \in pending \cup usable => Untold(s)
  /\ s \in usable => reader[s] \in Initialized
  /\ Visited(s) => Gathered(s)
  /\ pc \in Visiting /\ s = at =>
       /\ reader[s] \in Initialized
       /\ pc = "open" => Untold(s)
       /\ pc \in InSession => Halfway
  /\ pc = "reply" /\ result = "ok" =>
       \/ Gathered(s)
       \/ request = "hello" /\ tokens = <<>> /\ steady # Slots

Following == OneCardEach /\ Behind /\ Stages /\ \A s \in steady : Followed(s)

-----------------------------------------------------------------------------
LEMMA PresentFinite == Cardinality(Present) \in Nat
<1>1. Present \subseteq Slots
  BY DEF Present
<1> QED BY <1>1, SlotsAssumption, FS_Subset, FS_CardinalityType

LEMMA ObjectsOf ==
  ASSUME NEW c \in Cards, NEW k \in Classes PROVE Objects[c][k] \in Seq(Object)
BY ObjectsAssumption

(* A page is taken off the front of what is left.                          *)
LEMMA PageMoves ==
  ASSUME NEW s \in Seq(Object), NEW t \in Seq(Object), NEW n \in Nat, n <= Len(t)
  PROVE  LET more == s \o SubSeq(t, 1, n)
             rest == SubSeq(t, n + 1, Len(t))
         IN  /\ more \in Seq(Object) /\ rest \in Seq(Object)
             /\ Len(more) = Len(s) + n /\ DOMAIN more = 1..Len(s) + n
             /\ Len(rest) = Len(t) - n /\ DOMAIN rest = 1..Len(t) - n
             /\ \A i \in 1..Len(s) : more[i] = s[i]
             /\ \A i \in 1..n : more[Len(s) + i] = t[i]
             /\ \A i \in 1..Len(t) - n : rest[i] = t[n + i]
             /\ Len(rest) = 0 => rest = <<>>
<1>1. /\ Len(t) \in Nat /\ DOMAIN t = 1..Len(t) /\ \A i \in 1..Len(t) : t[i] \in Object
      /\ Len(s) \in Nat /\ DOMAIN s = 1..Len(s)
  OBVIOUS
<1>2. /\ SubSeq(t, 1, n) \in Seq(Object) /\ Len(SubSeq(t, 1, n)) = n
      /\ \A i \in 1..n : SubSeq(t, 1, n)[i] = t[i]
  <2>1. \A i \in 1..n : t[i] \in Object
    BY <1>1
  <2>2. Len(SubSeq(t, 1, n)) = IF 1 <= n THEN n - 1 + 1 ELSE 0
    BY <2>1, SubSeqProperties
  <2>3. \A i \in 1..n - 1 + 1 : SubSeq(t, 1, n)[i] = t[1 + i - 1]
    BY <2>1, SubSeqProperties
  <2>4. SubSeq(t, 1, n) \in Seq(Object)
    BY <2>1, SubSeqProperties
  <2> QED BY <2>2, <2>3, <2>4
<1>3. /\ SubSeq(t, n + 1, Len(t)) \in Seq(Object)
      /\ Len(SubSeq(t, n + 1, Len(t))) = Len(t) - n
      /\ \A i \in 1..Len(t) - n : SubSeq(t, n + 1, Len(t))[i] = t[n + i]
  <2>1. \A i \in n + 1..Len(t) : t[i] \in Object
    BY <1>1
  <2>2. n + 1 \in Int /\ Len(t) \in Int
    BY <1>1
  <2>3. Len(SubSeq(t, n + 1, Len(t))) = IF n + 1 <= Len(t) THEN Len(t) - (n + 1) + 1 ELSE 0
    BY <2>1, <2>2, SubSeqProperties
  <2>4. \A i \in 1..Len(t) - (n + 1) + 1 : SubSeq(t, n + 1, Len(t))[i] = t[n + 1 + i - 1]
    BY <2>1, <2>2, SubSeqProperties
  <2>5. SubSeq(t, n + 1, Len(t)) \in Seq(Object)
    BY <2>1, <2>2, SubSeqProperties
  <2>6. Len(t) - (n + 1) + 1 = Len(t) - n
    BY <1>1
  <2>7. ASSUME NEW i \in 1..Len(t) - n PROVE SubSeq(t, n + 1, Len(t))[i] = t[n + i]
    <3>1. i \in 1..Len(t) - (n + 1) + 1 /\ n + 1 + i - 1 = n + i
      BY <1>1, <2>6
    <3> QED BY <2>4, <3>1
  <2>8. Len(SubSeq(t, n + 1, Len(t))) = Len(t) - n
    <3>1. PICK m \in Nat : m = Len(t)
      BY <1>1
    <3>2. IF n + 1 <= m THEN m - (n + 1) + 1 = m - n ELSE 0 = m - n
      BY <3>1
    <3> QED BY <2>3, <3>1, <3>2
  <2> QED BY <2>5, <2>7, <2>8
<1>4. /\ s \o SubSeq(t, 1, n) \in Seq(Object)
      /\ Len(s \o SubSeq(t, 1, n)) = Len(s) + n
      /\ \A i \in 1..Len(s) + n :
           (s \o SubSeq(t, 1, n))[i] = IF i <= Len(s) THEN s[i] ELSE SubSeq(t, 1, n)[i - Len(s)]
  BY <1>1, <1>2, ConcatProperties
<1>5. \A i \in 1..n : (s \o SubSeq(t, 1, n))[Len(s) + i] = t[i]
  <2> TAKE i \in 1..n
  <2>1. Len(s) + i \in 1..Len(s) + n /\ ~(Len(s) + i <= Len(s)) /\ Len(s) + i - Len(s) = i
    BY <1>1
  <2> QED BY <1>2, <1>4, <2>1
<1>6. \A i \in 1..Len(s) : (s \o SubSeq(t, 1, n))[i] = s[i]
  BY <1>1, <1>4
<1>7. Len(SubSeq(t, n + 1, Len(t))) = 0 => SubSeq(t, n + 1, Len(t)) = <<>>
  BY <1>3, EmptySeq
<1> DEFINE more == s \o SubSeq(t, 1, n)
           rest == SubSeq(t, n + 1, Len(t))
<1>8. DOMAIN more = 1..Len(s) + n /\ DOMAIN rest = 1..Len(t) - n
  BY <1>3, <1>4
<1> QED BY <1>3, <1>4, <1>5, <1>6, <1>7, <1>8

(* Nothing is in what was found, or left, that was not there before.       *)
LEMMA PageSplits ==
  ASSUME NEW s \in Seq(Object), NEW t \in Seq(Object), NEW n \in Nat, n <= Len(t)
  PROVE  /\ s \o SubSeq(t, 1, n) \in Seq(Object)
         /\ SubSeq(t, n + 1, Len(t)) \in Seq(Object)
         /\ \A i \in DOMAIN (s \o SubSeq(t, 1, n)) :
              \/ i \in DOMAIN s /\ (s \o SubSeq(t, 1, n))[i] = s[i]
              \/ \E j \in DOMAIN t : (s \o SubSeq(t, 1, n))[i] = t[j]
         /\ \A i \in DOMAIN SubSeq(t, n + 1, Len(t)) :
              \E j \in DOMAIN t : SubSeq(t, n + 1, Len(t))[i] = t[j]
<1> DEFINE more == s \o SubSeq(t, 1, n)
           rest == SubSeq(t, n + 1, Len(t))
<1>1. /\ Len(t) \in Nat /\ DOMAIN t = 1..Len(t) /\ Len(s) \in Nat /\ DOMAIN s = 1..Len(s)
  OBVIOUS
<1>2. /\ more \in Seq(Object) /\ rest \in Seq(Object)
      /\ DOMAIN more = 1..Len(s) + n /\ DOMAIN rest = 1..Len(t) - n
      /\ \A i \in 1..Len(s) : more[i] = s[i]
      /\ \A i \in 1..n : more[Len(s) + i] = t[i]
      /\ \A i \in 1..Len(t) - n : rest[i] = t[n + i]
  BY PageMoves, SMTT(30)
<1> HIDE DEF more, rest
<1>3. ASSUME NEW i \in DOMAIN more, i \notin 1..Len(s) PROVE \E j \in DOMAIN t : more[i] = t[j]
  <2>1. i - Len(s) \in 1..n /\ Len(s) + (i - Len(s)) = i /\ i - Len(s) \in DOMAIN t
    BY <1>1, <1>2, <1>3
  <2> QED BY <1>2, <2>1
<1>4. ASSUME NEW i \in DOMAIN rest PROVE \E j \in DOMAIN t : rest[i] = t[j]
  <2>1. n + i \in DOMAIN t
    BY <1>1, <1>2
  <2> QED BY <1>2, <2>1
<1> QED BY <1>1, <1>2, <1>3, <1>4 DEF more, rest

-----------------------------------------------------------------------------
(* The handle's own session can be taken off the count, which is one more  *)
(* than what C_CloseSession has failed to close.                           *)
LEMMA DeinitTypes ==
  ASSUME TypeOK, Held, SessionIsClosed, pc \in InSession, Deinit
  PROVE  /\ sessions' \in [Slots -> 0..MaxSessions] /\ unclosed' \in [Slots -> Nat]
         /\ session' \in Cards \cup {NoCard} /\ active' \in BOOLEAN /\ left' \in Seq(Object)
         /\ reader' = reader
<1>1. /\ at \in Slots /\ sessions \in [Slots -> 0..MaxSessions]
      /\ unclosed \in [Slots -> Nat] /\ MaxSessions \in Nat
  BY SessionsAssumption DEF Held, TypeOK, CryptokiTypeOK
<1>2. Alive => sessions[at] = unclosed[at] + 1
  BY <1>1 DEF SessionIsClosed, InUse
<1>3. Alive => sessions[at] - 1 \in 0..MaxSessions
  BY <1>1, <1>2
<1>4. sessions' \in [Slots -> 0..MaxSessions] /\ unclosed' \in [Slots -> Nat]
  <2>1. CASE C_CloseSession(at) /\ UNCHANGED unclosed
    BY <1>1, <1>3, <2>1 DEF C_CloseSession
  <2>2. CASE Alive /\ unclosed' = [unclosed EXCEPT ![at] = @ + 1] /\ UNCHANGED sessions
    BY <1>1, <2>2
  <2>3. CASE ~Alive /\ UNCHANGED <<sessions, unclosed>>
    BY <1>1, <2>3
  <2> QED BY <2>1, <2>2, <2>3 DEF Deinit
<1>5. left' \in Seq(Object)
  BY EmptySeq DEF Deinit
<1> QED BY <1>4, <1>5 DEF Deinit

LEMMA TypeNext == ASSUME TypeOK, Held, SessionIsClosed, [Next]_vars PROVE TypeOK'
<1> USE DEF TypeOK, CryptokiTypeOK, InSession, Goto
<1>1. CASE ModuleFails
  <2>1. <<>> \in Seq(Cards) /\ <<>> \in Seq(Row)
    BY EmptySeq
  <2> QED BY <1>1, <2>1 DEF ModuleFails, GiveUp, module, slots, search
<1>2. CASE Count
  BY <1>2, PresentFinite DEF Count, C_GetSlotListLength, module, search
<1>3. CASE Fetch
  <2>1. <<>> \in Seq(Cards) /\ <<>> \in Seq(Row)
    BY EmptySeq
  <2> QED BY <1>3, <2>1 DEF Fetch, C_GetSlotList, Present, GiveUp, module, search, answer
<1>4. CASE Finish
  BY <1>4 DEF Finish, module, slots, search
<1>5. CASE OpenSession
  <2>1. <<>> \in Seq(Object)
    BY EmptySeq
  <2>2. at \in Slots
    BY <1>5 DEF OpenSession, Held
  <2>3. sessions' \in [Slots -> 0..MaxSessions]
    <3>1. CASE C_OpenSession(at)
      <4>1. /\ sessions' = [sessions EXCEPT ![at] = @ + 1] /\ sessions[at] < MaxSessions
            /\ sessions \in [Slots -> 0..MaxSessions] /\ MaxSessions \in Nat
        BY <3>1, SessionsAssumption DEF C_OpenSession
      <4>2. sessions[at] + 1 \in 0..MaxSessions
        BY <2>2, <4>1
      <4> QED BY <4>1, <4>2
    <3>2. CASE UNCHANGED module
      BY <3>2 DEF module
    <3> QED BY <1>5, <3>1, <3>2 DEF OpenSession
  <2> QED BY <1>5, <2>1, <2>2, <2>3, CardsAssumption
       DEF OpenSession, C_OpenSession, Blame, module, slots, answer, Classes
<1>6. CASE Throw
  <2>1. <<>> \in Seq(Cards) /\ <<>> \in Seq(Row) /\ <<>> \in Seq(Object)
    BY EmptySeq
  <2> QED BY <1>6, <2>1, DeinitTypes DEF Throw, GiveUp, Blame, slots, search
<1>7. CASE FindObjectsInit
  <2>1. <<>> \in Seq(Object)
    BY EmptySeq
  <2>2. Objects[session][class] \in Seq(Object)
    BY <1>7, ObjectsOf DEF FindObjectsInit, C_FindObjectsInit, Alive
  <2> QED BY <1>7, <2>1, <2>2 DEF FindObjectsInit, C_FindObjectsInit, slots, answer
<1>8. CASE ReadKey
  <2>1. found # <<>> /\ found \in Seq(Object)
    BY <1>8 DEF ReadKey
  <2>2. Head(found) \in Object /\ Tail(found) \in Seq(Object)
    BY <2>1, HeadTailProperties
  <2>3. Head(found).id \in Ids \cup {NoId}
    BY <2>2 DEF Object
  <2> QED BY <1>8, <2>2, <2>3 DEF ReadKey, module, slots, answer
<1>9. CASE KeysRead
  BY <1>9 DEF KeysRead, Classes, module, slots, answer
<1>10. CASE ReadCertificate
  <2>1. found # <<>> /\ found \in Seq(Object) /\ session \in Cards /\ info \in Cards
    BY <1>10 DEF ReadCertificate, C_GetAttributeValue, Alive, Held
  <2>2. Head(found) \in Object /\ Tail(found) \in Seq(Object)
    BY <2>1, HeadTailProperties
  <2>3. [serial |-> info, owner |-> session, object |-> Head(found),
         hasPrivateKey |-> Head(found).id \in keys] \in Row
    <3>1. (Head(found).id \in keys) \in BOOLEAN
      OBVIOUS
    <3> QED BY <2>1, <2>2, <3>1, Zenon DEF Row
  <2>4. rows' \in Seq(Row)
    BY <1>10, <2>3 DEF ReadCertificate
  <2> QED BY <1>10, <2>2, <2>4 DEF ReadCertificate, module, slots
<1>11. CASE CloseSession
  BY <1>11, DeinitTypes DEF CloseSession, slots, search, answer
<1>12. CASE Reply
  <2>1. <<>> \in Seq(Cards) /\ <<>> \in Seq(Row) /\ <<>> \in Seq(Object)
    BY EmptySeq
  <2>2. CryptokiTypeOK'
    BY <1>12 DEF Reply, module
  <2>3. 0 \in Nat /\ swapped' \subseteq Slots /\ steady' \subseteq Slots
    BY <1>12 DEF Reply
  <2> QED BY <1>12, <2>1, <2>2, <2>3 DEF Reply, Classes
<1>13. ASSUME NEW s \in Slots, Filter(s) \/ Skip(s) PROVE TypeOK'
  BY <1>13 DEF Filter, Skip, Blame, Least, module, search, answer
<1>14. ASSUME NEW s \in Slots, Visit(s) PROVE TypeOK'
  <2>1. reader[s] \in Cards /\ info' = reader[s]
    BY <1>14 DEF Visit, C_GetTokenInfo
  <2>2. tokens' \in Seq(Cards)
    <3>1. tokens' = Append(tokens, reader[s]) \/ tokens' = tokens
      BY <1>14, <2>1, Zenon DEF Visit
    <3>2. tokens \in Seq(Cards) /\ Append(tokens, reader[s]) \in Seq(Cards)
      BY <2>1
    <3> QED BY <3>1, <3>2
  <2>3. CryptokiTypeOK' /\ UNCHANGED <<request, room, pending, class, found, keys,
                                       rows, result, unclosed, steady, swapped>>
    BY <1>14 DEF Visit, module, search
  <2>4. usable' \subseteq Slots
    BY <1>14 DEF Visit
  <2>5. pc' \in {"slots", "open"} /\ at' \in Slots \cup {NoSlot}
    BY <1>14 DEF Visit
  <2> QED BY <2>1, <2>2, <2>3, <2>4, <2>5
<1>15. ASSUME NEW n \in 0..PageSize, Page(n) PROVE TypeOK'
  <2>1. found' \in Seq(Object) /\ left' \in Seq(Object)
    BY <1>15, PageSplits, PageAssumption DEF Page, C_FindObjects
  <2>2. active' \in BOOLEAN
    BY <1>15, Zenon DEF Page
  <2> QED BY <1>15, <2>1, <2>2 DEF Page, Blame, slots, answer
<1>16. ASSUME NEW r \in {"hello", "list"}, Request(r) PROVE TypeOK'
  BY <1>16 DEF Request, module, slots, search, answer
<1>17. ASSUME NEW s \in Slots, TakeOut(s) PROVE TypeOK'
  BY <1>17, SessionsAssumption DEF TakeOut, Touched, Remove, Blame, slots, search, answer
<1>18. ASSUME NEW s \in Slots, NEW c \in Cards, PutIn(s, c) PROVE TypeOK'
  BY <1>18 DEF PutIn, Touched, Insert, Blame, slots, search, answer
<1>19. CASE UNCHANGED vars
  BY <1>19 DEF vars
<1> QED BY <1>1, <1>2, <1>3, <1>4, <1>5, <1>6, <1>7, <1>8, <1>9, <1>10, <1>11,
           <1>12, <1>13, <1>14, <1>15, <1>16, <1>17, <1>18, <1>19 DEF Next, Proceed

LEMMA HeldNext == ASSUME TypeOK, Held, [Next]_vars PROVE Held'
<1> USE DEF Held, InSession, Goto
<1>1. CASE ModuleFails \/ Count \/ Fetch \/ Finish
  BY <1>1 DEF ModuleFails, Count, Fetch, Finish, GiveUp, module
<1>2. CASE OpenSession
  BY <1>2 DEF OpenSession, C_OpenSession, slots, module
<1>3. CASE Throw \/ CloseSession
  BY <1>3 DEF Throw, CloseSession, Deinit, GiveUp
<1>4. CASE FindObjectsInit \/ ReadKey \/ KeysRead \/ ReadCertificate
  BY <1>4 DEF FindObjectsInit, C_FindObjectsInit, ReadKey, KeysRead, ReadCertificate,
              module, slots
<1>5. CASE Reply
  BY <1>5 DEF Reply, module
<1>6. ASSUME NEW s \in Slots, Filter(s) \/ Skip(s) PROVE Held'
  BY <1>6 DEF Filter, Skip, module
<1>7. ASSUME NEW s \in Slots, Visit(s) PROVE Held'
  <2>1. info' \in Cards
    BY <1>7 DEF Visit, C_GetTokenInfo
  <2> QED BY <1>7, <2>1 DEF Visit, module
<1>8. ASSUME NEW n \in 0..PageSize, Page(n) PROVE Held'
  BY <1>8 DEF Page, slots
<1>9. ASSUME NEW r \in {"hello", "list"}, Request(r) PROVE Held'
  BY <1>9 DEF Request, module
<1>10. ASSUME NEW s \in Slots, TakeOut(s) \/ \E c \in Cards : PutIn(s, c) PROVE Held'
  BY <1>10 DEF TakeOut, PutIn, Touched, Remove, Insert, slots
<1>11. CASE UNCHANGED vars
  BY <1>11 DEF vars
<1> QED BY <1>1, <1>2, <1>3, <1>4, <1>5, <1>6, <1>7, <1>8, <1>9, <1>10, <1>11
     DEF Next, Proceed

LEMMA SerialsNext == ASSUME TypeOK, Held, Serials, [Next]_vars PROVE Serials'
<1> USE DEF Serials, InSession, Goto
<1>1. CASE ModuleFails \/ Count \/ Fetch \/ Finish
  BY <1>1 DEF ModuleFails, Count, Fetch, Finish, GiveUp, module
<1>2. CASE OpenSession
  BY <1>2 DEF OpenSession, C_OpenSession, slots, module
<1>3. CASE Throw \/ CloseSession
  BY <1>3 DEF Throw, CloseSession, Deinit, GiveUp
<1>4. CASE FindObjectsInit \/ ReadKey \/ KeysRead \/ ReadCertificate
  BY <1>4 DEF FindObjectsInit, C_FindObjectsInit, ReadKey, KeysRead, ReadCertificate,
              module, slots
<1>5. CASE Reply
  BY <1>5 DEF Reply, module
<1>6. ASSUME NEW s \in Slots, Filter(s) \/ Skip(s) PROVE Serials'
  BY <1>6 DEF Filter, Skip, module
<1>7. ASSUME NEW s \in Slots, Visit(s) PROVE Serials'
  BY <1>7 DEF Visit, C_GetTokenInfo, module
<1>8. ASSUME NEW n \in 0..PageSize, Page(n) PROVE Serials'
  BY <1>8 DEF Page, slots
<1>9. ASSUME NEW r \in {"hello", "list"}, Request(r) PROVE Serials'
  BY <1>9 DEF Request, module
<1>10. ASSUME NEW s \in Slots, TakeOut(s) PROVE Serials'
  BY <1>10 DEF TakeOut, Touched, Remove, slots, Held, TypeOK, CryptokiTypeOK
<1>11. ASSUME NEW s \in Slots, NEW c \in Cards, PutIn(s, c) PROVE Serials'
  BY <1>11 DEF PutIn, Touched, Insert, slots, Held, TypeOK, CryptokiTypeOK
<1>12. CASE UNCHANGED vars
  BY <1>12 DEF vars
<1> QED BY <1>1, <1>2, <1>3, <1>4, <1>5, <1>6, <1>7, <1>8, <1>9, <1>10, <1>11, <1>12
     DEF Next, Proceed

LEMMA KeysNext == ASSUME TypeOK, Held, Keys, [Next]_vars PROVE Keys'
<1> USE DEF Keys, InSession, Goto, Alive, PublicKeys, Among
<1>1. CASE ModuleFails \/ Count \/ Fetch \/ Finish
  BY <1>1 DEF ModuleFails, Count, Fetch, Finish, GiveUp, module
<1>2. CASE OpenSession
  BY <1>2 DEF OpenSession
<1>3. CASE Throw \/ CloseSession
  BY <1>3 DEF Throw, CloseSession, GiveUp
<1>4. CASE FindObjectsInit
  <2>1. /\ session' = session /\ keys' = keys /\ class' = class /\ Alive /\ pc = "init"
        /\ found' = <<>> /\ left' = Objects[session][class] /\ pc' = "page"
    BY <1>4 DEF FindObjectsInit, C_FindObjectsInit
  <2>2. DOMAIN found' = {}
    BY <2>1
  <2> QED BY <2>1, <2>2
<1>5. CASE ReadKey
  <2>1. found # <<>> /\ found \in Seq(Object) /\ Alive /\ class = "public_key" /\ pc = "read"
        /\ found' = Tail(found) /\ keys' = keys \cup ({Head(found).id} \ {NoId})
        /\ UNCHANGED <<pc, session, class, left>>
    BY <1>5 DEF ReadKey, C_GetAttributeValue, TypeOK, module
  <2>2. /\ 1 \in DOMAIN found /\ Head(found) = found[1]
        /\ \A i \in DOMAIN Tail(found) : i + 1 \in DOMAIN found /\ Tail(found)[i] = found[i + 1]
    BY <2>1
  <2>3. Among(Head(found)) /\ \A i \in DOMAIN Tail(found) : Among(Tail(found)[i])
    BY <2>1, <2>2
  <2>4. \A id \in keys' : \E k \in DOMAIN PublicKeys : PublicKeys[k].id = id
    BY <2>1, <2>3
  <2> QED BY <2>1, <2>3, <2>4
<1>6. CASE KeysRead \/ ReadCertificate
  BY <1>6 DEF KeysRead, ReadCertificate, module
<1>7. CASE Reply
  BY <1>7 DEF Reply
<1>8. ASSUME NEW s \in Slots, Filter(s) \/ Skip(s) \/ Visit(s) PROVE Keys'
  BY <1>8 DEF Filter, Skip, Visit
<1>9. ASSUME NEW n \in 0..PageSize, Page(n) PROVE Keys'
  <2>1. /\ UNCHANGED <<session, keys, class>> /\ pc = "page" /\ Alive
        /\ found' = found \o SubSeq(left, 1, n)
        /\ left' = SubSeq(left, n + 1, Len(left))
        /\ n \in Nat /\ n <= Len(left) /\ found \in Seq(Object) /\ left \in Seq(Object)
    BY <1>9, PageAssumption DEF Page, C_FindObjects, TypeOK, CryptokiTypeOK
  <2>2. /\ \A i \in DOMAIN found' : \/ i \in DOMAIN found /\ found'[i] = found[i]
                                    \/ \E j \in DOMAIN left : found'[i] = left[j]
        /\ \A i \in DOMAIN left' : \E j \in DOMAIN left : left'[i] = left[j]
    BY <2>1, PageSplits, SMTT(30)
  <2>3. \A id \in keys : \E k \in DOMAIN PublicKeys : PublicKeys[k].id = id
    BY <2>1
  <2>4. CASE class # "public_key"
    BY <2>1, <2>3, <2>4
  <2>5. CASE class = "public_key"
    <3>1. (\A i \in DOMAIN found : Among(found[i])) /\ \A i \in DOMAIN left : Among(left[i])
      BY <2>1, <2>5
    <3>2. ASSUME NEW i \in DOMAIN found' PROVE Among(found'[i])
      BY <2>2, <3>1
    <3>3. ASSUME NEW i \in DOMAIN left' PROVE Among(left'[i])
      BY <2>2, <3>1
    <3> QED BY <2>1, <2>3, <3>2, <3>3, ZenonT(60)
  <2> QED BY <2>4, <2>5
<1>10. ASSUME NEW r \in {"hello", "list"}, Request(r) PROVE Keys'
  BY <1>10 DEF Request
<1>11. ASSUME NEW s \in Slots, TakeOut(s) \/ \E c \in Cards : PutIn(s, c) PROVE Keys'
  BY <1>11 DEF TakeOut, PutIn, Touched, Remove, Insert, search
<1>12. CASE UNCHANGED vars
  BY <1>12 DEF vars
<1> QED BY <1>1, <1>2, <1>3, <1>4, <1>5, <1>6, <1>7, <1>8, <1>9, <1>10, <1>11, <1>12
     DEF Next, Proceed

LEMMA FlagNext == ASSUME TypeOK, Keys, FlagIsOwnKey, [Next]_vars PROVE FlagIsOwnKey'
<1> USE DEF FlagIsOwnKey, Signable
<1>1. CASE ReadCertificate
  <2> DEFINE row == [serial |-> info, owner |-> session, object |-> Head(found),
                     hasPrivateKey |-> Head(found).id \in keys]
  <2>1. /\ rows' = rows \/ rows' = Append(rows, row)
        /\ pc = "read" /\ Alive /\ found # <<>> /\ rows \in Seq(Row) /\ found \in Seq(Object)
    BY <1>1 DEF ReadCertificate, C_GetAttributeValue, TypeOK
  <2>2. row.hasPrivateKey => Signable(row.owner, row.object)
    <3>1. keys \subseteq Ids /\ NoId \notin Ids
      BY ObjectsAssumption DEF TypeOK
    <3>2. row.hasPrivateKey = (Head(found).id \in keys) /\ row.owner = session
          /\ row.object = Head(found)
      OBVIOUS
    <3>3. \A id \in keys : \E k \in DOMAIN PublicKeys : PublicKeys[k].id = id
      BY <2>1 DEF Keys, InSession
    <3> QED BY <3>1, <3>2, <3>3, ZenonT(60) DEF PublicKeys
  <2> HIDE DEF row
  <2>3. CASE rows' = Append(rows, row)
    <3>1. /\ \A i \in DOMAIN rows' : i = Len(rows) + 1 \/ i \in DOMAIN rows
          /\ \A i \in DOMAIN rows : rows'[i] = rows[i]
          /\ rows'[Len(rows) + 1] = row
      BY <2>1, <2>3
    <3> QED BY <2>2, <3>1, ZenonT(60)
  <2> QED BY <2>1, <2>3
<1>2. CASE rows' = <<>> \/ rows' = rows
  BY <1>2
<1>3. [Next]_vars /\ ~ReadCertificate => rows' = <<>> \/ rows' = rows
  BY DEF Next, Proceed, ModuleFails, Count, Fetch, Finish, OpenSession, Throw, GiveUp,
         FindObjectsInit, ReadKey, KeysRead, CloseSession, Reply, Filter, Skip, Visit, Page,
         Request, TakeOut, PutIn, Touched, search, answer, vars
<1> QED BY <1>1, <1>2, <1>3

LEMMA RoomNext == ASSUME Room, [Next]_vars PROVE Room'
<1> USE DEF Room, Goto, Present
<1>1. CASE Count
  BY <1>1 DEF Count, C_GetSlotListLength, module
<1>2. ASSUME NEW s \in Slots, TakeOut(s) \/ \E c \in Cards : PutIn(s, c) PROVE Room'
  BY <1>2 DEF TakeOut, PutIn, Touched, Blame
<1>3. CASE UNCHANGED vars
  BY <1>3 DEF vars
<1>4. pc' = "fetch" =>
        \/ Count
        \/ \E s \in Slots : TakeOut(s) \/ \E c \in Cards : PutIn(s, c)
        \/ UNCHANGED vars
  BY DEF Next, Proceed, ModuleFails, Fetch, Finish, OpenSession, Throw, GiveUp,
         FindObjectsInit, ReadKey, KeysRead, ReadCertificate, CloseSession, Reply,
         Filter, Skip, Visit, Page, Request
<1> QED BY <1>1, <1>2, <1>3, <1>4

LEMMA ReasonsNext ==
  ASSUME TypeOK, Held, Room, Reasons, Slots # {}, [Next]_vars PROVE Reasons'
<1> USE DEF Reasons, TypeOK, Goto
<1>1. CASE ModuleFails
  BY <1>1 DEF ModuleFails, GiveUp
<1>2. CASE Count
  BY <1>2 DEF Count
<1>3. CASE Fetch
  <2>1. CASE Cardinality(Present) > room /\ GiveUp /\ UNCHANGED pending
    <3>1. ~(steady = Slots)
      BY <1>3, <2>1, PresentFinite DEF Fetch, Room
    <3> QED BY <1>3, <2>1, <3>1 DEF Fetch, GiveUp
  <2>2. CASE UNCHANGED answer /\ pc' = "slots"
    BY <1>3, <2>2 DEF Fetch, answer
  <2> QED BY <1>3, <2>1, <2>2 DEF Fetch
<1>4. CASE Throw
  BY <1>4 DEF Throw, GiveUp, Blame, Held
<1>5. CASE Finish \/ OpenSession \/ FindObjectsInit \/ ReadKey \/ KeysRead
            \/ ReadCertificate \/ CloseSession
  BY <1>5 DEF Finish, OpenSession, FindObjectsInit, ReadKey, KeysRead, ReadCertificate,
              CloseSession, Blame, answer, InSession
<1>6. CASE Reply
  BY <1>6 DEF Reply
<1>7. ASSUME NEW s \in Slots, Filter(s) \/ Skip(s) PROVE Reasons'
  BY <1>7 DEF Filter, Skip, Blame, answer
<1>8. ASSUME NEW s \in Slots, Visit(s) PROVE Reasons'
  BY <1>8 DEF Visit
<1>9. ASSUME NEW n \in 0..PageSize, Page(n) PROVE Reasons'
  BY <1>9 DEF Page, Blame, answer
<1>10. ASSUME NEW r \in {"hello", "list"}, Request(r) PROVE Reasons'
  BY <1>10 DEF Request, answer
<1>11. ASSUME NEW s \in Slots, TakeOut(s) \/ \E c \in Cards : PutIn(s, c) PROVE Reasons'
  BY <1>11 DEF TakeOut, PutIn, Touched, Blame, answer
<1>12. CASE UNCHANGED vars
  BY <1>12 DEF vars
<1> QED BY <1>1, <1>2, <1>3, <1>4, <1>5, <1>6, <1>7, <1>8, <1>9, <1>10, <1>11, <1>12
     DEF Next, Proceed

-----------------------------------------------------------------------------
(***************************************************************************)
(* What a listing so far holds of a card.                                  *)
(***************************************************************************)
LEMMA ListsNothing ==
  ASSUME NEW listed \in Seq(Row), NEW c, \A i \in DOMAIN listed : listed[i].owner # c
  PROVE  Lists(listed, c, 0)
<1>1. Valued(c, 0) = {}
  BY DEF Valued
<1>2. PICK place : place = [k \in Valued(c, 0) |-> 0]
  OBVIOUS
<1>3. place \in [Valued(c, 0) -> DOMAIN listed]
  BY <1>1, <1>2
<1> QED BY <1>1, <1>3 DEF Lists

LEMMA ListsSkipped ==
  ASSUME NEW listed, NEW c, NEW m \in Nat, ~Certificates(c)[m + 1].der, Lists(listed, c, m)
  PROVE  Lists(listed, c, m + 1)
<1>1. Valued(c, m + 1) = Valued(c, m)
  <2>1. 1..m + 1 = (1..m) \cup {m + 1}
    OBVIOUS
  <2> QED BY <2>1 DEF Valued, Certificates
<1> QED BY <1>1 DEF Lists

LEMMA Appended ==
  ASSUME NEW listed \in Seq(Row), NEW row \in Row
  PROVE  /\ DOMAIN Append(listed, row) = DOMAIN listed \cup {Len(listed) + 1}
         /\ \A i \in DOMAIN listed : Append(listed, row)[i] = listed[i] /\ i < Len(listed) + 1
         /\ Append(listed, row)[Len(listed) + 1] = row
         /\ DOMAIN listed \subseteq Nat /\ Len(listed) + 1 \in Nat
OBVIOUS

LEMMA ListsOther ==
  ASSUME NEW listed \in Seq(Row), NEW row \in Row, NEW c, NEW m \in Nat,
         row.owner # c, Lists(listed, c, m)
  PROVE  Lists(Append(listed, row), c, m)
<1> DEFINE more == Append(listed, row)
<1>1. /\ DOMAIN more = DOMAIN listed \cup {Len(listed) + 1}
      /\ \A i \in DOMAIN listed : more[i] = listed[i] /\ i < Len(listed) + 1
      /\ more[Len(listed) + 1] = row
      /\ DOMAIN listed \subseteq Nat /\ Len(listed) + 1 \in Nat
  BY Appended
<1> HIDE DEF more
<1>2. PICK place \in [Valued(c, m) -> DOMAIN listed] :
        /\ \A i \in DOMAIN listed :
             listed[i].owner = c <=> \E k \in Valued(c, m) : place[k] = i
        /\ \A k, l \in Valued(c, m) : k < l => place[k] < place[l]
        /\ \A k \in Valued(c, m) :
             /\ listed[place[k]].object = Objects[c]["certificate"][k]
             /\ listed[place[k]].hasPrivateKey <=> Signable(c, Objects[c]["certificate"][k])
  BY DEF Lists
<1>3. place \in [Valued(c, m) -> DOMAIN more]
  BY <1>1, <1>2
<1>4. ASSUME NEW i \in DOMAIN more
      PROVE  more[i].owner = c <=> \E k \in Valued(c, m) : place[k] = i
  <2>1. CASE i \in DOMAIN listed
    BY <1>1, <1>2, <2>1
  <2>2. CASE i = Len(listed) + 1
    <3>1. \A k \in Valued(c, m) : place[k] < i
      BY <1>1, <1>2, <2>2
    <3>2. \A k \in Valued(c, m) : place[k] # i
      BY <1>1, <1>2, <2>2, <3>1
    <3> QED BY <1>1, <2>2, <3>2
  <2> QED BY <1>1, <2>1, <2>2
<1>5. ASSUME NEW k \in Valued(c, m)
      PROVE  /\ more[place[k]].object = Objects[c]["certificate"][k]
             /\ more[place[k]].hasPrivateKey <=> Signable(c, Objects[c]["certificate"][k])
  <2>1. more[place[k]] = listed[place[k]]
    BY <1>1, <1>2
  <2> QED BY <1>2, <2>1
<1> QED BY <1>2, <1>3, <1>4, <1>5 DEF Lists, more

LEMMA ListsMore ==
  ASSUME NEW listed \in Seq(Row), NEW row \in Row, NEW c, NEW m \in Nat,
         row.owner = c, row.object = Certificates(c)[m + 1], row.object.der,
         row.hasPrivateKey <=> Signable(c, row.object),
         Lists(listed, c, m)
  PROVE  Lists(Append(listed, row), c, m + 1)
<1> DEFINE more == Append(listed, row)
           V    == Valued(c, m)
           W    == Valued(c, m + 1)
<1>1. /\ DOMAIN more = DOMAIN listed \cup {Len(listed) + 1}
      /\ \A i \in DOMAIN listed : more[i] = listed[i] /\ i < Len(listed) + 1
      /\ more[Len(listed) + 1] = row
      /\ DOMAIN listed \subseteq Nat /\ Len(listed) + 1 \in Nat
  BY Appended
<1>2. PICK place \in [V -> DOMAIN listed] :
        /\ \A i \in DOMAIN listed : listed[i].owner = c <=> \E k \in V : place[k] = i
        /\ \A k, l \in V : k < l => place[k] < place[l]
        /\ \A k \in V :
             /\ listed[place[k]].object = Objects[c]["certificate"][k]
             /\ listed[place[k]].hasPrivateKey <=> Signable(c, Objects[c]["certificate"][k])
  BY DEF Lists
<1>3. W = V \cup {m + 1} /\ V \subseteq 1..m
  <2>1. 1..m + 1 = (1..m) \cup {m + 1}
    OBVIOUS
  <2> QED BY <2>1 DEF Valued, Certificates
<1>4. PICK wider : wider = [k \in W |-> IF k \in V THEN place[k] ELSE Len(listed) + 1]
  OBVIOUS
<1> HIDE DEF more, V, W
<1>5. /\ wider \in [W -> DOMAIN more]
      /\ \A k \in V : wider[k] = place[k]
      /\ wider[m + 1] = Len(listed) + 1
  <2>1. m + 1 \notin V
    BY <1>3
  <2> QED BY <1>1, <1>2, <1>3, <1>4, <2>1
<1>6. ASSUME NEW i \in DOMAIN more PROVE more[i].owner = c <=> \E k \in W : wider[k] = i
  <2>1. CASE i \in DOMAIN listed
    <3>1. more[i].owner = c <=> \E k \in V : place[k] = i
      BY <1>1, <1>2, <2>1
    <3>2. i # Len(listed) + 1
      BY <1>1, <2>1
    <3> QED BY <1>3, <1>5, <3>1, <3>2
  <2>2. CASE i = Len(listed) + 1
    BY <1>1, <1>3, <1>5, <2>2
  <2> QED BY <1>1, <2>1, <2>2
<1>7. ASSUME NEW k \in W, NEW l \in W, k < l PROVE wider[k] < wider[l]
  <2>1. k \in V
    BY <1>3, <1>7
  <2>2. CASE l \in V
    BY <1>2, <1>5, <1>7, <2>1, <2>2
  <2>3. CASE l = m + 1
    BY <1>1, <1>2, <1>5, <2>1, <2>3
  <2> QED BY <1>3, <2>2, <2>3
<1>8. ASSUME NEW k \in W
      PROVE  /\ more[wider[k]].object = Objects[c]["certificate"][k]
             /\ more[wider[k]].hasPrivateKey <=> Signable(c, Objects[c]["certificate"][k])
  <2>1. CASE k \in V
    <3>1. more[wider[k]] = listed[place[k]]
      BY <1>1, <1>2, <1>5, <2>1
    <3> QED BY <1>2, <2>1, <3>1
  <2>2. CASE k = m + 1
    BY <1>1, <1>5, <2>2 DEF Certificates
  <2> QED BY <1>3, <2>1, <2>2
<1> QED BY <1>5, <1>6, <1>7, <1>8 DEF Lists, W, more

-----------------------------------------------------------------------------
LEMMA BasicsNext ==
  ASSUME TypeOK, Held, OneCardEach, Behind, Stages, [Next]_vars
  PROVE  OneCardEach' /\ Behind' /\ Stages'
<1> USE DEF Goto, Visiting, InSession
<1>1. CASE ModuleFails \/ Count \/ Fetch \/ Finish
  BY <1>1 DEF ModuleFails, Count, Fetch, Finish, GiveUp, module, slots, OneCardEach,
              Behind, Stages
<1>2. CASE OpenSession
  BY <1>2 DEF OpenSession, C_OpenSession, module, slots, OneCardEach, Behind, Stages
<1>3. CASE Throw \/ CloseSession
  BY <1>3 DEF Throw, CloseSession, Deinit, GiveUp, OneCardEach, Behind, Stages
<1>4. CASE FindObjectsInit \/ ReadKey \/ KeysRead \/ ReadCertificate
  BY <1>4 DEF FindObjectsInit, C_FindObjectsInit, ReadKey, KeysRead, ReadCertificate,
              module, slots, OneCardEach, Behind, Stages
<1>5. CASE Reply
  BY <1>5 DEF Reply, module, OneCardEach, Behind, Stages
<1>6. ASSUME NEW s \in Slots, Filter(s) \/ Skip(s) PROVE OneCardEach' /\ Behind' /\ Stages'
  BY <1>6 DEF Filter, Skip, module, OneCardEach, Behind, Stages
<1>7. ASSUME NEW s \in Slots, Visit(s) PROVE OneCardEach' /\ Behind' /\ Stages'
  BY <1>7 DEF Visit, module, OneCardEach, Behind, Stages, TypeOK
<1>8. ASSUME NEW n \in 0..PageSize, Page(n) PROVE OneCardEach' /\ Behind' /\ Stages'
  BY <1>8 DEF Page, slots, OneCardEach, Behind, Stages
<1>9. ASSUME NEW r \in {"hello", "list"}, Request(r) PROVE OneCardEach' /\ Behind' /\ Stages'
  BY <1>9 DEF Request, module, slots, answer, OneCardEach, Behind, Stages
<1>10. ASSUME NEW s \in Slots, TakeOut(s) PROVE OneCardEach' /\ Behind' /\ Stages'
  <2>1. UNCHANGED <<pc, request, slots, answer>>
    BY <1>10 DEF TakeOut, Touched
  <2>2. /\ reader' = [reader EXCEPT ![s] = NoCard]
        /\ session' = IF session = reader[s] THEN NoCard ELSE session
        /\ reader \in [Slots -> Cards \cup {NoCard}]
    BY <1>10 DEF TakeOut, Remove, TypeOK, CryptokiTypeOK
  <2>3. OneCardEach'
    BY <2>2 DEF OneCardEach
  <2>4. Behind'
    BY <2>1, <2>2 DEF Behind, slots, Held
  <2> QED BY <2>1, <2>3, <2>4 DEF Stages, slots, answer
<1>11. ASSUME NEW s \in Slots, NEW c \in Cards, PutIn(s, c)
       PROVE OneCardEach' /\ Behind' /\ Stages'
  <2>1. UNCHANGED <<pc, request, slots, answer>>
    BY <1>11 DEF PutIn, Touched
  <2>2. /\ reader' = [reader EXCEPT ![s] = c]
        /\ reader[s] = NoCard /\ \A t \in Slots : reader[t] # c
        /\ session' = session
        /\ reader \in [Slots -> Cards \cup {NoCard}]
    BY <1>11 DEF PutIn, Insert, TypeOK, CryptokiTypeOK
  <2>3. OneCardEach'
    BY <2>2 DEF OneCardEach
  <2>4. Behind'
    BY <2>1, <2>2 DEF Behind, slots, Held
  <2> QED BY <2>1, <2>3, <2>4 DEF Stages, slots, answer
<1>12. CASE UNCHANGED vars
  BY <1>12 DEF vars, OneCardEach, Behind, Stages
<1> QED BY <1>1, <1>2, <1>3, <1>4, <1>5, <1>6, <1>7, <1>8, <1>9, <1>10, <1>11, <1>12
     DEF Next, Proceed

(* Nothing said of a slot changes while its card, its place in the loop    *)
(* and what is told of it stay.                                            *)
LEMMA Unmoved ==
  ASSUME NEW s \in Slots, UNCHANGED <<reader, request, tokens, rows>>
  PROVE  (Untold(s)' <=> Untold(s)) /\ (Gathered(s)' <=> Gathered(s))
BY DEF Untold, Gathered, Told

(* A step in one slot leaves the others as they were, if the rows it adds  *)
(* are of another card.                                                    *)
LEMMA Elsewhere ==
  ASSUME NEW s \in Slots, Followed(s), s # at, pc \in Visiting, pc' \in Visiting \cup {"slots"},
         UNCHANGED <<reader, request, pending, usable, at, tokens>>,
         reader[s] \in Initialized =>
           \A m \in Nat : Lists(rows, reader[s], m) => Lists(rows', reader[s], m),
         TypeOK
  PROVE  Followed(s)'
<1>1. Untold(s) => Untold(s)'
  BY DEF Untold, Told
<1>2. Gathered(s) => Gathered(s)'
  <2>1. reader[s] \in Initialized => Len(Certificates(reader[s])) \in Nat
    BY ObjectsOf, CardsAssumption DEF Certificates, Classes
  <2> QED BY <2>1 DEF Gathered, Told
<1>3. Visited(s)' => Visited(s)
  BY DEF Visited
<1> QED BY <1>1, <1>2, <1>3 DEF Followed, Visiting, InSession

(* Once a request has its answer, only the answer is followed.             *)
LEMMA AtReply ==
  ASSUME NEW s, pc' = "reply", usable' = {}, pending' = {},
         result' = "ok" => Gathered(s)' \/ (request' = "hello" /\ tokens' = <<>> /\ steady' # Slots)
  PROVE  Followed(s)'
BY DEF Followed, Visited, Visiting, InSession

(***************************************************************************)
(* The steps, each for one slot that is still steady after it.             *)
(***************************************************************************)
LEMMA ListStep ==
  ASSUME TypeOK, Room, Following, ModuleFails \/ Count \/ Fetch,
         NEW s \in Slots, s \in steady'
  PROVE  Followed(s)'
<1> USE DEF Goto
<1>1. /\ pending = {} /\ usable = {} /\ tokens = <<>> /\ rows = <<>>
      /\ usable' = {}
  BY DEF Following, Stages, ModuleFails, Count, Fetch, slots
<1>2. CASE ModuleFails
  BY <1>2 DEF ModuleFails
<1>3. reader[s] = NoCard => reader[s] \notin Initialized
  BY CardsAssumption
<1>4. tokens' = <<>> => Told(s)' = {}
  BY DEF Told
<1>5. CASE Count
  <2>1. UNCHANGED <<reader, pending, tokens, rows, request>> /\ room' = Cardinality(Present)
    BY <1>5 DEF Count, C_GetSlotListLength, module
  <2>2. CASE pc' = "fetch"
    BY <1>1, <2>1, <2>2 DEF Followed, Visited, Visiting, InSession
  <2>3. CASE room' = 0 /\ pc' = "reply"
    <3>1. Present = {}
      <4>1. IsFiniteSet(Present)
        BY SlotsAssumption, FS_Subset DEF Present
      <4> QED BY <2>1, <2>3, <4>1, FS_EmptySet
    <3>2. reader[s] = NoCard
      BY <3>1 DEF Present
    <3>3. Gathered(s)'
      BY <1>1, <1>3, <1>4, <2>1, <3>2 DEF Gathered
    <3> QED BY <1>1, <2>1, <2>3, <3>3, AtReply
  <2> QED BY <1>5, <2>2, <2>3 DEF Count
<1>6. CASE Fetch
  <2>1. UNCHANGED <<reader, steady, request>> /\ pc = "fetch"
    BY <1>6 DEF Fetch, module
  <2>2. CASE pending' = Present /\ pc' = "slots" /\ UNCHANGED answer
    <3>1. rows' = <<>> /\ Told(s)' = {}
      BY <1>1, <1>4, <2>2 DEF answer
    <3>2. Lists(rows', reader'[s], 0)
      <4>1. rows' \in Seq(Row) /\ DOMAIN rows' = {}
        BY <1>1, <3>1 DEF TypeOK
      <4>2. \A i \in DOMAIN rows' : rows'[i].owner # reader'[s]
        BY <4>1
      <4> QED BY <4>1, <4>2, ListsNothing
    <3>3. Untold(s)'
      BY <3>1, <3>2 DEF Untold
    <3>4. s \notin pending' => Gathered(s)'
      BY <1>3, <2>1, <2>2, <3>1 DEF Present, Gathered
    <3> QED BY <1>1, <2>2, <3>3, <3>4 DEF Followed, Visited, Visiting, InSession
  <2>3. CASE Cardinality(Present) > room /\ GiveUp /\ UNCHANGED pending
    <3>1. steady # Slots
      BY <2>1, <2>3, PresentFinite DEF Room
    <3> QED BY <1>1, <2>1, <2>3, <3>1, AtReply DEF GiveUp
  <2> QED BY <1>6, <2>2, <2>3 DEF Fetch, C_GetSlotList
<1> QED BY <1>2, <1>5, <1>6

LEMMA FilterStep ==
  ASSUME TypeOK, Following, NEW t \in Slots, Filter(t), NEW s \in Slots, s \in steady'
  PROVE  Followed(s)'
<1>1. /\ UNCHANGED <<reader, request, tokens, rows, pc>>
      /\ pc = "slots" /\ t \in pending /\ pending' = pending \ {t}
      /\ steady' \subseteq steady
  BY DEF Filter, module, answer, Least, Blame
<1>2. Followed(s)
  BY <1>1 DEF Following
<1>3. (Untold(s)' <=> Untold(s)) /\ (Gathered(s)' <=> Gathered(s))
  BY <1>1, Unmoved
<1>4. CASE s # t
  <2>1. s \in pending' \cup usable' <=> s \in pending \cup usable
    BY <1>1, <1>4 DEF Filter
  <2>2. s \in usable' <=> s \in usable
    BY <1>1, <1>4 DEF Filter
  <2> QED BY <1>1, <1>2, <1>3, <2>1, <2>2 DEF Followed, Visited, Visiting, InSession
<1>5. CASE s = t
  <2>1. Untold(s)
    BY <1>1, <1>2, <1>5 DEF Followed
  <2>2. s \in usable' <=> reader[s] \in Initialized
    BY <1>1, <1>2, <1>5 DEF Filter, C_GetTokenInfo, Followed, Blame
  <2>3. reader[s] \notin Initialized => Gathered(s)
    BY <2>1 DEF Untold, Gathered
  <2> QED BY <1>1, <1>3, <1>5, <2>1, <2>2, <2>3 DEF Followed, Visited, Visiting, InSession
<1> QED BY <1>4, <1>5

LEMMA SkipStep ==
  ASSUME TypeOK, Following, NEW t \in Slots, Skip(t), NEW s \in Slots, s \in steady'
  PROVE  Followed(s)'
<1>1. /\ UNCHANGED <<reader, request, tokens, rows, pc, pending>>
      /\ pc = "slots" /\ usable' = usable \ {t}
      /\ s # t /\ s \in steady
  BY DEF Skip, module, answer, Blame
<1>2. Followed(s)
  BY <1>1 DEF Following
<1>3. (Untold(s)' <=> Untold(s)) /\ (Gathered(s)' <=> Gathered(s))
  BY <1>1, Unmoved
<1> QED BY <1>1, <1>2, <1>3 DEF Followed, Visited, Visiting, InSession

LEMMA VisitStep ==
  ASSUME TypeOK, Following, NEW t \in Slots, Visit(t), NEW s \in Slots, s \in steady'
  PROVE  Followed(s)'
<1> USE DEF Goto
<1>1. /\ UNCHANGED <<reader, request, rows, pending>>
      /\ pc = "slots" /\ pending = {} /\ t \in usable /\ usable' = usable \ {t}
      /\ s \in steady /\ reader[t] \in Cards
  BY DEF Visit, module, C_GetTokenInfo, Least
<1>2. Followed(s)
  BY <1>1 DEF Following
<1>3. CASE request = "hello"
  <2>1. tokens' = Append(tokens, reader[t]) /\ pc' = pc /\ at' = at
    BY <1>3 DEF Visit, C_GetTokenInfo
  <2>2. /\ DOMAIN tokens' = DOMAIN tokens \cup {Len(tokens) + 1}
        /\ \A i \in DOMAIN tokens : tokens'[i] = tokens[i]
        /\ tokens'[Len(tokens) + 1] = reader[t]
    BY <1>1, <2>1 DEF TypeOK
  <2>3. CASE s = t
    <3>1. Told(s) = {} /\ reader[s] \in Initialized
      BY <1>1, <1>2, <2>3 DEF Followed, Untold
    <3>2. Told(s)' = {Len(tokens) + 1}
      BY <1>1, <2>2, <2>3, <3>1 DEF Told
    <3>3. Gathered(s)'
      BY <1>1, <1>3, <2>2, <3>1, <3>2 DEF Gathered
    <3> QED BY <1>1, <2>1, <2>3, <3>3 DEF Followed, Visiting, InSession
  <2>4. CASE s # t
    <3>1. reader[s] # reader[t]
      BY <1>1, <2>4, CardsAssumption DEF Following, OneCardEach
    <3>2. Told(s)' = Told(s)
      BY <1>1, <2>2, <3>1 DEF Told
    <3>3. (Untold(s)' <=> Untold(s))
      BY <1>1, <3>2 DEF Untold
    <3>4. Gathered(s) => Gathered(s)'
      BY <1>1, <1>3, <2>2, <3>2 DEF Gathered
    <3> QED BY <1>1, <1>2, <2>1, <2>4, <3>3, <3>4 DEF Followed, Visited, Visiting, InSession
  <2> QED BY <2>3, <2>4
<1>4. CASE request # "hello"
  <2>1. tokens' = tokens /\ pc' = "open" /\ at' = t
    BY <1>4 DEF Visit
  <2>2. (Untold(s)' <=> Untold(s)) /\ (Gathered(s)' <=> Gathered(s))
    BY <1>1, <2>1, Unmoved
  <2> QED BY <1>1, <1>2, <2>1, <2>2 DEF Followed, Visited, Visiting, InSession
<1> QED BY <1>3, <1>4

LEMMA FinishStep ==
  ASSUME TypeOK, Following, Finish, NEW s \in Slots, s \in steady'
  PROVE  Followed(s)'
<1>1. /\ UNCHANGED <<reader, request, rows, tokens, pending, usable>>
      /\ pc = "slots" /\ pending = {} /\ usable = {} /\ s \in steady /\ pc' = "reply"
  BY DEF Finish, module, slots, Goto
<1>2. Gathered(s)
  BY <1>1 DEF Following, Followed, Visited, Visiting, InSession
<1>3. Gathered(s)'
  BY <1>1, <1>2, Unmoved
<1> QED BY <1>1, <1>3, AtReply

LEMMA OpenStep ==
  ASSUME TypeOK, Following, OpenSession, NEW s \in Slots, s \in steady'
  PROVE  Followed(s)'
<1> USE DEF Goto
<1>1. /\ UNCHANGED <<reader, request, pending, usable, at, tokens, rows>>
      /\ pc = "open" /\ pc' \in {"init", "slots"} /\ s \in steady
      /\ pending = {} /\ at \notin usable
  BY DEF OpenSession, C_OpenSession, module, slots, answer, Blame, Following, Stages, Visiting
<1>2. Followed(s)
  BY <1>1 DEF Following
<1>3. CASE s # at
  BY <1>1, <1>2, <1>3, Elsewhere DEF Visiting, InSession
<1>4. CASE s = at
  <2>1. /\ pc' = "init" /\ session' = reader[s] /\ class' = "public_key" /\ keys' = {}
    BY <1>4 DEF OpenSession, C_OpenSession, Blame
  <2>2. reader[s] \in Initialized /\ Lists(rows, reader[s], 0)
    BY <1>1, <1>2, <1>4 DEF Followed, Untold, Visiting
  <2>3. Read' = 0 /\ Searched' /\ KeyIds(session', 0) = {}
    BY <2>1 DEF Read, Searched, KeyIds
  <2>4. Halfway'
    BY <1>1, <1>4, <2>1, <2>2, <2>3 DEF Halfway
  <2> QED BY <1>1, <1>4, <2>1, <2>2, <2>4 DEF Followed, Visited, Visiting, InSession
<1> QED BY <1>3, <1>4

LEMMA ThrowStep ==
  ASSUME TypeOK, Following, Throw, NEW s \in Slots, s \in steady'
  PROVE  Followed(s)'
<1>1. /\ UNCHANGED <<reader, request, usable, pending>>
      /\ request = "list" /\ pending = {} /\ s \in steady
      /\ pc' = "reply" /\ tokens' = <<>> /\ rows' = <<>> /\ result' = "token_error"
  BY DEF Throw, Deinit, GiveUp, slots, Goto, Blame, Following, Stages, Visiting
<1>2. Lists(rows', reader'[s], 0) /\ Told(s)' = {}
  <2>1. rows' \in Seq(Row) /\ \A i \in DOMAIN rows' : rows'[i].owner # reader'[s]
    BY <1>1
  <2>2. Told(s)' = {}
    BY <1>1 DEF Told
  <2> QED BY <2>1, <2>2, ListsNothing
<1>3. Untold(s)' /\ (s \in usable => reader[s] \in Initialized)
  BY <1>1, <1>2 DEF Untold, Following, Followed
<1> QED BY <1>1, <1>3 DEF Followed, Visited, Visiting, InSession

(* The slot of an open session that has been steady so far.                *)
LEMMA InHand ==
  ASSUME TypeOK, Following, pc \in InSession, at \in steady, at \in Slots
  PROVE  /\ Halfway /\ session = reader[at] /\ reader[at] \in Initialized
         /\ at \notin pending \cup usable /\ request = "list"
         /\ session \in Cards /\ Sought \in Seq(Object) /\ PublicKeys \in Seq(Object)
         /\ Certificates(session) \in Seq(Object)
<1>1. Followed(at) /\ Stages
  BY DEF Following
<1>2. Halfway /\ reader[at] \in Initialized
  BY <1>1 DEF Followed, Visiting
<1>3. session = reader[at] /\ session \in Cards
  BY <1>2, CardsAssumption DEF Halfway
<1> QED BY <1>1, <1>2, <1>3, ObjectsOf
     DEF Stages, Visiting, Sought, PublicKeys, Certificates, TypeOK, Classes

LEMMA StillInHand ==
  ASSUME NEW s, s = at', Halfway', pc' \in InSession, s \notin pending' \cup usable',
         reader'[s] \in Initialized
  PROVE  Followed(s)'
BY DEF Followed, Visited, Visiting, InSession

LEMMA SameKeysAndRows ==
  ASSUME Halfway, Searched', Read' = Read,
         UNCHANGED <<reader, session, at, class, keys, rows>>
  PROVE  Halfway'
BY DEF Halfway, PublicKeys

LEMMA InitStep ==
  ASSUME TypeOK, Held, Following, FindObjectsInit, NEW s \in Slots, s \in steady'
  PROVE  Followed(s)'
<1> USE DEF Goto
<1>1. /\ UNCHANGED <<reader, session, request, pending, usable, at, class, keys, tokens, rows>>
      /\ pc = "init" /\ pc' = "page" /\ s \in steady
      /\ found' = <<>> /\ left' = Sought
  BY DEF FindObjectsInit, C_FindObjectsInit, slots, answer, Sought
<1>2. CASE s # at
  BY <1>1, <1>2, Elsewhere DEF Visiting, InSession, Following
<1>3. CASE s = at
  <2>1. /\ Halfway /\ reader[s] \in Initialized /\ s \notin pending \cup usable
        /\ Sought \in Seq(Object)
    BY <1>1, <1>3, InHand DEF InSession
  <2>2. Read = 0 /\ Read' = 0 /\ Sought' = Sought
    BY <1>1, <2>1 DEF Read, Sought
  <2>3. Searched'
    <3>1. Len(left') = Len(Sought) /\ Len(found') = 0 /\ DOMAIN found' = {}
      BY <1>1
    <3>2. \A i \in DOMAIN left' : left'[i] = Sought[0 + 0 + i]
      BY <1>1, <2>1
    <3> QED BY <1>1, <2>1, <2>2, <3>1, <3>2 DEF Searched
  <2>4. Halfway'
    BY <1>1, <2>1, <2>2, <2>3, SameKeysAndRows
  <2> QED BY <1>1, <1>3, <2>1, <2>4, StillInHand DEF InSession
<1> QED BY <1>2, <1>3

LEMMA PageStep ==
  ASSUME TypeOK, Held, Following, NEW n \in 0..PageSize, Page(n), NEW s \in Slots, s \in steady'
  PROVE  Followed(s)'
<1> USE DEF Goto
<1>1. /\ UNCHANGED <<reader, session, request, pending, usable, at, class, keys, tokens, rows>>
      /\ pc = "page" /\ pc' \in {"page", "read"} /\ s \in steady
  BY DEF Page, slots, answer, Blame
<1>2. CASE s # at
  BY <1>1, <1>2, Elsewhere DEF Visiting, InSession, Following
<1>3. CASE s = at
  <2>1. /\ Halfway /\ reader[s] \in Initialized /\ s \notin pending \cup usable
        /\ Sought \in Seq(Object)
    BY <1>1, <1>3, InHand DEF InSession
  <2>2. /\ n \in Nat /\ n <= Len(left) /\ Len(found') = Len(found) + n /\ Len(left') = Len(left) - n
        /\ DOMAIN found' = 1..Len(found) + n /\ DOMAIN left' = 1..Len(left) - n
        /\ \A i \in 1..Len(found) : found'[i] = found[i]
        /\ \A i \in 1..n : found'[Len(found) + i] = left[i]
        /\ \A i \in 1..Len(left) - n : left'[i] = left[n + i]
        /\ Len(left') = 0 => left' = <<>>
    <3>1. /\ found' = found \o SubSeq(left, 1, n) /\ left' = SubSeq(left, n + 1, Len(left))
          /\ n \in Nat /\ n <= Len(left) /\ found \in Seq(Object) /\ left \in Seq(Object)
      BY PageAssumption DEF Page, C_FindObjects, TypeOK, CryptokiTypeOK
    <3> QED BY <3>1, PageMoves
  <2>3. /\ Sought' = Sought /\ Read = Len(Sought) - (Len(found) + Len(left))
        /\ Read' = Len(Sought) - (Len(found') + Len(left'))
    BY <1>1 DEF Read, Sought
  <2>4. /\ Len(found) \in Nat /\ Len(left) \in Nat /\ Len(Sought) \in Nat
        /\ DOMAIN found = 1..Len(found) /\ DOMAIN left = 1..Len(left)
    BY <2>1 DEF TypeOK, CryptokiTypeOK
  <2>5. Read' = Read
    <3>1. n \in Nat /\ Len(found') = Len(found) + n /\ Len(left') = Len(left) - n
      BY <2>2
    <3>2. Len(found') + Len(left') = Len(found) + Len(left)
      BY <2>4, <3>1
    <3> QED BY <2>3, <3>2
  <2>6. /\ Len(found) + Len(left) <= Len(Sought) /\ Read = 0
        /\ \A i \in 1..Len(found) : found[i] = Sought[i]
        /\ \A i \in 1..Len(left) : left[i] = Sought[Len(found) + i]
    BY <1>1, <2>1, <2>4 DEF Halfway, Searched
  <2>7. pc' = "read" => left' = <<>>
    <3>1. (pc' = "read" => n < PageSize) /\ ~(n < FullPage)
      <4>1. /\ IF n < PageSize THEN pc' = "read" ELSE pc' = "page"
            /\ n < FullPage => steady' = steady \ {s}
        BY <1>1, <1>3, Zenon DEF Page, Blame
      <4> QED BY <4>1
    <3>2. pc' = "read" => n = Len(left)
      BY <2>2, <2>4, <3>1, PageAssumption DEF FullPage
    <3> QED BY <2>2, <2>4, <3>2
  <2>8. ASSUME NEW i \in DOMAIN found' PROVE found'[i] = Sought[i]
    <3>1. CASE i \in 1..Len(found)
      BY <2>2, <2>6, <3>1
    <3>2. CASE i \notin 1..Len(found)
      <4>1. i - Len(found) \in 1..n /\ i - Len(found) \in 1..Len(left)
            /\ Len(found) + (i - Len(found)) = i
        BY <2>2, <2>4, <3>2
      <4> QED BY <2>2, <2>6, <4>1
    <3> QED BY <3>1, <3>2
  <2>9. ASSUME NEW i \in DOMAIN left' PROVE left'[i] = Sought[Len(found') + i]
    <3>1. n + i \in 1..Len(left) /\ Len(found) + (n + i) = Len(found') + i
      BY <2>2, <2>4
    <3> QED BY <2>2, <2>6, <3>1
  <2>10. Searched'
    <3>1. /\ Len(found') + Len(left') <= Len(Sought')
          /\ \A i \in DOMAIN found' : found'[i] = Sought'[Read' + i]
          /\ \A i \in DOMAIN left' : left'[i] = Sought'[Read' + Len(found') + i]
      <4>1. Read' = 0 /\ Sought' = Sought
        BY <2>3, <2>5, <2>6
      <4>2. \A i \in DOMAIN found' : 0 + i = i
        BY <2>2, <2>4
      <4>3. 0 + Len(found') = Len(found')
        BY <2>2, <2>4
      <4>4. Len(found') + Len(left') = Len(found) + Len(left)
        BY <2>2, <2>4
      <4> QED BY <2>6, <2>8, <2>9, <4>1, <4>2, <4>3, <4>4
    <3> QED BY <1>1, <2>5, <2>6, <2>7, <3>1 DEF Searched
  <2>11. Halfway'
    BY <1>1, <2>1, <2>5, <2>10, SameKeysAndRows
  <2> QED BY <1>1, <1>3, <2>1, <2>11, StillInHand DEF InSession
<1> QED BY <1>2, <1>3

(* One object of what was found is read: the search has moved on by it.    *)
LEMMA OneRead ==
  ASSUME TypeOK, Searched, pc = "read", found # <<>>, found' = Tail(found),
         Sought \in Seq(Object), UNCHANGED <<pc, session, class, left>>
  PROVE  /\ Head(found) = Sought[Read + 1] /\ Head(found) \in Object
         /\ Read \in Nat /\ Read + 1 <= Len(Sought)
         /\ Read' = Read + 1 /\ Searched'
<1>1. /\ Len(found) \in Nat \ {0} /\ DOMAIN found = 1..Len(found) /\ Head(found) = found[1]
      /\ Head(found) \in Object /\ Len(Sought) \in Nat
      /\ Len(found') = Len(found) - 1 /\ DOMAIN found' = 1..Len(found) - 1
      /\ \A i \in 1..Len(found) - 1 : found'[i] = found[i + 1]
  <2>1. found \in Seq(Object) /\ found # <<>>
    BY DEF TypeOK
  <2>2. Len(found) \in Nat \ {0} /\ Tail(found) \in Seq(Object)
    BY <2>1, EmptySeq
  <2> QED BY <2>1, <2>2
<1>2. /\ Len(found) <= Len(Sought) /\ left = <<>> /\ Len(left) = 0
      /\ Read = Len(Sought) - Len(found)
      /\ \A i \in 1..Len(found) : found[i] = Sought[Read + i]
  <2>1. left = <<>> /\ Len(left) = 0
    BY DEF Searched
  <2> QED BY <1>1, <2>1 DEF Searched, Read
<1>3. /\ Read \in Nat /\ Read + 1 <= Len(Sought)
      /\ Head(found) = Sought[Read + 1]
  BY <1>1, <1>2
<1>4. Read' = Read + 1 /\ Sought' = Sought
  BY <1>1, <1>2 DEF Read, Sought
<1>5. ASSUME NEW i \in DOMAIN found' PROVE found'[i] = Sought[Read + 1 + i]
  <2>1. i + 1 \in 1..Len(found) /\ Read + (i + 1) = Read + 1 + i
    BY <1>1, <1>3
  <2> QED BY <1>1, <1>2, <2>1
<1>6. Searched'
  <2>1. DOMAIN left' = {} /\ Len(left') = 0 /\ left' = <<>>
    BY <1>2
  <2>2. Len(found') + Len(left') <= Len(Sought)
    BY <1>1, <1>2, <2>1
  <2> QED BY <1>4, <1>5, <2>1, <2>2 DEF Searched
<1> QED BY <1>1, <1>3, <1>4, <1>6

LEMMA ReadKeyStep ==
  ASSUME TypeOK, Held, Following, ReadKey, NEW s \in Slots, s \in steady'
  PROVE  Followed(s)'
<1>1. /\ UNCHANGED <<reader, session, request, pending, usable, at, class, left, tokens, rows, pc>>
      /\ pc = "read" /\ s \in steady /\ class = "public_key"
      /\ found # <<>> /\ found' = Tail(found) /\ keys' = keys \cup ({Head(found).id} \ {NoId})
  BY DEF ReadKey, module, slots, answer
<1>2. CASE s # at
  BY <1>1, <1>2, Elsewhere DEF Visiting, InSession, Following
<1>3. CASE s = at
  <2>1. /\ Halfway /\ reader[s] \in Initialized /\ s \notin pending \cup usable
        /\ Sought \in Seq(Object)
    BY <1>1, <1>3, InHand DEF InSession
  <2>2. /\ Head(found) = Sought[Read + 1] /\ Read \in Nat
        /\ Read' = Read + 1 /\ Searched'
    <3>1. Searched
      BY <2>1 DEF Halfway
    <3> QED BY <1>1, <2>1, <3>1, OneRead
  <2>3. keys = KeyIds(session, Read) /\ Lists(rows, session, 0)
    BY <1>1, <2>1 DEF Halfway
  <2>4. keys' = KeyIds(session, Read + 1)
    <3>1. 1..Read + 1 = (1..Read) \cup {Read + 1}
      BY <2>2
    <3>2. Head(found) = Objects[session]["public_key"][Read + 1]
      BY <1>1, <2>2 DEF Sought
    <3> QED BY <1>1, <2>3, <3>1, <3>2 DEF KeyIds
  <2>5. Halfway'
    BY <1>1, <2>1, <2>2, <2>3, <2>4 DEF Halfway
  <2> QED BY <1>1, <1>3, <2>1, <2>5, StillInHand DEF InSession
<1> QED BY <1>2, <1>3

LEMMA KeysReadStep ==
  ASSUME TypeOK, Held, Following, KeysRead, NEW s \in Slots, s \in steady'
  PROVE  Followed(s)'
<1> USE DEF Goto
<1>1. /\ UNCHANGED <<reader, session, request, pending, usable, at, keys, left, tokens, rows>>
      /\ pc = "read" /\ s \in steady /\ class = "public_key" /\ found = <<>>
      /\ class' = "certificate" /\ pc' = "init"
  BY DEF KeysRead, module, slots, answer
<1>2. CASE s # at
  BY <1>1, <1>2, Elsewhere DEF Visiting, InSession, Following
<1>3. CASE s = at
  <2>1. /\ Halfway /\ reader[s] \in Initialized /\ s \notin pending \cup usable
        /\ PublicKeys \in Seq(Object)
    BY <1>1, <1>3, InHand DEF InSession
  <2>2. Read = Len(PublicKeys)
    <3>1. left = <<>> /\ Len(PublicKeys) \in Nat
      BY <1>1, <2>1 DEF Halfway, Searched
    <3> QED BY <1>1, <3>1 DEF Read, Sought, PublicKeys
  <2>3. Read' = 0 /\ Searched' /\ PublicKeys' = PublicKeys
    BY <1>1 DEF Read, Searched, PublicKeys
  <2>4. Halfway'
    BY <1>1, <2>1, <2>2, <2>3 DEF Halfway
  <2> QED BY <1>1, <1>3, <2>1, <2>4, StillInHand DEF InSession
<1> QED BY <1>2, <1>3

LEMMA CloseStep ==
  ASSUME TypeOK, Held, Following, CloseSession, NEW s \in Slots, s \in steady'
  PROVE  Followed(s)'
<1> USE DEF Goto
<1>1. /\ UNCHANGED <<reader, request, pending, usable, at, tokens, rows>>
      /\ pc = "read" /\ s \in steady /\ class = "certificate" /\ found = <<>>
      /\ pc' = "slots"
  BY DEF CloseSession, Deinit, slots, answer
<1>2. CASE s # at
  BY <1>1, <1>2, Elsewhere DEF Visiting, InSession, Following
<1>3. CASE s = at
  <2>1. /\ Halfway /\ reader[s] \in Initialized /\ s \notin pending \cup usable
        /\ Certificates(session) \in Seq(Object) /\ request = "list" /\ session = reader[s]
    BY <1>1, <1>3, InHand DEF InSession
  <2>2. Read = Len(Certificates(session))
    <3>1. left = <<>> /\ Len(Certificates(session)) \in Nat
      BY <1>1, <2>1 DEF Halfway, Searched
    <3> QED BY <1>1, <3>1 DEF Read, Sought, Certificates
  <2>3. Gathered(s)
    BY <1>1, <2>1, <2>2 DEF Halfway, Gathered
  <2>4. Gathered(s)'
    BY <1>1, <2>3, Unmoved
  <2> QED BY <1>1, <2>1, <2>4 DEF Followed, Visiting, InSession
<1> QED BY <1>2, <1>3

LEMMA ReadCertificateStep ==
  ASSUME TypeOK, Held, Following, ReadCertificate, NEW s \in Slots, s \in steady'
  PROVE  Followed(s)'
<1> DEFINE row == [serial |-> info, owner |-> session, object |-> Head(found),
                   hasPrivateKey |-> Head(found).id \in keys]
<1>1. /\ UNCHANGED <<reader, session, request, pending, usable, at, class, keys, left, tokens, pc>>
      /\ pc = "read" /\ s \in steady /\ class = "certificate" /\ Alive
      /\ found # <<>> /\ found' = Tail(found)
      /\ rows' = IF Head(found).der THEN Append(rows, row) ELSE rows
  BY DEF ReadCertificate, C_GetAttributeValue, module, slots
<1>2. rows \in Seq(Row) /\ row \in Row /\ row.owner = session
  <2>1. found \in Seq(Object) /\ session \in Cards /\ info \in Cards /\ keys \subseteq Ids
    BY <1>1 DEF TypeOK, CryptokiTypeOK, Alive, Held, InSession
  <2>2. Head(found) \in Object
    BY <1>1, <2>1, HeadTailProperties
  <2>3. (Head(found).id \in keys) \in BOOLEAN
    OBVIOUS
  <2>4. row \in Row
    BY <2>1, <2>2, <2>3, Zenon DEF Row
  <2> QED BY <2>4 DEF TypeOK
<1>3. CASE s # at
  <2>1. reader[s] # session
    <3>1. session = reader[at] /\ at \in Slots /\ session # NoCard
      BY <1>1 DEF Following, Behind, InSession, Alive, Held
    <3> QED BY <1>3, <3>1 DEF Following, OneCardEach
  <2> HIDE DEF row
  <2>2. \A m \in Nat : Lists(rows, reader[s], m) => Lists(rows', reader[s], m)
    BY <1>1, <1>2, <2>1, ListsOther
  <2> QED BY <1>1, <1>3, <2>2, Elsewhere DEF Visiting, InSession, Following
<1>4. CASE s = at
  <2>1. /\ Halfway /\ reader[s] \in Initialized /\ s \notin pending \cup usable
        /\ Sought \in Seq(Object)
    BY <1>1, <1>4, InHand DEF InSession
  <2>2. /\ Head(found) = Sought[Read + 1] /\ Head(found) \in Object /\ Read \in Nat
        /\ Read' = Read + 1 /\ Searched'
    <3>1. Searched
      BY <2>1 DEF Halfway
    <3> QED BY <1>1, <2>1, <3>1, OneRead
  <2>3. keys = KeyIds(session, Len(PublicKeys)) /\ Lists(rows, session, Read)
    BY <1>1, <2>1 DEF Halfway
  <2>4. Head(found) = Certificates(session)[Read + 1]
    BY <1>1, <2>2 DEF Sought, Certificates
  <2>5. Head(found).id \in keys <=> Signable(session, Head(found))
    <3>1. PublicKeys \in Seq(Object)
      BY <1>1, <1>4, InHand DEF InSession
    <3>2. DOMAIN PublicKeys = 1..Len(PublicKeys)
      BY <3>1
    <3> QED BY <2>3, <3>2 DEF KeyIds, Signable, PublicKeys
  <2>6. Lists(rows', session, Read + 1)
    <3>1. CASE Head(found).der
      <4>1. row.object = Head(found) /\ (row.hasPrivateKey <=> Head(found).id \in keys)
        OBVIOUS
      <4> HIDE DEF row
      <4>2. row.object = Certificates(session)[Read + 1] /\ row.object.der
        BY <2>4, <3>1, <4>1
      <4>3. row.hasPrivateKey <=> Signable(session, row.object)
        BY <2>5, <4>1
      <4>4. rows' = Append(rows, row)
        BY <1>1, <3>1
      <4> QED BY <1>2, <2>2, <2>3, <4>2, <4>3, <4>4, ListsMore
    <3>2. CASE ~Head(found).der
      BY <1>1, <2>2, <2>3, <2>4, <3>2, ListsSkipped
    <3> QED BY <3>1, <3>2
  <2> HIDE DEF row
  <2>7. Halfway'
    <3>1. PublicKeys' = PublicKeys /\ UNCHANGED <<session, reader, at, keys, class>>
      BY <1>1 DEF PublicKeys
    <3> QED BY <1>1, <2>1, <2>2, <2>3, <2>6, <3>1 DEF Halfway
  <2> QED BY <1>1, <1>4, <2>1, <2>7, StillInHand DEF InSession
<1> QED BY <1>3, <1>4

(* A reader that is touched loses its slot the claim, and nothing said of  *)
(* the others is about it: no two slots have the same card.                *)
LEMMA TouchedStep ==
  ASSUME TypeOK, Held, Following,
         NEW t \in Slots, TakeOut(t) \/ \E c \in Cards : PutIn(t, c),
         NEW s \in Slots, s \in steady'
  PROVE  Followed(s)'
<1>1. /\ UNCHANGED <<pc, request, pending, usable, at, class, found, left, keys, tokens, rows,
                     result>>
      /\ s \in steady /\ s # t /\ (steady # Slots => steady' # Slots)
  BY DEF TakeOut, PutIn, Touched, Remove, Insert, slots, search, answer, Blame, TypeOK
<1>2. /\ reader'[s] = reader[s]
      /\ session' = session \/ (session = reader[t] /\ reader[t] # NoCard)
  <2>1. reader \in [Slots -> Cards \cup {NoCard}]
    BY DEF TypeOK, CryptokiTypeOK
  <2>2. CASE TakeOut(t)
    BY <1>1, <2>1, <2>2 DEF TakeOut, Remove
  <2>3. ASSUME NEW c \in Cards, PutIn(t, c) PROVE reader'[s] = reader[s] /\ session' = session
    BY <1>1, <2>1, <2>3 DEF PutIn, Insert
  <2> QED BY <2>2, <2>3
<1>3. Followed(s)
  BY <1>1 DEF Following
<1>4. Told(s)' = Told(s)
  BY <1>1, <1>2 DEF Told
<1>5. (Untold(s)' <=> Untold(s)) /\ (Gathered(s)' <=> Gathered(s))
  BY <1>1, <1>2, <1>4 DEF Untold, Gathered
<1>6. pc \in InSession /\ s = at => Halfway'
  <2> SUFFICES ASSUME pc \in InSession, s = at PROVE Halfway'
    OBVIOUS
  <2>1. Halfway
    BY <1>1, <1>3 DEF Followed, Visiting
  <2>2. session' = session
    BY <1>1, <1>2, <2>1 DEF Halfway, Following, OneCardEach
  <2>3. Read' = Read /\ (Searched' <=> Searched) /\ PublicKeys' = PublicKeys
    BY <1>1, <2>2 DEF Read, Searched, Sought, PublicKeys
  <2> QED BY <1>1, <1>2, <2>1, <2>2, <2>3 DEF Halfway
<1>7. Visited(s)' <=> Visited(s)
  BY <1>1 DEF Visited
<1> QED BY <1>1, <1>2, <1>3, <1>5, <1>6, <1>7 DEF Followed, Visiting

LEMMA FollowingNext ==
  ASSUME TypeOK, Held, SessionIsClosed, Room, Following, [Next]_vars PROVE Following'
<1>1. OneCardEach' /\ Behind' /\ Stages'
  BY BasicsNext DEF Following
<1>2. \A s \in steady : s \in Slots
  BY DEF TypeOK
<1>3. \A s \in steady' : s \in Slots
  BY TypeNext DEF TypeOK
<1>4. ASSUME NEW s \in Slots, s \in steady' PROVE Followed(s)'
  <2>1. CASE ModuleFails \/ Count \/ Fetch
    BY <1>4, <2>1, ListStep
  <2>2. CASE Finish
    BY <1>4, <2>2, FinishStep
  <2>3. CASE OpenSession
    BY <1>4, <2>3, OpenStep
  <2>4. CASE Throw
    BY <1>4, <2>4, ThrowStep
  <2>5. CASE FindObjectsInit
    BY <1>4, <2>5, InitStep
  <2>6. CASE ReadKey
    BY <1>4, <2>6, ReadKeyStep
  <2>7. CASE KeysRead
    BY <1>4, <2>7, KeysReadStep
  <2>8. CASE ReadCertificate
    BY <1>4, <2>8, ReadCertificateStep
  <2>9. CASE CloseSession
    BY <1>4, <2>9, CloseStep
  <2>10. CASE Reply
    BY <2>10 DEF Reply, Goto, Followed, Visited, Visiting, InSession
  <2>11. ASSUME NEW t \in Slots, Filter(t) \/ Skip(t) \/ Visit(t) PROVE Followed(s)'
    BY <1>4, <2>11, FilterStep, SkipStep, VisitStep
  <2>12. ASSUME NEW n \in 0..PageSize, Page(n) PROVE Followed(s)'
    BY <1>4, <2>12, PageStep
  <2>13. ASSUME NEW r \in {"hello", "list"}, Request(r) PROVE Followed(s)'
    BY <2>13 DEF Request, Goto, slots, Following, Stages, Followed, Visited, Visiting, InSession
  <2>14. ASSUME NEW t \in Slots, TakeOut(t) \/ \E c \in Cards : PutIn(t, c)
         PROVE  Followed(s)'
    BY <1>4, <2>14, TouchedStep
  <2>15. CASE UNCHANGED vars
    <3>1. Followed(s)
      BY <1>4, <2>15 DEF vars, Following
    <3>2. /\ Followed(s)' <=> Followed(s)
      BY <2>15 DEF vars, Followed, Untold, Gathered, Told, Visited, Halfway, Searched, Read,
                   Sought, PublicKeys
    <3> QED BY <3>1, <3>2
  <2> QED BY <2>1, <2>2, <2>3, <2>4, <2>5, <2>6, <2>7, <2>8, <2>9, <2>10, <2>11, <2>12,
             <2>13, <2>14, <2>15 DEF Next, Proceed
<1> QED BY <1>1, <1>3, <1>4 DEF Following

-----------------------------------------------------------------------------
(* The sessions of a slot add up: opening makes one more, C_CloseSession    *)
(* one less or one more it has refused, and a card takes all its own along.*)
LEMMA ClosedNext ==
  ASSUME TypeOK, Held, OneCardEach, Behind, SessionIsClosed, [Next]_vars
  PROVE  SessionIsClosed'
<1> USE DEF SessionIsClosed, InUse, InSession, Goto, Alive
<1>1. /\ sessions \in [Slots -> 0..MaxSessions] /\ unclosed \in [Slots -> Nat]
      /\ MaxSessions \in Nat /\ reader \in [Slots -> Cards \cup {NoCard}]
  BY SessionsAssumption DEF TypeOK, CryptokiTypeOK
<1>2. CASE ModuleFails \/ Count \/ Fetch \/ Finish
  BY <1>2 DEF ModuleFails, Count, Fetch, Finish, GiveUp, module
<1>3. CASE OpenSession
  <2>1. CASE C_OpenSession(at) /\ pc' = "init"
    <3>1. /\ at \in Slots /\ UNCHANGED <<at, unclosed>> /\ session' # NoCard
          /\ sessions' = [sessions EXCEPT ![at] = @ + 1]
      BY <1>3, <2>1, CardsAssumption DEF OpenSession, C_OpenSession, Held, slots
    <3> QED BY <1>1, <1>3, <2>1, <3>1 DEF OpenSession
  <2>2. CASE pc' = "slots" /\ UNCHANGED module
    BY <1>3, <2>2 DEF OpenSession, module
  <2> QED BY <1>3, <2>1, <2>2 DEF OpenSession
<1>4. CASE Throw \/ CloseSession
  <2>1. /\ Deinit /\ pc \in InSession /\ pc' \notin InSession /\ at \in Slots
    BY <1>4 DEF Throw, CloseSession, GiveUp, Held
  <2>2. CASE C_CloseSession(at) /\ UNCHANGED unclosed
    BY <1>1, <2>1, <2>2 DEF C_CloseSession
  <2>3. CASE Alive /\ unclosed' = [unclosed EXCEPT ![at] = @ + 1] /\ UNCHANGED sessions
    BY <1>1, <2>1, <2>3
  <2>4. CASE ~Alive /\ UNCHANGED <<sessions, unclosed>>
    BY <2>1, <2>4
  <2> QED BY <2>1, <2>2, <2>3, <2>4 DEF Deinit
<1>5. CASE FindObjectsInit \/ ReadKey \/ KeysRead \/ ReadCertificate
  BY <1>5 DEF FindObjectsInit, C_FindObjectsInit, ReadKey, KeysRead, ReadCertificate,
              module, slots
<1>6. CASE Reply
  BY <1>6 DEF Reply, module
<1>7. ASSUME NEW s \in Slots, Filter(s) \/ Skip(s) \/ Visit(s) PROVE SessionIsClosed'
  BY <1>7 DEF Filter, Skip, Visit, module
<1>8. ASSUME NEW n \in 0..PageSize, Page(n) PROVE SessionIsClosed'
  BY <1>8 DEF Page, slots
<1>9. ASSUME NEW r \in {"hello", "list"}, Request(r) PROVE SessionIsClosed'
  BY <1>9 DEF Request, module
<1>10. ASSUME NEW s \in Slots, TakeOut(s) PROVE SessionIsClosed'
  <2>1. /\ sessions' = [sessions EXCEPT ![s] = 0] /\ unclosed' = [unclosed EXCEPT ![s] = 0]
        /\ session' = IF session = reader[s] THEN NoCard ELSE session
        /\ reader[s] # NoCard /\ UNCHANGED <<pc, at>>
    BY <1>10 DEF TakeOut, Touched, Remove, slots
  <2>2. InUse(s) => session = reader[s]
    BY DEF Behind
  <2>3. ASSUME NEW t \in Slots, t # s, InUse(t) PROVE session # reader[s]
    BY <2>1, <2>3 DEF Behind, OneCardEach
  <2>4. ~InUse(s)'
    BY <2>1, <2>2
  <2>5. \A t \in Slots : t # s => InUse(t)' = InUse(t)
    BY <2>1, <2>3
  <2> QED BY <1>1, <2>1, <2>4, <2>5
<1>11. ASSUME NEW s \in Slots, NEW c \in Cards, PutIn(s, c) PROVE SessionIsClosed'
  BY <1>11 DEF PutIn, Touched, Insert, slots
<1>12. CASE UNCHANGED vars
  BY <1>12 DEF vars
<1> QED BY <1>2, <1>3, <1>4, <1>5, <1>6, <1>7, <1>8, <1>9, <1>10, <1>11, <1>12
     DEF Next, Proceed

Inv == TypeOK /\ Held /\ SessionIsClosed /\ Serials /\ Keys /\ FlagIsOwnKey /\ Room /\ Following

LEMMA InitInv == ASSUME Init PROVE Inv /\ Reasons
<1>1. <<>> \in Seq(Cards) /\ <<>> \in Seq(Row) /\ <<>> \in Seq(Object)
  BY EmptySeq
<1>2. CryptokiTypeOK
  <2>1. 0 \in 0..MaxSessions
    BY SessionsAssumption
  <2> QED BY <1>1, <2>1 DEF Init, CryptokiInit, CryptokiTypeOK
<1>3. TypeOK
  BY <1>1, <1>2 DEF Init, TypeOK, Classes
<1>4. Held /\ Serials /\ Keys /\ Reasons /\ Room
  BY DEF Init, CryptokiInit, Held, Serials, Keys, Reasons, Room, InSession
<1>5. FlagIsOwnKey
  BY DEF Init, FlagIsOwnKey
<1>6. OneCardEach
  BY DEF Init, CryptokiInit, OneCardEach
<1>7. Behind /\ Stages /\ \A s \in steady : Followed(s)
  BY DEF Init, Behind, Stages, Followed, Visited, Visiting, InSession
<1>8. SessionIsClosed
  BY DEF Init, CryptokiInit, SessionIsClosed, InUse, InSession
<1> QED BY <1>3, <1>4, <1>5, <1>6, <1>7, <1>8 DEF Inv, Following

LEMMA InvNext == ASSUME Inv, [Next]_vars PROVE Inv'
<1>1. OneCardEach /\ Behind
  BY DEF Inv, Following
<1>2. SessionIsClosed'
  BY <1>1, ClosedNext DEF Inv
<1> QED BY <1>2, TypeNext, HeldNext, SerialsNext, KeysNext, FlagNext, RoomNext, FollowingNext
       DEF Inv

LEMMA Invariance == Spec => []Inv
BY InitInv, InvNext, PTL DEF Spec

(* Every variable keeps its type, with the errors and the removals in it.  *)
THEOREM TypeCorrect == Spec => []TypeOK
<1>1. Inv => TypeOK
  BY DEF Inv
<1> QED BY <1>1, Invariance, PTL

(* Every way out of a method gives the session it opened to C_CloseSession *)
(* and gives it there once: what a card still has open is what that call   *)
(* has refused to close, besides the session in use.                       *)
THEOREM SessionClosed == Spec => []SessionIsClosed
<1>1. Inv => SessionIsClosed
  BY DEF Inv
<1> QED BY <1>1, Invariance, PTL

(* A certificate is flagged for a key of its own card and for no other.    *)
THEOREM FlagOwnKey == Spec => []FlagIsOwnKey
<1>1. Inv => FlagIsOwnKey
  BY DEF Inv
<1> QED BY <1>1, Invariance, PTL

(* Whatever happens in the other readers and however the module pages its  *)
(* answers, a card that stayed and answered is in an answer that is ok     *)
(* exactly once, with every certificate, in order and rightly flagged.     *)
THEOREM SteadyCardsListed == Spec => []SteadyCardsAreListed
<1>1. TypeOK /\ Following => SteadyCardsAreListed
  <2> DEFINE Answered(s) ==
               IF request = "hello"
                 THEN \/ Cardinality(Told(s)) = Cardinality(Expected(s))
                      \/ tokens = <<>> /\ steady # Slots
                 ELSE \A c \in Expected(s) : Lists(rows, c, Len(Certificates(c)))
  <2>0. SteadyCardsAreListed <=> (pc = "reply" /\ result = "ok" => \A s \in steady : Answered(s))
    BY Zenon DEF SteadyCardsAreListed, Told, Certificates
  <2> SUFFICES ASSUME TypeOK, Following, pc = "reply", result = "ok", NEW s \in steady
               PROVE  Answered(s)
    BY <2>0
  <2>1. Gathered(s) \/ (request = "hello" /\ tokens = <<>> /\ steady # Slots)
    BY DEF Following, Followed
  <2>2. CASE Gathered(s) /\ request = "hello"
    <3>1. CASE reader[s] \in Initialized
      <4>1. PICK i \in DOMAIN tokens : Told(s) = {i}
        BY <2>2, <3>1 DEF Gathered
      <4>2. Cardinality({i}) = 1 /\ Cardinality({reader[s]}) = 1
        BY FS_Singleton
      <4> QED BY <2>2, <3>1, <4>1, <4>2 DEF Expected
    <3>2. CASE reader[s] \notin Initialized
      BY <2>2, <3>2 DEF Gathered, Expected
    <3> QED BY <3>1, <3>2
  <2>3. CASE Gathered(s) /\ request # "hello"
    BY <2>3 DEF Gathered, Expected
  <2> QED BY <2>1, <2>2, <2>3
<1>2. Inv => SteadyCardsAreListed
  BY <1>1 DEF Inv
<1> QED BY <1>2, Invariance, PTL

(* Unless the card was exchanged in the moment before the session was      *)
(* opened, a row goes by the serial of the card it was read from.          *)
THEOREM RowsOwnSerial == Spec => RowsUnderOwnSerial
<1> DEFINE Own == \A i \in DOMAIN rows' \ DOMAIN rows :
                    rows'[i].serial = rows'[i].owner \/ at \in swapped
<1>1. Inv /\ [Next]_vars => [Own]_vars
  <2> SUFFICES ASSUME Inv, [Next]_vars, ~UNCHANGED vars PROVE Own
    OBVIOUS
  <2>1. CASE ReadCertificate
    <3> DEFINE row == [serial |-> info, owner |-> session, object |-> Head(found),
                       hasPrivateKey |-> Head(found).id \in keys]
    <3>1. /\ rows' = rows \/ rows' = Append(rows, row)
          /\ session # NoCard /\ pc = "read" /\ rows \in Seq(Row)
      BY <2>1 DEF ReadCertificate, C_GetAttributeValue, Alive, Inv, TypeOK
    <3>2. row.serial = row.owner \/ at \in swapped
      BY <3>1 DEF Inv, Serials, InSession
    <3> HIDE DEF row
    <3>3. \A i \in DOMAIN rows' \ DOMAIN rows : rows'[i] = row
      BY <3>1
    <3> QED BY <3>2, <3>3
  <2>2. CASE rows' = <<>> \/ rows' = rows
    BY <2>2
  <2>3. ~ReadCertificate => rows' = <<>> \/ rows' = rows
    BY DEF Next, Proceed, ModuleFails, Count, Fetch, Finish, OpenSession, Throw, GiveUp,
           FindObjectsInit, ReadKey, KeysRead, CloseSession, Reply, Filter, Skip, Visit,
           Page, Request, TakeOut, PutIn, Touched, search, answer, vars
  <2> QED BY <2>1, <2>2, <2>3
<1> QED BY <1>1, Invariance, PTL DEF Spec, RowsUnderOwnSerial

(* A listing on a machine with readers fails only when something happened  *)
(* to a call or a card: nothing a card can hold makes it fail.             *)
THEOREM FailsWithReason ==
  ASSUME Slots # {} PROVE Spec => []FailsForAReason
<1>1. Inv /\ Reasons /\ [Next]_vars => Reasons'
  BY ReasonsNext DEF Inv
<1>2. Reasons => FailsForAReason
  BY DEF Reasons, FailsForAReason
<1> QED BY <1>1, <1>2, InitInv, Invariance, PTL DEF Spec
=============================================================================

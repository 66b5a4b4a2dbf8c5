------------------------ MODULE PairingStore_proofs ------------------------
(***************************************************************************)
(* Proofs about PairingStore, for any sets of processes and origins.       *)
(* Each invariant is inductive relative to the ones proved before it:      *)
(*   TypeInv   types; a window always belongs to an origin; no reply is    *)
(*             left over from an earlier request                           *)
(*   Consent   what the file, the copies and the answers may hold          *)
(*   FileInv   how the copies, the file and the record hang together       *)
(*   CodeInv   the code is on the wire before its window opens             *)
(***************************************************************************)
EXTENDS PairingStore, TLAPS

TypeInv ==
  /\ TypeOK
  /\ \A h \in Hosts : phase[h] \in {"coded", "window"} => request[h].origin \in Origins
  /\ \A h \in Hosts : phase[h] # "answering" => reply[h] = "none"

FileInv ==
  /\ stale \subseteq Live
  /\ CurrentCopy
  /\ RecordExact

CodeInv ==
  \A h \in Hosts : phase[h] \in {"coded", "window"} /\ wire[h] => code[h] = "sent"

-----------------------------------------------------------------------------
LEMMA InitType == Init => TypeInv
<1> SUFFICES ASSUME Init PROVE TypeInv
  OBVIOUS
<1>1. NoRequest \in Requests
  BY DEF NoRequest, Requests, Types
<1>2. "none" \in Replies
  BY DEF Replies
<1> QED BY <1>1, <1>2 DEF Init, TypeInv, TypeOK

(* The ways out of a step, once for all the actions that share them.       *)
LEMMA OffType == ASSUME TypeInv, NEW h \in Hosts, Off(h) PROVE TypeInv'
<1>1. NoRequest \in Requests
  BY DEF NoRequest, Requests, Types
<1>2. "none" \in Replies
  BY DEF Replies
<1> QED BY <1>1, <1>2 DEF Off, TypeInv, TypeOK

LEMMA RespondType ==
  ASSUME TypeInv, NEW h \in Hosts, NEW r \in Replies, Respond(h, r),
         UNCHANGED <<store, hist, request, code, wire>>
  PROVE  TypeInv'
BY DEF Respond, TypeInv, TypeOK, store, hist

LEMMA NextType == TypeInv /\ [Next]_vars => TypeInv'
<1> SUFFICES ASSUME TypeInv, [Next]_vars PROVE TypeInv'
  OBVIOUS
<1> USE DEF TypeInv, TypeOK
<1>1. ASSUME NEW h \in Hosts, Launch(h) PROVE TypeInv'
  BY <1>1 DEF Launch, Load, hist
<1>2. ASSUME NEW h \in Hosts, HangUp(h) PROVE TypeInv'
  BY <1>2 DEF HangUp, store, hist
<1>3. ASSUME NEW h \in Hosts, Kill(h) \/ Leave(h) PROVE TypeInv'
  BY <1>3, OffType DEF Kill, Leave
<1>4. ASSUME NEW h \in Hosts, NEW m \in Requests, Read(h, m) PROVE TypeInv'
  BY <1>4 DEF Read, store, hist
<1>5. ASSUME NEW h \in Hosts,
             Hello(h) \/ RequirePairing(h) \/ BadRequest(h) \/ AlreadyPaired(h) \/ Refuse(h)
      PROVE  TypeInv'
  <2>1. {"hello:paired", "hello:unpaired", "unsupported_protocol", "served",
         "not_paired", "bad_request", "paired", "refused"} \subseteq Replies
    BY DEF Replies
  <2>2. PICK r \in Replies : Respond(h, r) /\ UNCHANGED <<store, hist, request, code, wire>>
    BY <1>5, <2>1 DEF Hello, RequirePairing, BadRequest, AlreadyPaired, Refuse
  <2> QED BY <2>2, RespondType
<1>6. ASSUME NEW h \in Hosts, EmitCode(h) PROVE TypeInv'
  <2>1. request[h].origin \in Origins
    BY <1>6 DEF EmitCode, Asked, Origin, Requests
  <2> QED BY <1>6, <2>1 DEF EmitCode, Asked, store, hist
<1>7. ASSUME NEW h \in Hosts, OpenWindow(h) PROVE TypeInv'
  BY <1>7 DEF OpenWindow, store, hist
<1>8. ASSUME NEW h \in Hosts, NEW saved \in BOOLEAN, Approve(h, saved) PROVE TypeInv'
  <2>1. Origin(h) \in Origins
    BY <1>8 DEF Approve, Origin
  <2>2. "paired" \in Replies
    BY DEF Replies
  <2> QED BY <1>8, <2>1, <2>2 DEF Approve, Respond, Persist, Live
<1>9. ASSUME NEW h \in Hosts, Send(h) PROVE TypeInv'
  <2>1. CASE Off(h)
    BY <2>1, OffType
  <2>2. CASE NextRequest(h)
    <3>1. NoRequest \in Requests
      BY DEF NoRequest, Requests, Types
    <3>2. "none" \in Replies
      BY DEF Replies
    <3> QED BY <2>2, <3>1, <3>2 DEF NextRequest, store, hist
  <2> QED BY <1>9, <2>1, <2>2 DEF Send
<1>10. ASSUME Forget PROVE TypeInv'
  BY <1>10 DEF Forget, Live, loop
<1>11. CASE UNCHANGED vars
  BY <1>11 DEF vars
<1> QED
  BY <1>1, <1>2, <1>3, <1>4, <1>5, <1>6, <1>7, <1>8, <1>9, <1>10, <1>11 DEF Next, Handle

LEMMA TypeInvariant == Spec => []TypeInv
BY InitType, NextType, PTL DEF Spec

(* Every variable has its type in every reachable state.                   *)
THEOREM TypeCorrect == Spec => []TypeOK
<1>1. TypeInv => TypeOK
  BY DEF TypeInv
<1> QED BY <1>1, TypeInvariant, PTL

-----------------------------------------------------------------------------
LEMMA NextConsent ==
  TypeInv /\ ConsentNeeded /\ [Next]_vars => ConsentNeeded'
<1> SUFFICES ASSUME TypeInv, ConsentNeeded, [Next]_vars PROVE ConsentNeeded'
  OBVIOUS
<1> USE DEF TypeInv, TypeOK, ConsentNeeded, Origin, Granting
<1>1. ASSUME NEW h \in Hosts, Launch(h) PROVE ConsentNeeded'
  BY <1>1 DEF Launch, Load, hist
<1>2. ASSUME NEW h \in Hosts, HangUp(h) PROVE ConsentNeeded'
  BY <1>2 DEF HangUp, store, hist
<1>3. ASSUME NEW h \in Hosts, Off(h) PROVE ConsentNeeded'
  BY <1>3 DEF Off
<1>4. ASSUME NEW h \in Hosts, NEW m \in Requests, Read(h, m) PROVE ConsentNeeded'
  BY <1>4 DEF Read, store, hist
<1>5. ASSUME NEW h \in Hosts, Hello(h) PROVE ConsentNeeded'
  BY <1>5 DEF Hello, Respond, IsPaired, store, hist
<1>6. ASSUME NEW h \in Hosts, RequirePairing(h) PROVE ConsentNeeded'
  BY <1>6 DEF RequirePairing, Respond, IsPaired, store, hist
<1>7. ASSUME NEW h \in Hosts, BadRequest(h) PROVE ConsentNeeded'
  BY <1>7 DEF BadRequest, Respond, store, hist
<1>8. ASSUME NEW h \in Hosts, AlreadyPaired(h) PROVE ConsentNeeded'
  BY <1>8 DEF AlreadyPaired, Respond, IsPaired, store, hist
<1>9. ASSUME NEW h \in Hosts, EmitCode(h) \/ OpenWindow(h) PROVE ConsentNeeded'
  BY <1>9 DEF EmitCode, OpenWindow, store, hist
<1>10. ASSUME NEW h \in Hosts, NEW saved \in BOOLEAN, Approve(h, saved) PROVE ConsentNeeded'
  BY <1>10 DEF Approve, Respond, Persist
<1>11. ASSUME NEW h \in Hosts, Refuse(h) PROVE ConsentNeeded'
  BY <1>11 DEF Refuse, Respond, store, hist
<1>12. ASSUME NEW h \in Hosts, NextRequest(h) PROVE ConsentNeeded'
  BY <1>12 DEF NextRequest, store, hist
<1>13. ASSUME Forget PROVE ConsentNeeded'
  BY <1>13 DEF Forget, loop
<1>14. CASE UNCHANGED vars
  BY <1>14 DEF vars
<1> QED
  BY <1>1, <1>2, <1>3, <1>4, <1>5, <1>6, <1>7, <1>8, <1>9, <1>10, <1>11, <1>12, <1>13, <1>14
     DEF Next, Handle, Leave, Kill, Send

(* Nothing but a person's click makes an origin paired.                    *)
THEOREM ConsentIsNeeded == Spec => []ConsentNeeded
<1>1. Init => ConsentNeeded
  BY DEF Init, ConsentNeeded, Granting
<1> QED BY <1>1, TypeInvariant, NextConsent, PTL DEF Spec

-----------------------------------------------------------------------------
(* Steps that leave the file, every copy, the record and the set of live   *)
(* processes alone cannot disturb how they hang together.                  *)
LEMMA FileFrame ==
  ASSUME FileInv, UNCHANGED <<store, hist>>, Live' = Live PROVE FileInv'
BY DEF FileInv, CurrentCopy, RecordExact, store, hist

LEMMA NextFile == TypeInv /\ FileInv /\ [Next]_vars => FileInv'
<1> SUFFICES ASSUME TypeInv, FileInv, [Next]_vars PROVE FileInv'
  OBVIOUS
<1> USE DEF TypeInv, TypeOK
<1>1. ASSUME NEW h \in Hosts, Launch(h) PROVE FileInv'
  BY <1>1 DEF Launch, Load, hist, FileInv, CurrentCopy, RecordExact, Live
<1>2. ASSUME NEW h \in Hosts, Off(h) PROVE FileInv'
  BY <1>2 DEF Off, FileInv, CurrentCopy, RecordExact, Live
<1>3. ASSUME NEW h \in Hosts,
             \/ HangUp(h) \/ Hello(h) \/ RequirePairing(h) \/ BadRequest(h)
             \/ AlreadyPaired(h) \/ EmitCode(h) \/ OpenWindow(h) \/ Refuse(h)
             \/ NextRequest(h) /\ phase[h] = "answering"
             \/ \E m \in Requests : Read(h, m)
      PROVE  FileInv'
  <2>1. UNCHANGED <<store, hist>>
    BY <1>3 DEF HangUp, Hello, RequirePairing, BadRequest, AlreadyPaired, EmitCode,
                OpenWindow, Refuse, NextRequest, Read, store, hist
  <2>2. Live' = Live
    BY <1>3 DEF HangUp, Hello, RequirePairing, BadRequest, AlreadyPaired, EmitCode,
                OpenWindow, Refuse, NextRequest, Read, Respond, Asked, Live
  <2> QED BY <2>1, <2>2, FileFrame
<1>4. ASSUME NEW h \in Hosts, NEW saved \in BOOLEAN, Approve(h, saved) PROVE FileInv'
  <2>1. h \in Live /\ Live' = Live
    BY <1>4 DEF Approve, Respond, Live
  <2>2. approved' = [approved EXCEPT ![h] = approved[h] \cup {Origin(h)}]
    BY <1>4 DEF Approve
  <2>3. (stale \subseteq Live /\ CurrentCopy)'
    <3>1. CASE saved
      <4>1. stale' = Live \ {h} /\ file' = approved'[h]
        BY <1>4, <2>2, <3>1 DEF Approve, Persist
      <4> QED BY <4>1, <2>1 DEF CurrentCopy
    <3>2. CASE ~saved
      <4>1. stale' = stale \cup {h} /\ file' = file
        BY <1>4, <3>2 DEF Approve, Persist
      <4> QED BY <4>1, <2>1, <2>2 DEF FileInv, CurrentCopy
    <3> QED BY <3>1, <3>2
  <2>4. RecordExact'
    <3> SUFFICES ASSUME ~tainted' PROVE file' = record'
      BY DEF RecordExact
    <3>1. saved /\ h \notin stale /\ ~tainted
      BY <1>4 DEF Approve
    <3>2. approved[h] = file /\ file = record
      BY <3>1, <2>1 DEF FileInv, CurrentCopy, RecordExact
    <3> QED BY <1>4, <3>1, <3>2 DEF Approve, Persist
  <2> QED BY <2>3, <2>4 DEF FileInv
<1>5. ASSUME Forget PROVE FileInv'
  BY <1>5 DEF Forget, loop, FileInv, CurrentCopy, RecordExact, Live
<1>6. CASE UNCHANGED vars
  BY <1>6, FileFrame DEF vars, store, hist, Live
<1> QED
  BY <1>1, <1>2, <1>3, <1>4, <1>5, <1>6 DEF Next, Handle, Leave, Kill, Send

LEMMA FileInvariant == Spec => []FileInv
<1>1. Init => FileInv
  BY DEF Init, FileInv, CurrentCopy, RecordExact, Live
<1> QED BY <1>1, TypeInvariant, NextFile, PTL DEF Spec

(* A copy differs from the file only after another process's write, a      *)
(* deletion or a failed write of its own.                                  *)
THEOREM CopyIsCurrent == Spec => []CurrentCopy
<1>1. FileInv => CurrentCopy
  BY DEF FileInv
<1> QED BY <1>1, FileInvariant, PTL

(* While no write failed or came from a stale copy, the file is exactly    *)
(* the approvals given since it was last deleted.                          *)
THEOREM FileIsTheRecord == Spec => []RecordExact
<1>1. FileInv => RecordExact
  BY DEF FileInv
<1> QED BY <1>1, FileInvariant, PTL

-----------------------------------------------------------------------------
LEMMA NextCode == TypeInv /\ CodeInv /\ [Next]_vars => CodeInv'
<1> SUFFICES ASSUME TypeInv, CodeInv, [Next]_vars PROVE CodeInv'
  OBVIOUS
<1> USE DEF TypeInv, TypeOK, CodeInv
<1>1. ASSUME NEW h \in Hosts, Launch(h) PROVE CodeInv'
  BY <1>1 DEF Launch
<1>2. ASSUME NEW h \in Hosts, HangUp(h) PROVE CodeInv'
  BY <1>2 DEF HangUp
<1>3. ASSUME NEW h \in Hosts, Off(h) PROVE CodeInv'
  BY <1>3 DEF Off
<1>4. ASSUME NEW h \in Hosts,
             \/ Hello(h) \/ RequirePairing(h) \/ BadRequest(h) \/ AlreadyPaired(h)
             \/ Refuse(h) \/ \E saved \in BOOLEAN : Approve(h, saved)
      PROVE  CodeInv'
  BY <1>4 DEF Hello, RequirePairing, BadRequest, AlreadyPaired, Refuse, Approve, Respond
<1>5. ASSUME NEW h \in Hosts, EmitCode(h) PROVE CodeInv'
  BY <1>5 DEF EmitCode
<1>6. ASSUME NEW h \in Hosts, OpenWindow(h) PROVE CodeInv'
  BY <1>6 DEF OpenWindow
<1>7. ASSUME NEW h \in Hosts, NextRequest(h) \/ \E m \in Requests : Read(h, m) PROVE CodeInv'
  BY <1>7 DEF NextRequest, Read
<1>8. CASE Forget \/ UNCHANGED vars
  BY <1>8 DEF Forget, loop, vars
<1> QED
  BY <1>1, <1>2, <1>3, <1>4, <1>5, <1>6, <1>7, <1>8 DEF Next, Handle, Leave, Kill, Send

(* A page whose port is open has its code before the window opens.         *)
THEOREM CodeComesFirst == Spec => []CodeBeforeWindow
<1>1. Init => CodeInv
  BY DEF Init, CodeInv
<1>2. CodeInv => CodeBeforeWindow
  BY DEF CodeInv, CodeBeforeWindow
<1> QED BY <1>1, <1>2, TypeInvariant, NextCode, PTL DEF Spec
=============================================================================

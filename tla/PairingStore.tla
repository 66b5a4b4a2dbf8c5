---------------------------- MODULE PairingStore ----------------------------
(***************************************************************************)
(* Pairing: which origins the person has approved, in one file that any    *)
(* number of host processes share.                                         *)
(*                                                                         *)
(* The browser starts one signbridge-host per native port.  Each builds    *)
(* ONE PairingStore, which reads paired.json when it is built and never    *)
(* again, answers every later question from that copy, and writes the      *)
(* whole copy back after an approval.  Processes run concurrently, a       *)
(* pairing window stays open for as long as the person takes, the browser  *)
(* may hang up at any moment, a process may be killed, and the person may  *)
(* delete the file (README: "a plain file you can read and delete").       *)
(*                                                                         *)
(* An atomic step is what no other process can observe in the middle: the  *)
(* load, an in-memory decision, one frame on the wire, one click in the    *)
(* window with the write it causes.                                        *)
(***************************************************************************)
CONSTANTS Hosts,     \* host processes (an identifier is reused by Launch)
          Origins,   \* web origins
          NoOrigin   \* a request whose origin is absent or empty

ASSUME NoOriginAssumption == NoOrigin \notin Origins

VARIABLES
  file,      \* what paired.json decodes to ({} when absent or unreadable)
  approved,  \* approved[h]: the copy h holds, PairingStore.approved
  phase,     \* phase[h]: where h is in the loop of main.swift
  request,   \* request[h]: the request h is handling
  code,      \* code[h]: what became of that request's pairing code
  reply,     \* reply[h]: the answer respond() has produced
  wire,      \* wire[h]: the browser still holds its end of the port
  \* History: these three never influence a step.
  consented, \* origins the person approved at any time, in any process
  record,    \* approvals since the file was last deleted
  stale,     \* live processes whose copy may differ from the file
  tainted    \* some write since then was lost or made from a stale copy

store == <<file, approved>>
loop  == <<phase, request, code, reply, wire>>
hist  == <<consented, record, stale, tainted>>
vars  == <<file, approved, phase, request, code, reply, wire,
           consented, record, stale, tainted>>

(* "use" is listCertificates or sign: both pass requirePairing first.      *)
Types    == {"hello", "hello-other-protocol", "pair", "use", "unknown"}
Requests == [type : Types, origin : Origins \cup {NoOrigin}]

Replies == {"none", "hello:paired", "hello:unpaired", "unsupported_protocol",
            "paired", "refused", "not_paired", "served", "bad_request"}

(* Answers that tell an origin it is paired, or act on its being so.       *)
Granting == {"hello:paired", "paired", "served"}

Live == {h \in Hosts : phase[h] # "off"}

TypeOK ==
  /\ file \in SUBSET Origins
  /\ approved \in [Hosts -> SUBSET Origins]
  /\ phase \in [Hosts -> {"off", "idle", "asked", "coded", "window", "answering"}]
  /\ request \in [Hosts -> Requests]
  /\ code \in [Hosts -> {"none", "sent", "lost"}]
  /\ reply \in [Hosts -> Replies]
  /\ wire \in [Hosts -> BOOLEAN]
  /\ consented \in SUBSET Origins
  /\ record \in SUBSET Origins
  /\ stale \in SUBSET Hosts
  /\ tainted \in BOOLEAN

(* No process runs; the file may hold approvals of earlier days.           *)
NoRequest == [type |-> "unknown", origin |-> NoOrigin]

Init ==
  /\ file \in SUBSET Origins
  /\ approved = [h \in Hosts |-> {}]
  /\ phase = [h \in Hosts |-> "off"]
  /\ request = [h \in Hosts |-> NoRequest]
  /\ code = [h \in Hosts |-> "none"]
  /\ reply = [h \in Hosts |-> "none"]
  /\ wire = [h \in Hosts |-> FALSE]
  /\ consented = file
  /\ record = file
  /\ stale = {}
  /\ tainted = FALSE

(***************************************************************************)
(* The process and its wire.                                               *)
(***************************************************************************)
(* Mutant: the file is not read.                                           *)
LoadNothing(h) == approved' = [approved EXCEPT ![h] = {}]

(* PairingStore.init: the one and only read of the file.                   *)
Load(h) == approved' = [approved EXCEPT ![h] = file]

Launch(h) ==
  /\ phase[h] = "off"
  /\ Load(h)
  /\ phase' = [phase EXCEPT ![h] = "idle"]
  /\ wire' = [wire EXCEPT ![h] = TRUE]
  /\ UNCHANGED <<file, hist, request, code, reply>>

(* channel.read() and decode: one request enters the handler.              *)
Read(h, m) ==
  /\ phase[h] = "idle" /\ wire[h]
  /\ phase' = [phase EXCEPT ![h] = "asked"]
  /\ request' = [request EXCEPT ![h] = m]
  /\ UNCHANGED <<store, hist, code, reply, wire>>

HangUp(h) ==
  /\ wire[h]
  /\ wire' = [wire EXCEPT ![h] = FALSE]
  /\ UNCHANGED <<store, hist, phase, request, code, reply>>

(* The process is gone, and its memory with it; the file stays.            *)
Off(h) ==
  /\ approved' = [approved EXCEPT ![h] = {}]
  /\ phase' = [phase EXCEPT ![h] = "off"]
  /\ request' = [request EXCEPT ![h] = NoRequest]
  /\ code' = [code EXCEPT ![h] = "none"]
  /\ reply' = [reply EXCEPT ![h] = "none"]
  /\ wire' = [wire EXCEPT ![h] = FALSE]
  /\ stale' = stale \ {h}
  /\ UNCHANGED <<file, consented, record, tainted>>

(* Mutant: end of stream is taken for an undecodable message.              *)
LeaveNever(h) == FALSE

(* End of stream between two requests: leave(0).                           *)
Leave(h) == phase[h] = "idle" /\ ~wire[h] /\ Off(h)

(* A signal, or a write to a closed pipe that was not turned into an error.*)
Kill(h) == phase[h] # "off" /\ Off(h)

(***************************************************************************)
(* RequestHandler.respond.                                                 *)
(***************************************************************************)
Origin(h)   == request[h].origin
IsPaired(h) == Origin(h) \in approved[h]
(* Mutant: the origin guard is dropped.                                    *)
AskedByAnyone(h, t) == phase[h] = "asked" /\ request[h].type = t

Asked(h, t) == phase[h] = "asked" /\ Origin(h) # NoOrigin /\ request[h].type = t

Respond(h, r) ==
  /\ phase' = [phase EXCEPT ![h] = "answering"]
  /\ reply' = [reply EXCEPT ![h] = r]

Hello(h) ==
  /\ \/ /\ Asked(h, "hello")
        /\ Respond(h, IF IsPaired(h) THEN "hello:paired" ELSE "hello:unpaired")
     \/ Asked(h, "hello-other-protocol") /\ Respond(h, "unsupported_protocol")
  /\ UNCHANGED <<store, hist, request, code, wire>>

RequirePairing(h) ==
  /\ Asked(h, "use")
  /\ Respond(h, IF IsPaired(h) THEN "served" ELSE "not_paired")
  /\ UNCHANGED <<store, hist, request, code, wire>>

(* Back to channel.read(); nothing of the request is kept.                 *)
NextRequest(h) ==
  /\ phase' = [phase EXCEPT ![h] = "idle"]
  /\ request' = [request EXCEPT ![h] = NoRequest]
  /\ code' = [code EXCEPT ![h] = "none"]
  /\ reply' = [reply EXCEPT ![h] = "none"]
  /\ UNCHANGED <<store, hist, wire>>

(* Mutant: a request that makes no sense is skipped.                       *)
BadRequestSkipped(h) ==
  /\ \/ phase[h] = "asked" /\ Origin(h) = NoOrigin
     \/ Asked(h, "unknown")
  /\ NextRequest(h)

(* No origin, whatever the type; or a type the switch does not know.       *)
BadRequest(h) ==
  /\ \/ phase[h] = "asked" /\ Origin(h) = NoOrigin
     \/ Asked(h, "unknown")
  /\ Respond(h, "bad_request")
  /\ UNCHANGED <<store, hist, request, code, wire>>

AlreadyPaired(h) ==
  /\ Asked(h, "pair") /\ IsPaired(h)
  /\ Respond(h, "paired")
  /\ UNCHANGED <<store, hist, request, code, wire>>

(* Mutant: frames are collected and returned when the handler is done.     *)
EmitCodeLate(h) ==
  /\ Asked(h, "pair") /\ ~IsPaired(h)
  /\ phase' = [phase EXCEPT ![h] = "coded"]
  /\ UNCHANGED <<store, hist, request, code, reply, wire>>

(* emit(shown): a write that fails is remembered and the handler runs on.  *)
EmitCode(h) ==
  /\ Asked(h, "pair") /\ ~IsPaired(h)
  /\ code' = [code EXCEPT ![h] = IF wire[h] THEN "sent" ELSE "lost"]
  /\ phase' = [phase EXCEPT ![h] = "coded"]
  /\ UNCHANGED <<store, hist, request, reply, wire>>

OpenWindow(h) ==
  /\ phase[h] = "coded"
  /\ phase' = [phase EXCEPT ![h] = "window"]
  /\ UNCHANGED <<store, hist, request, code, reply, wire>>

(* Mutant: insert without persist.                                         *)
PersistForgotten(copy, saved) == file' = file

(* PairingStore.persist: the whole copy, atomically, or nothing at all --  *)
(* every step of it is a try? and no caller learns that it failed.         *)
Persist(copy, saved) == file' = IF saved THEN copy ELSE file

(* "Approve": insert, persist, answer.  saved: whether the write succeeded.*)
Approve(h, saved) ==
  /\ phase[h] = "window"
  /\ LET copy == approved[h] \cup {Origin(h)}
     IN  approved' = [approved EXCEPT ![h] = copy] /\ Persist(copy, saved)
  /\ Respond(h, "paired")
  /\ consented' = consented \cup {Origin(h)}
  /\ record' = record \cup {Origin(h)}
  /\ stale' = IF saved THEN Live \ {h} ELSE stale \cup {h}
  /\ tainted' = (tainted \/ ~saved \/ h \in stale)
  /\ UNCHANGED <<request, code, wire>>

(* Mutant: osascript's exit status is read as consent.                     *)
RefuseApproves(h) ==
  /\ phase[h] = "window"
  /\ approved' = [approved EXCEPT ![h] = @ \cup {Origin(h)}]
  /\ Respond(h, "paired")
  /\ UNCHANGED <<file, hist, request, code, wire>>

(* "Refuse", and a window that could not be shown.                         *)
Refuse(h) ==
  /\ phase[h] = "window"
  /\ Respond(h, "refused")
  /\ UNCHANGED <<store, hist, request, code, wire>>

(* The last frame, and the end of the loop body: a failed write, this      *)
(* frame's or the code's, means leave(1).                                  *)
Send(h) ==
  /\ phase[h] = "answering"
  /\ \/ wire[h] /\ NextRequest(h)
     \/ ~wire[h] /\ Off(h)

(***************************************************************************)
(* The person deletes paired.json, by hand or through brew --zap.          *)
(***************************************************************************)
Forget ==
  /\ file' = {}
  /\ record' = {}
  /\ tainted' = FALSE
  /\ stale' = Live
  /\ UNCHANGED <<approved, loop, consented>>

Handle(h) ==
  \/ Hello(h) \/ RequirePairing(h) \/ BadRequest(h)
  \/ AlreadyPaired(h) \/ EmitCode(h) \/ OpenWindow(h) \/ Send(h) \/ Leave(h)

Next ==
  \/ \E h \in Hosts :
       \/ Launch(h) \/ HangUp(h) \/ Kill(h)
       \/ Handle(h)
       \/ \E m \in Requests : Read(h, m)
       \/ \E saved \in BOOLEAN : Approve(h, saved)
       \/ Refuse(h)
  \/ Forget

Spec == Init /\ [][Next]_vars

(* The host runs on as long as it is not waiting for a person or for the   *)
(* browser; nobody is obliged to answer a window or to send a request.     *)
FairSpec == Spec /\ \A h \in Hosts : WF_vars(Handle(h))

-----------------------------------------------------------------------------
(* Nothing but a person's click makes an origin paired: whatever the file  *)
(* or any process's copy holds, and whoever is told "paired" or served,    *)
(* was approved in some window (or was already in the file).               *)
ConsentNeeded ==
  /\ file \subseteq consented
  /\ \A h \in Hosts : approved[h] \subseteq consented
  /\ \A h \in Hosts : reply[h] \in Granting => Origin(h) \in consented

(* The copy a process answers from is the file itself, until another       *)
(* process writes it, the person deletes it, or a write of its own fails.  *)
CurrentCopy == \A h \in Live \ stale : approved[h] = file

(* As long as no write was lost or made from a stale copy, the file holds  *)
(* exactly the approvals given since it was last deleted: every one of     *)
(* them (README: "Pairing, per origin, once"), and nothing deleted.        *)
RecordExact == ~tainted => file = record

(* A page whose port is open has its code before the window it must be     *)
(* compared with opens (RequestHandler.handle, protocol.md "pair").        *)
CodeBeforeWindow ==
  \A h \in Hosts : phase[h] = "window" /\ wire[h] => code[h] = "sent"

(* Every request gets an answer, at once or out of a window the person has *)
(* clicked, and the answer goes out, unless the process is gone; the one   *)
(* place to wait in is an open window.                                     *)
Answered ==
  \A h \in Hosts :
    /\ phase[h] = "asked" ~> phase[h] \in {"answering", "window", "off"}
    /\ phase[h] = "answering" ~> phase[h] \in {"idle", "off"}

(* Once the browser hangs up the process leaves, unless a window still     *)
(* waits for the person (main.swift: a host that lingers holds the card).  *)
HungUpLeaves ==
  \A h \in Hosts : ~wire[h] ~> phase[h] \in {"off", "window"}

-----------------------------------------------------------------------------
(* What the documentation says and the code does not do.                   *)

(* README: an origin is paired once -- an approval, once recorded, stays   *)
(* in the file until the person deletes the file.                          *)
ApprovalsStay == [][file \subseteq file' \/ record' = {}]_vars

(* PairingStore: the file is one the user can delete -- what was deleted   *)
(* stays deleted until it is approved again.                               *)
DeletedStaysDeleted == file \subseteq record

(* protocol.md: on approval the host records the origin and answers.       *)
PairedIsRecorded ==
  [][\A h \in Hosts : phase[h] = "window" /\ reply'[h] = "paired"
                        => Origin(h) \in file']_vars

(* signbridge-check: the code reaches the page before the window opens.    *)
CodeReachesPage == \A h \in Hosts : phase[h] = "window" => code[h] = "sent"
=============================================================================

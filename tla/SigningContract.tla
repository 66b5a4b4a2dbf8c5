--------------------------- MODULE SigningContract ---------------------------
(***************************************************************************)
(* What a person who types a PIN is promised ("the PIN is the consent"):   *)
(* each request shows one window at most, each window yields one PIN at    *)
(* most, each PIN one signature at most, and that signature is by the card *)
(* the PIN belongs to.  Nothing here speaks of slots, sessions or logins,  *)
(* nor of the other processes at the same card.                            *)
(***************************************************************************)
CONSTANTS Hosts, Cards, NoCard, NoPin, WrongPin, Failures

VARIABLES
  phase,    \* phase[h]: how far h's request has come
  pin,      \* pin[h]: what was typed into its window
  signer,   \* signer[h]: the card that signed
  result    \* result[h]: the code of its answer

vars == <<phase, pin, signer, result>>

Init ==
  /\ phase = [h \in Hosts |-> "idle"]
  /\ pin = [h \in Hosts |-> NoPin]
  /\ signer = [h \in Hosts |-> NoCard]
  /\ result = [h \in Hosts |-> "none"]

Move(h, from, to) == phase[h] \in from /\ phase' = [phase EXCEPT ![h] = to]

Ask(h)  == Move(h, {"idle"}, "asked") /\ UNCHANGED <<pin, signer, result>>
Show(h) == Move(h, {"asked"}, "window") /\ UNCHANGED <<pin, signer, result>>

Type(h, p) ==
  /\ Move(h, {"window"}, "working")
  /\ pin' = [pin EXCEPT ![h] = p]
  /\ UNCHANGED <<signer, result>>

Fail(h, r) ==
  /\ Move(h, {"asked", "window", "working"}, "answered")
  /\ result' = [result EXCEPT ![h] = r]
  /\ UNCHANGED <<pin, signer>>

Sign(h) ==
  /\ pin[h] \in Cards
  /\ Move(h, {"working"}, "answered")
  /\ signer' = [signer EXCEPT ![h] = pin[h]]
  /\ result' = [result EXCEPT ![h] = "signed"]
  /\ UNCHANGED pin

(* The answer is out, or the process is gone.                              *)
End(h) ==
  /\ phase' = [phase EXCEPT ![h] = "idle"]
  /\ pin' = [pin EXCEPT ![h] = NoPin]
  /\ signer' = [signer EXCEPT ![h] = NoCard]
  /\ result' = [result EXCEPT ![h] = "none"]

Next ==
  \E h \in Hosts :
    \/ Ask(h) \/ Show(h) \/ Sign(h) \/ End(h)
    \/ \E p \in Cards \cup {WrongPin} : Type(h, p)
    \/ \E r \in Failures : Fail(h, r)

Spec == Init /\ [][Next]_vars
=============================================================================

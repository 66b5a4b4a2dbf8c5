---------------------------- MODULE CertificateId ----------------------------
(***************************************************************************)
(* The id of a certificate: made by listCertificates out of the token's    *)
(* serial and the CKA_ID, carried about by the page, and taken apart by    *)
(* locate when a signature is asked for.  A hex digit is its value; any    *)
(* other character is a value of its own.                                  *)
(***************************************************************************)
EXTENDS Naturals, SequencesExt

CONSTANT Colon

HexDigits == 0..15

ASSUME ColonAssumption == Colon \notin HexDigits

(* Mutant: "%x".                                                           *)
HexUnpadded(bytes) ==
  FlattenSeq([i \in DOMAIN bytes |->
    IF bytes[i] \in HexDigits THEN <<bytes[i]>> ELSE <<bytes[i] \div 16, bytes[i] % 16>>])

Hex(bytes) == FlattenSeq([i \in DOMAIN bytes |-> <<bytes[i] \div 16, bytes[i] % 16>>])

Format(serial, ckaId) == serial \o <<Colon>> \o ckaId

(* split at the first colon, with empty parts left out: colons in front    *)
(* are passed over, and with nothing behind the cut there is one part.     *)
Split(id) ==
  LET inside == {i \in DOMAIN id : id[i] # Colon}
      first  == Min(inside)
      cuts   == {i \in DOMAIN id : id[i] = Colon /\ inside # {} /\ i > first}
      head   == SubSeq(id, first, Min(cuts) - 1)
      rest   == SubSeq(id, Min(cuts) + 1, Len(id))
  IN  CASE inside = {} -> <<>>
        [] inside # {} /\ cuts = {} -> <<SubSeq(id, first, Len(id))>>
        [] cuts # {} -> IF rest = <<>> THEN <<head>> ELSE <<head, rest>>

(* Two characters at a time; a pair that is no number, and an odd one at   *)
(* the end, are left out.                                                  *)
Unhex(text) ==
  LET pairs == Len(text) \div 2
      bytes[n \in 0..pairs] ==
        IF n = 0 THEN <<>>
        ELSE IF {text[2 * n - 1], text[2 * n]} \subseteq HexDigits
               THEN Append(bytes[n - 1], 16 * text[2 * n - 1] + text[2 * n])
               ELSE bytes[n - 1]
  IN  bytes[pairs]

(* What sign looks for: the token and the key, or certificateNotFound.     *)
Located(id) == Len(Split(id)) = 2
Token(id)   == Split(id)[1]
KeyId(id)   == Unhex(Split(id)[2])
=============================================================================

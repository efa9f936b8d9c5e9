------------------------------- MODULE SecretBox -------------------------------
(***************************************************************************)
(* internal/secret: how this product keeps a credential it holds for       *)
(* somebody else.  A sealed credential is the text and the key it takes to *)
(* read it.                                                                *)
(***************************************************************************)
CONSTANTS
  Keys,    \* values of SSO_SECRET_KEY that decode to 32 bytes
  NoKey    \* the nil Box: what an installation without a usable key works with

ASSUME KeyAssumption == NoKey \notin Keys

(* SSO_SECRET_KEY: a key, not set at all, or set to what is no key. *)
Settings == Keys \cup {"unset", "malformed"}

(* Unset or malformed, the program starts all the same, and refuses to seal. *)
Open(setting) == IF setting \in Keys THEN setting ELSE NoKey

Boxes == Keys \cup {NoKey}
SealedOf(Texts) == [key : Keys, text : Texts]

CanSeal(box) == box # NoKey
Seal(box, text) == [key |-> box, text |-> text]
=============================================================================

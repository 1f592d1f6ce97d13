---------------------------- MODULE TokenFamilies ----------------------------
(***************************************************************************)
(* What login sessions promise of refresh tokens, whatever refreshes,      *)
(* logouts and revocations overlap.  Tokens come in families, one for each *)
(* login.  A family hands out its tokens one after the other, each in      *)
(* exchange for the one before; it accepts the last one, and knows all the *)
(* others for a replay.  A family that is over stays over, and from then   *)
(* on hands out nothing.                                                   *)
(***************************************************************************)
EXTENDS Integers, Sequences

VARIABLES
  family,   \* the families in the order of their logins: their tokens, and if it is over
  owner     \* owner[t] is the family token t belongs to

tokens == <<family, owner>>

NewToken == Len(owner) + 1

FamiliesInit == family = <<>> /\ owner = <<>>

Open ==
  /\ family' = Append(family, [chain |-> <<NewToken>>, over |-> FALSE])
  /\ owner' = Append(owner, Len(family) + 1)

\* One token is given for the last one, and a token is given once.
Exchange(f) ==
  /\ ~family[f].over
  /\ family' = [family EXCEPT ![f].chain = Append(@, NewToken)]
  /\ owner' = Append(owner, f)

\* A revocation may end many at once; some may be over already.
EndAll(ended) ==
  /\ family' = [f \in DOMAIN family |-> [family[f] EXCEPT !.over = @ \/ f \in ended]]
  /\ UNCHANGED owner

FamiliesNext ==
  \/ Open
  \/ \E f \in DOMAIN family : Exchange(f)
  \/ \E ended \in SUBSET (DOMAIN family) : EndAll(ended)

FamiliesSpec == FamiliesInit /\ [][FamiliesNext]_tokens
=============================================================================

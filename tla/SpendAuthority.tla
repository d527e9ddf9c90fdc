--------------------------- MODULE SpendAuthority ---------------------------
(***************************************************************************)
(* What the payment journal promises, without sessions, files or crashes   *)
(* (MUST-T12-1 to MUST-T12-4 of the draft, as mcp-server/src/session.ts    *)
(* carries them out): every nonce is an authority to move money at most    *)
(* once.  It is durably held before the money moves, it is given back only *)
(* when no money moved, and it is spent, for good, when the receipt says   *)
(* that it did.                                                            *)
(***************************************************************************)
EXTENDS Naturals

CONSTANT Nonces

VARIABLES authority,  \* what the state file says of each nonce
          moved       \* how often money moved under it, on either rail

avars == <<authority, moved>>

AInit ==
  /\ authority = [n \in Nonces |-> "free"]
  /\ moved = [n \in Nonces |-> 0]

(* What one step may do to one nonce.                                      *)
Becomes(n, a, m) == authority'[n] = a /\ moved'[n] = m

Hold(n) == authority[n] = "free" /\ Becomes(n, "held", moved[n])

Pay(n) == authority[n] = "held" /\ moved[n] = 0 /\ Becomes(n, "held", 1)

Return(n) == authority[n] = "held" /\ moved[n] = 0 /\ Becomes(n, "free", 0)

Confirm(n) == authority[n] = "held" /\ moved[n] = 1 /\ Becomes(n, "spent", 1)

(* On the server's own ledger money moves with the record of it.           *)
SettleAtOnce(n) ==
  authority[n] \in {"free", "held"} /\ moved[n] = 0 /\ Becomes(n, "spent", 1)

Stays(n) == Becomes(n, authority[n], moved[n])

NonceStep(n) ==
  Hold(n) \/ Pay(n) \/ Return(n) \/ Confirm(n) \/ SettleAtOnce(n) \/ Stays(n)

(* One save can carry what memory holds of several nonces.                 *)
ANext ==
  /\ \A n \in Nonces : NonceStep(n)
  /\ authority' \in [Nonces -> {"free", "held", "spent"}]
  /\ moved' \in [Nonces -> {0, 1}]

ASpec == AInit /\ [][ANext]_avars
=============================================================================

\* Two users, two tokens, no indexer; two transfers and one proof, or one
\* transfer and two proofs; an identity and two nonces.
CONSTANTS
  Users = {u1, u2}
  Tokens = {t1, t2}
  Values = {1, 2}
  Indexer = FALSE
  MaxEvents = 2
  MaxMade = 3
  MaxDraws = 3
SPECIFICATION Spec
\* The bounds on transfers, proofs and draws may all be used up.
CHECK_DEADLOCK FALSE
SYMMETRY Symmetry
INVARIANTS TypeOK DisclosureSound
PROPERTIES HonestAccepted

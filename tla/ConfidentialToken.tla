------------------------- MODULE ConfidentialToken -------------------------
(***************************************************************************)
(* The confidential token the escrow builds on: the public SEP-41 balances *)
(* it wraps, two committed balances per registered account (spendable and  *)
(* receiving) and one delegation per (owner, spender).  The contract itself *)
(* is the OpenZeppelin `ConfidentialToken`, which contracts/token/src/     *)
(* lib.rs wraps with NoHooks; it is modelled from the way the SDK, the     *)
(* escrow contract and the event replay use it.  The two circuits whose    *)
(* source is in this repository (set_spender and                           *)
(* spender_transfer_full_release) are modelled from their constraints.     *)
(***************************************************************************)
EXTENDS Commitments

CONSTANTS
  Users,      \* Stellar accounts
  Escrows,    \* addresses of escrow contract instances
  MaxValue,   \* largest value the circuits accept (2^127 - 1 in the code)
  MaxLedger,  \* bound: last ledger sequence of the model
  Supply,     \* public SEP-41 balance every user starts with
  Enrolled,   \* users whose account is open when the model starts
  Merged      \* what they have deposited and merged by then

ASSUME TokenAssumption ==
  /\ Users \cap Escrows = {}
  /\ MaxValue \in Nat
  /\ MaxLedger \in Nat
  /\ Supply \in [Users -> Nat]
  /\ Enrolled \subseteq Users
  /\ Merged \in [Enrolled -> Nat]

Addresses == Users \cup Escrows

VARIABLES
  ledger,      \* current ledger sequence
  asset,       \* public balances of the wrapped asset
  registered,  \* addresses that hold a confidential account
  spendable,   \* committed spendable balance of every address
  receiving,   \* committed receiving balance of every address
  delegation   \* delegation of every (owner, spender)

tokenVars == <<ledger, asset, registered, spendable, receiving, delegation>>

-----------------------------------------------------------------------------
Delegation == [live : BOOLEAN, c : Commitment, until : Nat]
NoDelegation == [live |-> FALSE, c |-> Zero, until |-> 0]

Circuits == {"withdraw", "transfer", "set_spender", "spender_transfer"}

\* What a proof convinces the verifier of: `from` spends `value` out of the
\* balance committed in c and leaves `rest`, under the blinding of `salt`.
Proof == [circuit : Circuits, from : Users, spender : Addresses,
          to : Addresses, c : Commitment, value : Nat, rest : Nat, salt : Nat]

-----------------------------------------------------------------------------
(* The circuits *)

InRange(x) == x \in 0 .. MaxValue

\* Mutated form of Conserves: the 127-bit range checks are missing.
ConservesUnchecked(p) == p.rest = p.c.v - p.value

\* The old value, the amount taken and the difference all fit the range, and
\* the difference is what stays: no field wrap-around creates value.
Conserves(p) ==
  /\ InRange(p.c.v) /\ InRange(p.value) /\ InRange(p.rest)
  /\ p.rest = p.c.v - p.value

\* set_spender: S3, S4, S7 and S10 split the spendable value in two.
SetSpenderCircuit(p) == Conserves(p)

\* spender_transfer: O2, O4, O8, O11 split the allowance, and TW-PoC-1 leaves
\* nothing of it.
FullReleaseCircuit(p) == Conserves(p) /\ p.rest = 0

Accepted(p) ==
  \/ p.circuit = "set_spender" /\ SetSpenderCircuit(p)
  \/ p.circuit = "spender_transfer" /\ FullReleaseCircuit(p)
  \/ p.circuit \in {"withdraw", "transfer"} /\ Conserves(p)

-----------------------------------------------------------------------------
(* The contract's entry points.  Each is one transaction, applied entirely *)
(* or not at all; a failed guard is a failed transaction.                  *)

TokenInit ==
  /\ ledger = 0
  /\ asset = Supply
  /\ registered = Enrolled
  /\ spendable = [a \in Addresses |->
       IF a \in Enrolled THEN Unblinded(Merged[a]) ELSE Zero]
  /\ receiving = [a \in Addresses |-> Zero]
  /\ delegation = [u \in Users |-> [e \in Escrows |-> NoDelegation]]

CloseLedger ==
  /\ ledger < MaxLedger
  /\ ledger' = ledger + 1
  /\ UNCHANGED <<asset, registered, spendable, receiving, delegation>>

Register(a) ==
  /\ a \notin registered
  /\ registered' = registered \cup {a}
  /\ UNCHANGED <<ledger, asset, spendable, receiving, delegation>>

Deposit(from, to, x) ==
  /\ to \in registered
  /\ x \in 1 .. asset[from]
  /\ asset' = [asset EXCEPT ![from] = @ - x]
  /\ receiving' = [receiving EXCEPT ![to] = Plus(@, Unblinded(x))]
  /\ UNCHANGED <<ledger, registered, spendable, delegation>>

Merge(a) ==
  /\ a \in registered
  /\ spendable' = [spendable EXCEPT ![a] = Plus(@, receiving[a])]
  /\ receiving' = [receiving EXCEPT ![a] = Zero]
  /\ UNCHANGED <<ledger, asset, registered, delegation>>

\* Mutated form of SpendsCurrent: a proof about an old commitment is accepted.
SpendsAny(p) == p.from \in registered

\* The verifier's public inputs take the spendable commitment from storage, so
\* a proof about any other commitment fails.
SpendsCurrent(p) == p.from \in registered /\ p.c = spendable[p.from]

Withdraw(p) ==
  /\ p.circuit = "withdraw" /\ SpendsCurrent(p)
  /\ spendable' = [spendable EXCEPT ![p.from] = Committed(p.rest, p.salt)]
  /\ asset' = [asset EXCEPT ![p.from] = @ + p.value]
  /\ UNCHANGED <<ledger, registered, receiving, delegation>>

Transfer(p) ==
  /\ p.circuit = "transfer" /\ SpendsCurrent(p)
  /\ p.to \in registered
  /\ spendable' = [spendable EXCEPT ![p.from] = Committed(p.rest, p.salt)]
  /\ receiving' = [receiving EXCEPT ![p.to] = Plus(@, CommittedTx(p.value, {p.salt}))]
  /\ UNCHANGED <<ledger, asset, registered, delegation>>

\* Mutated form of MayDelegate: an existing delegation is overwritten.
MayOverwrite(p) == p.spender \in registered

\* 3501 for an unregistered spender, 3503 when the pair has a delegation.
MayDelegate(p) == p.spender \in registered /\ ~delegation[p.from][p.spender].live

SetSpender(p, until) ==
  /\ p.circuit = "set_spender" /\ SpendsCurrent(p)
  /\ MayDelegate(p)
  /\ spendable' = [spendable EXCEPT ![p.from] = Committed(p.rest, p.salt)]
  /\ delegation' = [delegation EXCEPT ![p.from][p.spender] =
       [live |-> TRUE, c |-> Committed(p.value, p.salt), until |-> until]]
  /\ UNCHANGED <<ledger, asset, registered, receiving>>

\* The owner takes the remaining allowance back; the event carries a fresh
\* checkpoint of the spendable balance.
RevokeSpender(owner, spender, salt) ==
  /\ delegation[owner][spender].live
  /\ spendable' = [spendable EXCEPT ![owner] =
       Committed(@.v + delegation[owner][spender].c.v, salt)]
  /\ delegation' = [delegation EXCEPT ![owner][spender] = NoDelegation]
  /\ UNCHANGED <<ledger, asset, registered, receiving>>

\* Mutated form of SpendsAllowance: an old allowance's proof is accepted.
SpendsAnyAllowance(p) == delegation[p.from][p.spender].live

\* Commitment and salt of the allowance are public inputs read from storage.
SpendsAllowance(p) ==
  /\ delegation[p.from][p.spender].live
  /\ p.c = delegation[p.from][p.spender].c

\* 3504 without a delegation, 3505 when it has expired, 3501 when the recipient
\* is not registered, 3506 when the proof is about another allowance.
ConfidentialTransferFrom(p) ==
  /\ p.circuit = "spender_transfer"
  /\ SpendsAllowance(p)
  /\ ledger <= delegation[p.from][p.spender].until
  /\ p.to \in registered
  /\ delegation' = [delegation EXCEPT ![p.from][p.spender].c = Committed(p.rest, p.salt)]
  /\ receiving' = [receiving EXCEPT ![p.to] = Plus(@, CommittedTx(p.value, p.c.r))]
  /\ UNCHANGED <<ledger, asset, registered, spendable>>

TokenTypeOK ==
  /\ ledger \in 0 .. MaxLedger
  /\ asset \in [Users -> Nat]
  /\ registered \in SUBSET Addresses
  /\ spendable \in [Addresses -> Commitment]
  /\ receiving \in [Addresses -> Commitment]
  /\ delegation \in [Users -> [Escrows -> Delegation]]
=============================================================================

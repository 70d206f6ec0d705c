------------------------------- MODULE Escrow -------------------------------
(***************************************************************************)
(* The escrow contracts (contracts/escrow/src/lib.rs) over the             *)
(* confidential token, with the provers of their parties.  A transaction   *)
(* is one action: the nested token call and the write of the escrow record *)
(* either both happen or neither does.  A prover reads the chain, proves   *)
(* for a while and submits later: `proofs` holds every proof built so far, *)
(* so a proof can be stale when it arrives, be submitted twice, or go      *)
(* through either door (the escrow's `fund` or the token's `set_spender`). *)
(***************************************************************************)
EXTENDS ConfidentialToken, FiniteSetsExt

CONSTANTS
  NoUser,   \* no account
  Parties,  \* the (payer, receiver, approver) triples `initialize` is called with
  Expiries, \* the live_until_ledger values delegations are asked for with
  Holders,  \* bound: users that open a token account
  Payees,   \* bound: recipients of deposits, transfers and release proofs
  Proving,  \* bound: circuits owners prove for
  MaxSalt   \* bound: random salts drawn by owners

ASSUME EscrowAssumption ==
  /\ IsFiniteSet(Users) /\ IsFiniteSet(Escrows)
  /\ NoUser \notin Users
  /\ Parties \subseteq Users \X Users \X Users
  /\ Expiries \subseteq Nat
  /\ Holders \subseteq Users
  /\ Payees \subseteq Addresses
  /\ Proving \subseteq Circuits
  /\ MaxSalt \in Nat

VARIABLES
  escrow,  \* the record each instance stores
  proofs,  \* proofs built so far
  salt,    \* salts drawn so far
  \* History variables: no action reads them.
  locked,  \* commitments `fund` put under the escrow and nobody revoked since
  paid     \* value each escrow has moved to its receiver

vars == <<tokenVars, escrow, proofs, salt, locked, paid>>

Statuses == {"Absent", "Initialized", "Funded", "Released"}
EscrowRecord == [payer : Users \cup {NoUser}, receiver : Users \cup {NoUser},
                 approver : Users \cup {NoUser}, status : Statuses]
NoEscrow == [payer |-> NoUser, receiver |-> NoUser, approver |-> NoUser,
             status |-> "Absent"]

Init ==
  /\ TokenInit
  /\ escrow = [e \in Escrows |-> NoEscrow]
  /\ proofs = {}
  /\ salt = 0
  /\ locked = [e \in Escrows |-> {}]
  /\ paid = [e \in Escrows |-> 0]

-----------------------------------------------------------------------------
(* Provers.  Any statement the circuit accepts can be proved, not only those *)
(* the SDK asks for; the same statement is not proved twice (a second proof  *)
(* would differ from the first in its salt only).                            *)

Statement(circuit, from, spender, to, c, value, s) ==
  [circuit |-> circuit, from |-> from, spender |-> spender, to |-> to, c |-> c,
   value |-> value, rest |-> c.v - value, salt |-> s]

NewStatement(p) == \A q \in proofs : [q EXCEPT !.salt = p.salt] # p

Prove(p) ==
  /\ Accepted(p)
  /\ NewStatement(p)
  /\ proofs' = proofs \cup {p}
  /\ salt' = salt + 1
  /\ UNCHANGED <<tokenVars, escrow, locked, paid>>

OwnerDraws == salt - Cardinality({p \in proofs : p.circuit = "spender_transfer"})

\* The owner of a balance proves that it spends part of it.
ProveOwnerSpend(u, circuit, spender, to) ==
  /\ circuit \in Proving /\ OwnerDraws < MaxSalt
  /\ {u, spender, to} \subseteq registered
  /\ \E value \in 0 .. MaxValue :
       Prove(Statement(circuit, u, spender, to, spendable[u], value, salt + 1))

ProveWithdraw(u) == ProveOwnerSpend(u, "withdraw", u, u)
ProveTransfer(u, to) == ProveOwnerSpend(u, "transfer", u, to)
ProveSetSpender(u, e) == ProveOwnerSpend(u, "set_spender", e, e)

\* The holder of the escrow's proving key opens the stored delegation and
\* proves a transfer out of it to some registered account.
ProveFullRelease(u, e, to) ==
  /\ delegation[u][e].live
  /\ to \in registered
  /\ \E value \in 0 .. MaxValue :
       Prove(Statement("spender_transfer", u, e, to, delegation[u][e].c, value, salt + 1))

-----------------------------------------------------------------------------
(* Transactions *)

Opens(e, p, r, a) ==
  /\ escrow[e].status = "Absent"
  /\ p # r /\ p # a /\ r # a
  /\ escrow' = [escrow EXCEPT ![e] =
       [payer |-> p, receiver |-> r, approver |-> a, status |-> "Initialized"]]
  /\ UNCHANGED <<proofs, salt, locked, paid>>

\* Mutated form of Initialize: the record is stored, the nested call is lost.
InitializeUnregistered(e, p, r, a) == Opens(e, p, r, a) /\ UNCHANGED tokenVars

\* Signed by the approver a; the escrow address becomes a token account.
Initialize(e, p, r, a) == Opens(e, p, r, a) /\ Register(e)

\* Signed by the payer: set_spender(payer, this contract, live_until, data).
Fund(e, p, until) ==
  /\ escrow[e].status = "Initialized"
  /\ until > ledger
  /\ p.from = escrow[e].payer /\ p.spender = e
  /\ SetSpender(p, until)
  /\ escrow' = [escrow EXCEPT ![e].status = "Funded"]
  /\ locked' = [locked EXCEPT ![e] = {Committed(p.value, p.salt)}]
  /\ UNCHANGED <<proofs, salt, paid>>

\* Mutated form of Releasable: the escrow must not be funded yet.
ReleasableEarly(e) == escrow[e].status = "Initialized"

Releasable(e) == escrow[e].status = "Funded"

\* Mutated form of Settled: the status is not written after the transfer.
Unsettled(e) == escrow[e]

Settled(e) == [escrow[e] EXCEPT !.status = "Released"]

\* Mutated form of ReleaseArguments: the spender argument is not this contract.
AnySpender(e, p) == p.from = escrow[e].payer /\ p.to = escrow[e].receiver

\* The nested call's spender, owner and recipient; the token takes Y_op, the
\* delegation and PVK_recipient of the proof's public inputs from them.
ReleaseArguments(e, p) ==
  p.spender = e /\ p.from = escrow[e].payer /\ p.to = escrow[e].receiver

\* Signed by the approver:
\* confidential_transfer_from(this contract, payer, receiver, data).
ApproveAndRelease(e, p) ==
  /\ Releasable(e)
  /\ ReleaseArguments(e, p)
  /\ ConfidentialTransferFrom(p)
  /\ escrow' = [escrow EXCEPT ![e] = Settled(e)]
  /\ paid' = [paid EXCEPT ![e] = @ + p.value]
  /\ UNCHANGED <<proofs, salt, locked>>

escrowVars == <<escrow, proofs, salt, locked, paid>>

\* Transactions on the token alone.
UserRegister(u) == Register(u) /\ UNCHANGED escrowVars
UserDeposit(u, to, x) == Deposit(u, to, x) /\ UNCHANGED escrowVars
UserMerge(u) == Merge(u) /\ UNCHANGED escrowVars
UserWithdraw(p) == Withdraw(p) /\ UNCHANGED escrowVars
UserTransfer(p) == Transfer(p) /\ UNCHANGED escrowVars
UserSetSpender(p, until) == SetSpender(p, until) /\ UNCHANGED escrowVars

Revoke(u, e) ==
  /\ OwnerDraws < MaxSalt
  /\ RevokeSpender(u, e, salt + 1)
  /\ salt' = salt + 1
  /\ locked' = [locked EXCEPT ![e] = IF escrow[e].payer = u THEN {} ELSE @]
  /\ UNCHANGED <<escrow, proofs, paid>>

Tick == CloseLedger /\ UNCHANGED escrowVars

Next ==
  \/ Tick
  \/ \E u \in Holders :
       \/ UserRegister(u)
       \/ UserMerge(u)
       \/ ProveWithdraw(u)
       \/ \E to \in Payees : ProveTransfer(u, to)
       \/ \E to \in Payees, x \in 1 .. MaxValue : UserDeposit(u, to, x)
       \/ \E e \in Escrows :
            \/ ProveSetSpender(u, e)
            \/ Revoke(u, e)
            \/ \E to \in Payees : ProveFullRelease(u, e, to)
  \/ \E e \in Escrows, t \in Parties : Initialize(e, t[1], t[2], t[3])
  \/ \E p \in proofs :
       \/ UserWithdraw(p)
       \/ UserTransfer(p)
       \/ \E until \in Expiries :
            \/ UserSetSpender(p, until)
            \/ \E e \in Escrows : Fund(e, p, until)
       \/ \E e \in Escrows : ApproveAndRelease(e, p)

Spec == Init /\ [][Next]_vars

\* An approver that wants to release keeps proving and submitting.
Approver(e) ==
  \/ ProveFullRelease(escrow[e].payer, e, escrow[e].receiver)
  \/ \E p \in proofs : ApproveAndRelease(e, p)

FairSpec == Spec /\ \A e \in Escrows : WF_vars(escrow[e].status = "Funded" /\ Approver(e))

-----------------------------------------------------------------------------
(* Properties *)

TypeOK ==
  /\ TokenTypeOK
  /\ escrow \in [Escrows -> EscrowRecord]
  /\ proofs \in SUBSET Proof
  /\ salt \in Nat
  /\ locked \in [Escrows -> SUBSET Commitment]
  /\ paid \in [Escrows -> Nat]

\* "Value cannot be created by escrow operations" (docs/threat-model.md:23):
\* public balances, both committed balances and every delegation add up to the
\* initial supply, whatever proofs arrive in whatever order.
TotalValue ==
  LET Spendable == [a \in Addresses |-> spendable[a].v]
      Receiving == [a \in Addresses |-> receiving[a].v]
      Delegated == [d \in Users \X Escrows |-> delegation[d[1]][d[2]].c.v]
  IN SumFunction(asset) + SumFunction(Spendable) + SumFunction(Receiving)
       + SumFunction(Delegated)
InitialValue == SumFunction(Supply) + SumFunction(Merged)
ValueConserved == TotalValue = InitialValue

\* The escrow record and the escrow's token account are created by one
\* transaction or not at all (lib.rs:109-124), so no instance is initialized
\* without being able to hold a delegation, and nobody registers it before.
InitializedIffRegistered ==
  \A e \in Escrows : escrow[e].status = "Absent" <=> e \notin registered

\* Nobody but the payer, by revoking, can take a funded allowance away or
\* change it: not a second delegation, another escrow, a stale proof, a
\* withdrawal or an incoming payment.
FundedAllowanceIntact ==
  \A e \in Escrows :
    escrow[e].status = "Funded" =>
      \A c \in locked[e] : /\ delegation[escrow[e].payer][e].live
                           /\ delegation[escrow[e].payer][e].c = c

\* A release moves the complete delegation to the configured receiver, whose
\* other balance and everybody else's stay as they are (docs/threat-model.md:
\* 25-26, the TW-PoC-1 constraint of the circuit).
ReleasesEverything(e) ==
  LET p == escrow[e].payer
      r == escrow[e].receiver
  IN /\ delegation'[p][e].c.v = 0
     /\ receiving'[r].v = receiving[r].v + delegation[p][e].c.v
     /\ \A a \in Addresses \ {r} : receiving'[a] = receiving[a]
     /\ spendable' = spendable
ReleasePaysAll ==
  [][\A e \in Escrows :
       (escrow[e].status # "Released" /\ escrow'[e].status = "Released")
         => ReleasesEverything(e)]_vars

\* Each instance keeps the promise of EscrowPayment; what it holds is the
\* delegation its payer granted it.
Payment(e) == INSTANCE EscrowPayment WITH
  phase <- escrow[e].status,
  held <- IF escrow[e].status = "Absent" THEN 0
          ELSE delegation[escrow[e].payer][e].c.v,
  paid <- paid[e]
PaymentStep(e) == [Payment(e)!Next]_(Payment(e)!paymentVars)
ImplementsPayment ==
  /\ \A e \in Escrows : Payment(e)!Init
  /\ [][\A e \in Escrows : PaymentStep(e)]_vars

\* A release that the token would accept does not stay possible for ever: the
\* approver gets it through, or the payer revokes, or the delegation expires.
\* No deposit, merge, transfer or other proof makes the release proof stale.
CanRelease(e) ==
  /\ escrow[e].status = "Funded"
  /\ escrow[e].receiver \in registered
  /\ delegation[escrow[e].payer][e].live
  /\ ledger <= delegation[escrow[e].payer][e].until
ReleaseServed == \A e \in Escrows : CanRelease(e) ~> ~CanRelease(e)
=============================================================================

---------------------------- MODULE Escrow_proofs ----------------------------
(***************************************************************************)
(* Safety of Escrow for every set of users, escrows and bounds.            *)
(***************************************************************************)
EXTENDS Escrow, TLAPS

\* Delegations exist between registered accounts only, and an absent one is empty.
DelegationsRegistered ==
  \A u \in Users, e \in Escrows :
    \/ delegation[u][e].live /\ u \in registered /\ e \in registered
    \/ delegation[u][e] = NoDelegation

\* The parties of an initialized escrow are three different users.
PartiesFixed ==
  \A e \in Escrows :
    escrow[e].status # "Absent" =>
      /\ escrow[e].payer \in Users /\ escrow[e].receiver \in Users
      /\ escrow[e].approver \in Users
      /\ escrow[e].payer # escrow[e].receiver

\* Every proof in flight satisfies its circuit.
ProofsAccepted == \A p \in proofs : Accepted(p)

\* Nothing is paid before the release.
PaidAfterRelease ==
  \A e \in Escrows : escrow[e].status # "Released" => paid[e] = 0

IInv ==
  /\ TypeOK
  /\ DelegationsRegistered
  /\ PartiesFixed
  /\ ProofsAccepted
  /\ PaidAfterRelease
  /\ InitializedIffRegistered
  /\ FundedAllowanceIntact

USE DEF Addresses

-----------------------------------------------------------------------------
(* Commitments *)

LEMMA UnblindedType == ASSUME NEW x \in Nat PROVE Unblinded(x) \in Commitment
  BY DEF Unblinded, Commitment

LEMMA ZeroType == Zero \in Commitment /\ Zero.v = 0
  BY UnblindedType DEF Zero, Unblinded

LEMMA PlusType ==
  ASSUME NEW c \in Commitment, NEW d \in Commitment PROVE Plus(c, d) \in Commitment
  BY DEF Plus, Commitment

LEMMA CommittedType ==
  ASSUME NEW x \in Nat, NEW s \in Nat PROVE Committed(x, s) \in Commitment
  BY DEF Committed, Commitment

LEMMA CommittedTxType ==
  ASSUME NEW x \in Nat, NEW S \in SUBSET Int PROVE CommittedTx(x, S) \in Commitment
  BY DEF CommittedTx, Commitment

-----------------------------------------------------------------------------
(* Type correctness *)

LEMMA InitType == Init => TypeOK
<1> SUFFICES ASSUME Init PROVE TypeOK
  OBVIOUS
<1> USE TokenAssumption, EscrowAssumption DEF Init, TokenInit
<1>1. NoDelegation \in Delegation
  BY ZeroType DEF NoDelegation, Delegation
<1>2. TokenTypeOK
  <2>1. spendable \in [Addresses -> Commitment]
    BY ZeroType, UnblindedType
  <2>2. receiving \in [Addresses -> Commitment]
    BY ZeroType
  <2> QED BY <1>1, <2>1, <2>2 DEF TokenTypeOK
<1>3. escrow \in [Escrows -> EscrowRecord]
  BY DEF NoEscrow, EscrowRecord, Statuses
<1> QED BY <1>2, <1>3 DEF TypeOK

\* Every proof that is built is one the verifier accepts, hence well typed.
LEMMA ProveType ==
  ASSUME TypeOK, NEW circuit \in Circuits, NEW u \in Users, NEW spender \in Addresses,
         NEW to \in Addresses, NEW c \in Commitment, NEW value \in 0 .. MaxValue,
         Prove(Statement(circuit, u, spender, to, c, value, salt + 1))
  PROVE  /\ TypeOK'
         /\ UNCHANGED <<tokenVars, escrow, locked, paid>>
         /\ \A p \in proofs' : p \in proofs \/ Accepted(p)
<1> DEFINE p == Statement(circuit, u, spender, to, c, value, salt + 1)
<1>1. Accepted(p) /\ proofs' = proofs \cup {p} /\ salt' = salt + 1
  BY DEF Prove
<1>2. p.rest \in Nat
  BY <1>1, TokenAssumption
     DEF Accepted, SetSpenderCircuit, FullReleaseCircuit, Conserves, InRange
<1>3. p \in Proof
  BY <1>2, TokenAssumption DEF Statement, Proof, TypeOK
<1>4. UNCHANGED <<tokenVars, escrow, locked, paid>>
  BY DEF Prove
<1>5. TypeOK'
  BY <1>1, <1>3, <1>4 DEF TypeOK, TokenTypeOK, tokenVars
<1> QED BY <1>1, <1>4, <1>5

LEMMA ProveOwnerSpendType ==
  ASSUME TypeOK, NEW u \in Users, NEW circuit \in Circuits, NEW spender, NEW to,
         ProveOwnerSpend(u, circuit, spender, to)
  PROVE  /\ TypeOK'
         /\ UNCHANGED <<tokenVars, escrow, locked, paid>>
         /\ \A p \in proofs' : p \in proofs \/ Accepted(p)
<1>1. PICK value \in 0 .. MaxValue :
        Prove(Statement(circuit, u, spender, to, spendable[u], value, salt + 1))
  BY DEF ProveOwnerSpend
<1>2. spender \in Addresses /\ to \in Addresses
  BY DEF ProveOwnerSpend, TypeOK, TokenTypeOK
<1>3. spendable[u] \in Commitment
  BY DEF TypeOK, TokenTypeOK
<1> QED BY <1>1, <1>2, <1>3, ProveType

LEMMA ProveFullReleaseType ==
  ASSUME TypeOK, NEW u \in Users, NEW e \in Escrows, NEW to,
         ProveFullRelease(u, e, to)
  PROVE  /\ TypeOK'
         /\ UNCHANGED <<tokenVars, escrow, locked, paid>>
         /\ \A p \in proofs' : p \in proofs \/ Accepted(p)
<1>1. PICK value \in 0 .. MaxValue :
        Prove(Statement("spender_transfer", u, e, to, delegation[u][e].c, value, salt + 1))
  BY DEF ProveFullRelease
<1>2. to \in Addresses
  BY DEF ProveFullRelease, TypeOK, TokenTypeOK
<1>3. delegation[u][e].c \in Commitment
  BY DEF TypeOK, TokenTypeOK, Delegation
<1>4. "spender_transfer" \in Circuits /\ e \in Addresses
  BY DEF Circuits
<1> QED BY <1>1, <1>2, <1>3, <1>4, ProveType

\* What an accepted proof leaves is a natural number, and its type is Proof's.
LEMMA ProofFacts ==
  ASSUME TypeOK, NEW p \in proofs
  PROVE  /\ p.from \in Users /\ p.spender \in Addresses /\ p.to \in Addresses
         /\ p.c \in Commitment /\ p.value \in Nat /\ p.rest \in Nat /\ p.salt \in Nat
         /\ Committed(p.rest, p.salt) \in Commitment
         /\ Committed(p.value, p.salt) \in Commitment
<1>1. p \in Proof
  BY DEF TypeOK
<1>2. p.rest \in Nat /\ p.value \in Nat /\ p.salt \in Nat
  BY <1>1 DEF Proof
<1> QED BY <1>1, <1>2, CommittedType DEF Proof

-----------------------------------------------------------------------------
(* One lemma per transaction: the inductive invariant is preserved. *)

LEMMA ProveStep ==
  ASSUME IInv, TypeOK', UNCHANGED <<tokenVars, escrow, locked, paid>>,
         \A p \in proofs' : p \in proofs \/ Accepted(p)
  PROVE  IInv'
BY DEF IInv, tokenVars, DelegationsRegistered, PartiesFixed, ProofsAccepted,
       PaidAfterRelease, InitializedIffRegistered, FundedAllowanceIntact,
       Accepted, SetSpenderCircuit, FullReleaseCircuit, Conserves, InRange

LEMMA TickStep == ASSUME IInv, Tick PROVE IInv'
<1>1. TypeOK'
  BY TokenAssumption DEF IInv, TypeOK, TokenTypeOK, Tick, CloseLedger, escrowVars
<1> QED
  BY <1>1 DEF IInv, Tick, CloseLedger, escrowVars, DelegationsRegistered, PartiesFixed,
     ProofsAccepted, PaidAfterRelease, InitializedIffRegistered, FundedAllowanceIntact,
     Accepted, SetSpenderCircuit, FullReleaseCircuit, Conserves, InRange

\* Transactions that touch neither a delegation nor an escrow record.
LEMMA BalanceStep ==
  ASSUME IInv, TypeOK', UNCHANGED <<registered, delegation, escrowVars>>
  PROVE  IInv'
BY DEF IInv, escrowVars, DelegationsRegistered, PartiesFixed, ProofsAccepted,
       PaidAfterRelease, InitializedIffRegistered, FundedAllowanceIntact,
       Accepted, SetSpenderCircuit, FullReleaseCircuit, Conserves, InRange

LEMMA UserRegisterStep == ASSUME IInv, NEW u \in Users, UserRegister(u) PROVE IInv'
<1> USE DEF UserRegister, Register, escrowVars
<1>1. TypeOK'
  BY DEF IInv, TypeOK, TokenTypeOK
<1>2. InitializedIffRegistered'
  BY TokenAssumption DEF IInv, InitializedIffRegistered
<1>3. DelegationsRegistered'
  BY DEF IInv, DelegationsRegistered
<1> QED
  BY <1>1, <1>2, <1>3 DEF IInv, PartiesFixed, ProofsAccepted, PaidAfterRelease,
     FundedAllowanceIntact, Accepted, SetSpenderCircuit, FullReleaseCircuit, Conserves, InRange

LEMMA UserDepositStep ==
  ASSUME IInv, NEW u \in Users, NEW to \in Addresses, NEW x \in 1 .. MaxValue,
         UserDeposit(u, to, x)
  PROVE  IInv'
<1> USE DEF UserDeposit, Deposit, escrowVars
<1>1. asset' \in [Users -> Nat]
  <2>1. asset[u] - x \in Nat
    BY TokenAssumption DEF IInv, TypeOK, TokenTypeOK
  <2> QED BY <2>1 DEF IInv, TypeOK, TokenTypeOK
<1>2. receiving' \in [Addresses -> Commitment]
  <2>1. Plus(receiving[to], Unblinded(x)) \in Commitment
    BY TokenAssumption, UnblindedType, PlusType DEF IInv, TypeOK, TokenTypeOK
  <2> QED BY <2>1 DEF IInv, TypeOK, TokenTypeOK
<1>3. TypeOK'
  BY <1>1, <1>2 DEF IInv, TypeOK, TokenTypeOK
<1> QED BY <1>3, BalanceStep

LEMMA UserMergeStep == ASSUME IInv, NEW u \in Users, UserMerge(u) PROVE IInv'
<1> USE DEF UserMerge, Merge, escrowVars
<1>1. Plus(spendable[u], receiving[u]) \in Commitment
  BY PlusType DEF IInv, TypeOK, TokenTypeOK
<1>2. TypeOK'
  BY <1>1, ZeroType DEF IInv, TypeOK, TokenTypeOK
<1> QED BY <1>2, BalanceStep

LEMMA UserWithdrawStep == ASSUME IInv, NEW p \in proofs, UserWithdraw(p) PROVE IInv'
<1> USE ProofFacts DEF IInv, UserWithdraw, Withdraw, escrowVars
<1>1. asset' \in [Users -> Nat]
  BY DEF TypeOK, TokenTypeOK
<1>2. spendable' \in [Addresses -> Commitment]
  BY DEF TypeOK, TokenTypeOK
<1>3. TypeOK'
  BY <1>1, <1>2 DEF TypeOK, TokenTypeOK
<1> QED BY <1>3, BalanceStep

LEMMA UserTransferStep == ASSUME IInv, NEW p \in proofs, UserTransfer(p) PROVE IInv'
<1> USE ProofFacts DEF IInv, UserTransfer, Transfer, escrowVars
<1>1. CommittedTx(p.value, {p.salt}) \in Commitment
  BY CommittedTxType
<1>2. receiving' \in [Addresses -> Commitment]
  <2>1. Plus(receiving[p.to], CommittedTx(p.value, {p.salt})) \in Commitment
    BY <1>1, PlusType DEF TypeOK, TokenTypeOK
  <2> QED BY <2>1 DEF TypeOK, TokenTypeOK
<1>3. spendable' \in [Addresses -> Commitment]
  BY DEF TypeOK, TokenTypeOK
<1>4. TypeOK'
  BY <1>2, <1>3 DEF TypeOK, TokenTypeOK
<1> QED BY <1>4, BalanceStep

\* set_spender, through either door.
LEMMA SetSpenderFacts ==
  ASSUME IInv, NEW p \in proofs, NEW until \in Expiries, SetSpender(p, until)
  PROVE  /\ TokenTypeOK'
         /\ DelegationsRegistered'
<1> USE ProofFacts DEF IInv, SetSpender, MayDelegate, SpendsCurrent
<1> DEFINE d == [live |-> TRUE, c |-> Committed(p.value, p.salt), until |-> until]
<1>1. d \in Delegation
  BY EscrowAssumption DEF Delegation
<1>2. delegation' \in [Users -> [Escrows -> Delegation]]
  BY <1>1 DEF TypeOK, TokenTypeOK
<1>3. spendable' \in [Addresses -> Commitment]
  BY DEF TypeOK, TokenTypeOK
<1>4. TokenTypeOK'
  BY <1>2, <1>3 DEF TypeOK, TokenTypeOK
<1>5. DelegationsRegistered'
  BY DEF TypeOK, TokenTypeOK, DelegationsRegistered
<1> QED BY <1>4, <1>5

LEMMA UserSetSpenderStep ==
  ASSUME IInv, NEW p \in proofs, NEW until \in Expiries, UserSetSpender(p, until)
  PROVE  IInv'
<1>1. TypeOK' /\ DelegationsRegistered'
  BY SetSpenderFacts DEF IInv, UserSetSpender, escrowVars, TypeOK
<1>2. FundedAllowanceIntact'
  BY ProofFacts DEF IInv, UserSetSpender, escrowVars, SetSpender, MayDelegate, TypeOK,
     TokenTypeOK, PartiesFixed, FundedAllowanceIntact
<1> QED
  BY <1>1, <1>2 DEF IInv, UserSetSpender, escrowVars, SetSpender, PartiesFixed, ProofsAccepted,
     PaidAfterRelease, InitializedIffRegistered, Accepted, SetSpenderCircuit,
     FullReleaseCircuit, Conserves, InRange

LEMMA FundStep ==
  ASSUME IInv, NEW e \in Escrows, NEW p \in proofs, NEW until \in Expiries,
         Fund(e, p, until)
  PROVE  IInv'
<1> USE ProofFacts DEF IInv, Fund
<1>1. TypeOK' /\ DelegationsRegistered'
  <2>1. escrow' \in [Escrows -> EscrowRecord]
    BY DEF TypeOK, EscrowRecord, Statuses
  <2>2. locked' \in [Escrows -> SUBSET Commitment]
    BY DEF TypeOK
  <2> QED BY <2>1, <2>2, SetSpenderFacts DEF TypeOK
<1>2. PartiesFixed' /\ PaidAfterRelease' /\ InitializedIffRegistered'
  BY DEF TypeOK, SetSpender, PartiesFixed, PaidAfterRelease, InitializedIffRegistered
<1>3. ProofsAccepted'
  BY DEF ProofsAccepted, Accepted, SetSpenderCircuit, FullReleaseCircuit, Conserves, InRange
<1>4. FundedAllowanceIntact'
  <2> SUFFICES ASSUME NEW f \in Escrows, escrow'[f].status = "Funded", NEW c \in locked'[f]
               PROVE  /\ delegation'[escrow'[f].payer][f].live
                      /\ delegation'[escrow'[f].payer][f].c = c
    BY DEF FundedAllowanceIntact
  <2>1. CASE f = e
    BY <2>1 DEF TypeOK, TokenTypeOK, SetSpender
  <2>2. CASE f # e
    BY <2>2 DEF TypeOK, TokenTypeOK, SetSpender, FundedAllowanceIntact
  <2> QED BY <2>1, <2>2
<1> QED BY <1>1, <1>2, <1>3, <1>4

LEMMA RevokeStep ==
  ASSUME IInv, NEW u \in Users, NEW e \in Escrows, Revoke(u, e) PROVE IInv'
<1> USE DEF IInv, Revoke, RevokeSpender
<1>1. Committed(spendable[u].v + delegation[u][e].c.v, salt + 1) \in Commitment
  <2>1. spendable[u] \in Commitment /\ delegation[u][e] \in Delegation /\ salt \in Nat
    BY DEF TypeOK, TokenTypeOK
  <2>2. spendable[u].v + delegation[u][e].c.v \in Nat /\ salt + 1 \in Nat
    BY <2>1 DEF Delegation, Commitment
  <2> QED BY <2>2, CommittedType
<1>2. NoDelegation \in Delegation
  BY ZeroType DEF NoDelegation, Delegation
<1>3. TypeOK'
  <2>1. spendable' \in [Addresses -> Commitment]
    BY <1>1 DEF TypeOK, TokenTypeOK
  <2>2. delegation' \in [Users -> [Escrows -> Delegation]]
    BY <1>2 DEF TypeOK, TokenTypeOK
  <2>3. locked' \in [Escrows -> SUBSET Commitment]
    BY DEF TypeOK
  <2> QED BY <2>1, <2>2, <2>3 DEF TypeOK, TokenTypeOK
<1>4. DelegationsRegistered'
  <2> SUFFICES ASSUME NEW w \in Users, NEW f \in Escrows
               PROVE  \/ delegation'[w][f].live /\ w \in registered' /\ f \in registered'
                      \/ delegation'[w][f] = NoDelegation
    BY DEF DelegationsRegistered
  <2>1. CASE w = u /\ f = e
    BY <2>1 DEF TypeOK, TokenTypeOK
  <2>2. CASE ~(w = u /\ f = e)
    BY <2>2 DEF TypeOK, TokenTypeOK, DelegationsRegistered
  <2> QED BY <2>1, <2>2
<1>5. PartiesFixed' /\ PaidAfterRelease' /\ InitializedIffRegistered'
  BY DEF PartiesFixed, PaidAfterRelease, InitializedIffRegistered
<1>6. ProofsAccepted'
  BY DEF ProofsAccepted, Accepted, SetSpenderCircuit, FullReleaseCircuit, Conserves, InRange
<1>7. FundedAllowanceIntact'
  <2> SUFFICES ASSUME NEW f \in Escrows, escrow'[f].status = "Funded", NEW c \in locked'[f]
               PROVE  /\ delegation'[escrow'[f].payer][f].live
                      /\ delegation'[escrow'[f].payer][f].c = c
    BY DEF FundedAllowanceIntact
  <2>1. CASE f = e /\ escrow[e].payer = u
    BY <2>1 DEF TypeOK
  <2>2. CASE ~(f = e /\ escrow[e].payer = u)
    BY <2>2 DEF TypeOK, TokenTypeOK, PartiesFixed, FundedAllowanceIntact
  <2> QED BY <2>1, <2>2
<1> QED BY <1>3, <1>4, <1>5, <1>6, <1>7

LEMMA InitializeStep ==
  ASSUME IInv, NEW e \in Escrows, NEW t \in Parties, Initialize(e, t[1], t[2], t[3])
  PROVE  IInv'
<1> USE DEF IInv, Initialize, Opens, Register
<1>1. t[1] \in Users /\ t[2] \in Users /\ t[3] \in Users
  BY EscrowAssumption
<1>2. TypeOK'
  BY <1>1 DEF TypeOK, TokenTypeOK, EscrowRecord, Statuses
<1>3. DelegationsRegistered'
  BY DEF DelegationsRegistered
<1>4. PartiesFixed' /\ PaidAfterRelease' /\ InitializedIffRegistered'
  BY <1>1 DEF TypeOK, PartiesFixed, PaidAfterRelease, InitializedIffRegistered
<1>5. ProofsAccepted'
  BY DEF ProofsAccepted, Accepted, SetSpenderCircuit, FullReleaseCircuit, Conserves, InRange
<1>6. FundedAllowanceIntact'
  BY DEF TypeOK, FundedAllowanceIntact
<1> QED BY <1>2, <1>3, <1>4, <1>5, <1>6

LEMMA ReleaseStep ==
  ASSUME IInv, NEW e \in Escrows, NEW p \in proofs, ApproveAndRelease(e, p)
  PROVE  IInv'
<1> USE ProofFacts
    DEF IInv, ApproveAndRelease, Releasable, ReleaseArguments, ConfidentialTransferFrom,
        SpendsAllowance, Settled
<1>1. TypeOK'
  <2>1. Plus(receiving[p.to], CommittedTx(p.value, p.c.r)) \in Commitment
    <3>1. p.c.r \in SUBSET Int
      BY DEF Commitment
    <3>2. CommittedTx(p.value, p.c.r) \in Commitment
      BY <3>1, CommittedTxType
    <3> QED BY <3>2, PlusType DEF TypeOK, TokenTypeOK
  <2>2. receiving' \in [Addresses -> Commitment]
    BY <2>1 DEF TypeOK, TokenTypeOK
  <2>3. [delegation[p.from][e] EXCEPT !.c = Committed(p.rest, p.salt)] \in Delegation
    <3>1. delegation[p.from][e] \in Delegation
      BY DEF TypeOK, TokenTypeOK
    <3> QED BY <3>1 DEF Delegation
  <2>4. delegation' \in [Users -> [Escrows -> Delegation]]
    <3>1. [delegation[p.from] EXCEPT ![e] =
             [delegation[p.from][e] EXCEPT !.c = Committed(p.rest, p.salt)]]
            \in [Escrows -> Delegation]
      BY <2>3 DEF TypeOK, TokenTypeOK
    <3> QED BY <3>1 DEF TypeOK, TokenTypeOK
  <2>5. escrow' \in [Escrows -> EscrowRecord]
    BY DEF TypeOK, EscrowRecord, Statuses
  <2>6. paid' \in [Escrows -> Nat]
    BY DEF TypeOK
  <2> QED BY <2>2, <2>4, <2>5, <2>6 DEF TypeOK, TokenTypeOK
<1>6. /\ delegation'[p.from][e].live
      /\ \A w \in Users, f \in Escrows :
           ~(w = p.from /\ f = e) => delegation'[w][f] = delegation[w][f]
  <2>1. delegation[p.from][e] \in Delegation
    BY DEF TypeOK, TokenTypeOK
  <2> QED BY <2>1 DEF TypeOK, TokenTypeOK, Delegation
<1>2. DelegationsRegistered'
  <2> SUFFICES ASSUME NEW w \in Users, NEW f \in Escrows
               PROVE  \/ delegation'[w][f].live /\ w \in registered' /\ f \in registered'
                      \/ delegation'[w][f] = NoDelegation
    BY DEF DelegationsRegistered
  <2>1. CASE w = p.from /\ f = e
    BY <2>1, <1>6 DEF NoDelegation, DelegationsRegistered
  <2>2. CASE ~(w = p.from /\ f = e)
    <3>1. delegation'[w][f] = delegation[w][f] /\ registered' = registered
      BY <2>2, <1>6
    <3>2. \/ delegation[w][f].live /\ w \in registered /\ f \in registered
          \/ delegation[w][f] = NoDelegation
      BY DEF DelegationsRegistered
    <3> QED BY <3>1, <3>2
  <2> QED BY <2>1, <2>2
<1>3. PartiesFixed' /\ PaidAfterRelease' /\ InitializedIffRegistered'
  BY DEF TypeOK, PartiesFixed, PaidAfterRelease, InitializedIffRegistered
<1>4. ProofsAccepted'
  BY DEF ProofsAccepted, Accepted, SetSpenderCircuit, FullReleaseCircuit, Conserves, InRange
<1>5. FundedAllowanceIntact'
  <2> SUFFICES ASSUME NEW f \in Escrows, escrow'[f].status = "Funded", NEW c \in locked'[f]
               PROVE  /\ delegation'[escrow'[f].payer][f].live
                      /\ delegation'[escrow'[f].payer][f].c = c
    BY DEF FundedAllowanceIntact
  <2>1. f # e /\ escrow'[f] = escrow[f]
    BY DEF TypeOK, EscrowRecord
  <2>2. delegation'[escrow[f].payer][f] = delegation[escrow[f].payer][f]
    BY <2>1, <1>6 DEF PartiesFixed
  <2> QED BY <2>1, <2>2 DEF FundedAllowanceIntact
<1> QED BY <1>1, <1>2, <1>3, <1>4, <1>5

-----------------------------------------------------------------------------
(* The inductive invariant *)

LEMMA InitInv == Init => IInv
<1> SUFFICES ASSUME Init PROVE IInv
  OBVIOUS
<1>1. TypeOK
  BY InitType
<1> USE TokenAssumption DEF Init, TokenInit, NoEscrow
<1>2. DelegationsRegistered
  BY DEF DelegationsRegistered
<1>3. PartiesFixed /\ ProofsAccepted /\ PaidAfterRelease
  BY DEF PartiesFixed, ProofsAccepted, PaidAfterRelease
<1>4. InitializedIffRegistered /\ FundedAllowanceIntact
  BY DEF InitializedIffRegistered, FundedAllowanceIntact
<1> QED BY <1>1, <1>2, <1>3, <1>4 DEF IInv

LEMMA StutterStep == ASSUME IInv, UNCHANGED vars PROVE IInv'
<1>1. TypeOK'
  BY DEF IInv, TypeOK, TokenTypeOK, vars, tokenVars
<1> QED BY <1>1, BalanceStep DEF vars, tokenVars, escrowVars

LEMMA HolderStep ==
  ASSUME IInv, NEW u \in Users,
         \/ UserRegister(u)
         \/ UserMerge(u)
         \/ ProveWithdraw(u)
         \/ \E to \in Payees : ProveTransfer(u, to)
         \/ \E to \in Payees, x \in 1 .. MaxValue : UserDeposit(u, to, x)
         \/ \E e \in Escrows :
              \/ ProveSetSpender(u, e)
              \/ Revoke(u, e)
              \/ \E to \in Payees : ProveFullRelease(u, e, to)
  PROVE  IInv'
<1>1. CASE UserRegister(u)
  BY <1>1, UserRegisterStep
<1>2. CASE UserMerge(u)
  BY <1>2, UserMergeStep
<1>3. ASSUME NEW circuit \in Circuits, NEW spender, NEW to,
             ProveOwnerSpend(u, circuit, spender, to)
      PROVE  IInv'
  <2>1. TypeOK
    BY DEF IInv
  <2> QED BY <1>3, <2>1, ProveOwnerSpendType, ProveStep
<1>4. CASE ProveWithdraw(u)
  BY <1>3, <1>4 DEF ProveWithdraw, Circuits
<1>5. CASE \E to \in Payees : ProveTransfer(u, to)
  BY <1>3, <1>5 DEF ProveTransfer, Circuits
<1>6. CASE \E to \in Payees, x \in 1 .. MaxValue : UserDeposit(u, to, x)
  BY <1>6, UserDepositStep, EscrowAssumption
<1>7. ASSUME NEW e \in Escrows,
             \/ ProveSetSpender(u, e)
             \/ Revoke(u, e)
             \/ \E to \in Payees : ProveFullRelease(u, e, to)
      PROVE  IInv'
  <2>1. CASE ProveSetSpender(u, e)
    BY <1>3, <2>1 DEF ProveSetSpender, Circuits
  <2>2. CASE Revoke(u, e)
    BY <2>2, RevokeStep
  <2>3. CASE \E to \in Payees : ProveFullRelease(u, e, to)
    <3>1. TypeOK
      BY DEF IInv
    <3> QED BY <2>3, <3>1, ProveFullReleaseType, ProveStep
  <2> QED BY <1>7, <2>1, <2>2, <2>3
<1> QED BY <1>1, <1>2, <1>4, <1>5, <1>6, <1>7

LEMMA SubmitStep ==
  ASSUME IInv, NEW p \in proofs,
         \/ UserWithdraw(p)
         \/ UserTransfer(p)
         \/ \E until \in Expiries :
              \/ UserSetSpender(p, until)
              \/ \E e \in Escrows : Fund(e, p, until)
         \/ \E e \in Escrows : ApproveAndRelease(e, p)
  PROVE  IInv'
BY UserWithdrawStep, UserTransferStep, UserSetSpenderStep, FundStep, ReleaseStep

LEMMA NextStep == ASSUME IInv, [Next]_vars PROVE IInv'
<1>1. CASE UNCHANGED vars
  BY <1>1, StutterStep
<1>2. CASE Tick
  BY <1>2, TickStep
<1>3. CASE \E e \in Escrows, t \in Parties : Initialize(e, t[1], t[2], t[3])
  BY <1>3, InitializeStep
<1>4. ASSUME NEW u \in Holders,
         \/ UserRegister(u)
         \/ UserMerge(u)
         \/ ProveWithdraw(u)
         \/ \E to \in Payees : ProveTransfer(u, to)
         \/ \E to \in Payees, x \in 1 .. MaxValue : UserDeposit(u, to, x)
         \/ \E e \in Escrows :
              \/ ProveSetSpender(u, e)
              \/ Revoke(u, e)
              \/ \E to \in Payees : ProveFullRelease(u, e, to)
      PROVE IInv'
  <2>1. u \in Users
    BY EscrowAssumption
  <2> QED BY <1>4, <2>1, HolderStep
<1>5. ASSUME NEW p \in proofs,
         \/ UserWithdraw(p)
         \/ UserTransfer(p)
         \/ \E until \in Expiries :
              \/ UserSetSpender(p, until)
              \/ \E e \in Escrows : Fund(e, p, until)
         \/ \E e \in Escrows : ApproveAndRelease(e, p)
      PROVE IInv'
  BY <1>5, SubmitStep
<1> QED BY <1>1, <1>2, <1>3, <1>4, <1>5 DEF Next

\* Every reachable state satisfies the inductive invariant.
THEOREM Invariance == Spec => []IInv
<1>1. Init => IInv
  BY InitInv
<1>2. IInv /\ [Next]_vars => IInv'
  BY NextStep
<1> QED BY <1>1, <1>2, PTL DEF Spec

\* Every variable keeps its type: in particular no balance and no allowance
\* ever becomes negative, whatever proofs are submitted in whatever order.
THEOREM TypeCorrect == Spec => []TypeOK
<1>1. IInv => TypeOK
  BY DEF IInv
<1> QED BY <1>1, Invariance, PTL

\* The record of an escrow and its token account exist together
\* (contracts/escrow/src/lib.rs, `initialize`).
THEOREM InitializeIsAtomic == Spec => []InitializedIffRegistered
<1>1. IInv => InitializedIffRegistered
  BY DEF IInv
<1> QED BY <1>1, Invariance, PTL

\* Only the payer's own revocation takes a funded allowance away.
THEOREM AllowanceProtected == Spec => []FundedAllowanceIntact
<1>1. IInv => FundedAllowanceIntact
  BY DEF IInv
<1> QED BY <1>1, Invariance, PTL

-----------------------------------------------------------------------------
(* What a release does *)

LEMMA ReleaseMoves ==
  ASSUME IInv, NEW e \in Escrows, NEW p \in proofs, ApproveAndRelease(e, p)
  PROVE  /\ ReleasesEverything(e)
         /\ p.from = escrow[e].payer /\ p.from \in Users
         /\ escrow[e].status = "Funded"
         /\ escrow' = [escrow EXCEPT ![e] = Settled(e)]
         /\ paid' = [paid EXCEPT ![e] = @ + delegation[p.from][e].c.v]
         /\ \A w \in Users, f \in Escrows :
              ~(w = p.from /\ f = e) => delegation'[w][f] = delegation[w][f]
<1> USE ProofFacts
    DEF IInv, ApproveAndRelease, Releasable, ReleaseArguments, ConfidentialTransferFrom,
        SpendsAllowance
<1>1. /\ p.from \in Users /\ p.to \in Addresses
      /\ p.from = escrow[e].payer /\ p.to = escrow[e].receiver /\ p.spender = e
      /\ p.c = delegation[p.from][e].c
  OBVIOUS
<1>2. p.rest = 0 /\ p.value = p.c.v
  <2>1. FullReleaseCircuit(p)
    BY DEF ProofsAccepted, Accepted
  <2> QED BY <2>1, <1>1, TokenAssumption
          DEF FullReleaseCircuit, Conserves, InRange, Commitment
<1>3. delegation[p.from][e] \in Delegation
  BY <1>1 DEF TypeOK, TokenTypeOK
<1>4. delegation'[p.from][e].c = Committed(p.rest, p.salt)
  BY <1>1, <1>3 DEF TypeOK, TokenTypeOK, Delegation
<1>5. \A w \in Users, f \in Escrows :
        ~(w = p.from /\ f = e) => delegation'[w][f] = delegation[w][f]
  BY <1>1 DEF TypeOK, TokenTypeOK
<1>6. receiving'[p.to].v = receiving[p.to].v + p.value
  BY <1>1 DEF TypeOK, TokenTypeOK, Plus, CommittedTx
<1>7. \A a \in Addresses \ {p.to} : receiving'[a] = receiving[a]
  BY DEF TypeOK, TokenTypeOK
<1>8. delegation'[p.from][e].c.v = 0
  BY <1>2, <1>4 DEF Committed
<1>9. ReleasesEverything(e)
  BY <1>1, <1>2, <1>6, <1>7, <1>8 DEF ReleasesEverything
<1> QED BY <1>1, <1>2, <1>5, <1>9

\* Steps that are not a release leave every released escrow released and
\* release no other.
LEMMA OnlyReleaseReleases ==
  ASSUME IInv, [Next]_vars, NEW e \in Escrows,
         escrow[e].status # "Released", escrow'[e].status = "Released"
  PROVE  \E p \in proofs : ApproveAndRelease(e, p)
<1>1. escrow' # escrow
  OBVIOUS
<1>2. ASSUME NEW f \in Escrows, NEW p \in proofs, NEW until \in Expiries, Fund(f, p, until)
      PROVE  FALSE
  BY <1>2 DEF Fund, IInv, TypeOK, EscrowRecord
<1>3. ASSUME NEW f \in Escrows, NEW t \in Parties, Initialize(f, t[1], t[2], t[3])
      PROVE  FALSE
  BY <1>3 DEF Initialize, Opens, IInv, TypeOK
<1>4. ASSUME NEW f \in Escrows, NEW p \in proofs, ApproveAndRelease(f, p)
      PROVE  f = e
  BY <1>4 DEF ApproveAndRelease, IInv, TypeOK
<1>5. \/ \E f \in Escrows, t \in Parties : Initialize(f, t[1], t[2], t[3])
      \/ \E p \in proofs, until \in Expiries, f \in Escrows : Fund(f, p, until)
      \/ \E p \in proofs, f \in Escrows : ApproveAndRelease(f, p)
  BY <1>1 DEF Next, vars, Tick, UserRegister, UserMerge, UserDeposit, UserWithdraw,
     UserTransfer, UserSetSpender, Revoke, ProveWithdraw, ProveTransfer, ProveSetSpender,
     ProveOwnerSpend, ProveFullRelease, Prove, escrowVars
<1> QED BY <1>2, <1>3, <1>4, <1>5

\* A release moves the complete delegation to the configured receiver, and
\* nothing else (TW-PoC-1 of spender_transfer_full_release, lib.rs `approve_and_release`).
THEOREM FullReleaseOnly == Spec => ReleasePaysAll
<1>1. ASSUME IInv, [Next]_vars
      PROVE  [\A e \in Escrows :
                (escrow[e].status # "Released" /\ escrow'[e].status = "Released")
                  => ReleasesEverything(e)]_vars
  BY <1>1, OnlyReleaseReleases, ReleaseMoves
<1> QED BY <1>1, Invariance, PTL DEF Spec, ReleasePaysAll

-----------------------------------------------------------------------------
(* Each escrow implements EscrowPayment *)

LEMMA PaymentInit == ASSUME Init, NEW e \in Escrows PROVE Payment(e)!Init
BY DEF Init, NoEscrow, Payment!Init

\* Steps that touch neither the records nor the delegations stutter.
LEMMA PaymentQuiet ==
  ASSUME NEW e \in Escrows, UNCHANGED <<delegation, escrow, paid>>
  PROVE  PaymentStep(e)
BY DEF PaymentStep, Payment!paymentVars

LEMMA PaymentInitialize ==
  ASSUME IInv, NEW f \in Escrows, NEW t \in Parties, Initialize(f, t[1], t[2], t[3]),
         NEW e \in Escrows
  PROVE  PaymentStep(e)
<1> USE DEF IInv, Initialize, Opens, Register
<1>1. CASE e = f
  <2>1. escrow'[e].status = "Initialized" /\ escrow'[e].payer = t[1] /\ t[1] \in Users
    BY <1>1, EscrowAssumption DEF TypeOK
  <2>2. delegation[t[1]][e] = NoDelegation
    BY <1>1, <2>1 DEF DelegationsRegistered
  <2>3. delegation'[t[1]][e].c.v = 0
    BY <2>2, ZeroType DEF NoDelegation
  <2> QED BY <1>1, <2>1, <2>3 DEF PaymentStep, Payment!Next, Payment!Open
<1>2. CASE e # f
  BY <1>2 DEF TypeOK, PaymentStep, Payment!paymentVars
<1> QED BY <1>1, <1>2

\* set_spender grants a delegation where there is none.
LEMMA PaymentGrant ==
  ASSUME IInv, NEW p \in proofs, NEW until \in Expiries, SetSpender(p, until),
         NEW e \in Escrows, escrow[e].status # "Absent"
  PROVE  /\ escrow[e].payer \in Users
         /\ \/ delegation'[escrow[e].payer][e].c.v = delegation[escrow[e].payer][e].c.v
            \/ /\ delegation[escrow[e].payer][e].c.v = 0
               /\ delegation'[escrow[e].payer][e].c.v \in Nat
         /\ p.from = escrow[e].payer /\ p.spender = e
              => /\ delegation[escrow[e].payer][e].c.v = 0
                 /\ delegation'[escrow[e].payer][e].c.v \in Nat
<1> DEFINE u == escrow[e].payer
<1>1. u \in Users
  BY DEF IInv, PartiesFixed
<1>2. CASE p.from = u /\ p.spender = e
  <2>1. delegation[u][e] = NoDelegation
    BY <1>1, <1>2 DEF IInv, DelegationsRegistered, SetSpender, MayDelegate
  <2>2. delegation[u][e].c.v = 0
    BY <2>1, ZeroType DEF NoDelegation
  <2>3. delegation'[u][e].c.v \in Nat
    <3>1. delegation'[u][e] \in Delegation
      BY <1>1, SetSpenderFacts DEF TokenTypeOK
    <3> QED BY <3>1 DEF Delegation, Commitment
  <2> QED BY <1>1, <2>2, <2>3
<1>3. CASE ~(p.from = u /\ p.spender = e)
  BY <1>1, <1>3 DEF IInv, TypeOK, TokenTypeOK, SetSpender
<1> QED BY <1>1, <1>2, <1>3

LEMMA PaymentUserSetSpender ==
  ASSUME IInv, NEW p \in proofs, NEW until \in Expiries, UserSetSpender(p, until),
         NEW e \in Escrows
  PROVE  PaymentStep(e)
<1> USE DEF UserSetSpender, escrowVars
<1>1. CASE escrow[e].status = "Absent"
  BY <1>1 DEF PaymentStep, Payment!paymentVars
<1>2. CASE escrow[e].status # "Absent"
  BY <1>2, PaymentGrant DEF PaymentStep, Payment!paymentVars, Payment!Next, Payment!Delegate
<1> QED BY <1>1, <1>2

LEMMA PaymentFund ==
  ASSUME IInv, NEW f \in Escrows, NEW p \in proofs, NEW until \in Expiries,
         Fund(f, p, until), NEW e \in Escrows
  PROVE  PaymentStep(e)
<1> USE DEF Fund
<1>1. CASE e = f
  <2>1. escrow'[e].status = "Funded" /\ escrow'[e].payer = escrow[e].payer
    BY <1>1 DEF IInv, TypeOK, EscrowRecord
  <2>2. escrow[e].status = "Initialized"
    BY <1>1
  <2> QED BY <1>1, <2>1, <2>2, PaymentGrant DEF PaymentStep, Payment!Next, Payment!Fund
<1>2. CASE e # f
  <2>1. escrow'[e] = escrow[e] /\ paid' = paid
    BY <1>2 DEF IInv, TypeOK
  <2>2. CASE escrow[e].status = "Absent"
    BY <2>1, <2>2 DEF PaymentStep, Payment!paymentVars
  <2>3. CASE escrow[e].status # "Absent"
    BY <2>1, <2>3, PaymentGrant
       DEF PaymentStep, Payment!paymentVars, Payment!Next, Payment!Delegate
  <2> QED BY <2>2, <2>3
<1> QED BY <1>1, <1>2

LEMMA PaymentRevoke ==
  ASSUME IInv, NEW u \in Users, NEW f \in Escrows, Revoke(u, f), NEW e \in Escrows
  PROVE  PaymentStep(e)
<1> USE DEF Revoke, RevokeSpender
<1>1. CASE escrow[e].status = "Absent"
  BY <1>1 DEF PaymentStep, Payment!paymentVars
<1>2. CASE escrow[e].status # "Absent" /\ e = f /\ escrow[e].payer = u
  <2>1. delegation'[u][e] = NoDelegation
    BY <1>2 DEF IInv, TypeOK, TokenTypeOK
  <2>2. delegation'[u][e].c.v = 0
    BY <2>1, ZeroType DEF NoDelegation
  <2> QED BY <1>2, <2>2 DEF PaymentStep, Payment!Next, Payment!Reclaim
<1>3. CASE escrow[e].status # "Absent" /\ ~(e = f /\ escrow[e].payer = u)
  <2>1. escrow[e].payer \in Users
    BY <1>3 DEF IInv, PartiesFixed
  <2>2. delegation'[escrow[e].payer][e] = delegation[escrow[e].payer][e]
    BY <1>3, <2>1 DEF IInv, TypeOK, TokenTypeOK
  <2> QED BY <2>2 DEF PaymentStep, Payment!paymentVars
<1> QED BY <1>1, <1>2, <1>3

LEMMA PaymentRelease ==
  ASSUME IInv, NEW f \in Escrows, NEW p \in proofs, ApproveAndRelease(f, p),
         NEW e \in Escrows
  PROVE  PaymentStep(e)
<1> DEFINE u == escrow[f].payer
<1>0. /\ p.from = u /\ u \in Users /\ escrow[f].status = "Funded"
      /\ escrow' = [escrow EXCEPT ![f] = Settled(f)]
      /\ paid' = [paid EXCEPT ![f] = @ + delegation[u][f].c.v]
      /\ delegation'[u][f].c.v = 0
      /\ \A w \in Users, g \in Escrows :
           ~(w = u /\ g = f) => delegation'[w][g] = delegation[w][g]
  BY ReleaseMoves DEF ReleasesEverything
<1>1. CASE e = f
  <2>1. escrow'[e].status = "Released" /\ escrow'[e].payer = u
    BY <1>0, <1>1 DEF IInv, TypeOK, EscrowRecord, Settled
  <2>2. paid'[e] = paid[e] + delegation[u][e].c.v
    BY <1>0, <1>1 DEF IInv, TypeOK
  <2> QED BY <1>0, <1>1, <2>1, <2>2 DEF PaymentStep, Payment!Next, Payment!Release
<1>2. CASE e # f
  <2>1. escrow'[e] = escrow[e] /\ paid'[e] = paid[e]
    BY <1>0, <1>2 DEF IInv, TypeOK
  <2>2. CASE escrow[e].status = "Absent"
    BY <2>1, <2>2 DEF PaymentStep, Payment!paymentVars
  <2>3. CASE escrow[e].status # "Absent"
    <3>1. delegation'[escrow[e].payer][e] = delegation[escrow[e].payer][e]
      BY <1>0, <1>2, <2>3 DEF IInv, PartiesFixed
    <3> QED BY <2>1, <2>3, <3>1 DEF PaymentStep, Payment!paymentVars
  <2> QED BY <2>2, <2>3
<1> QED BY <1>1, <1>2

LEMMA PaymentNext ==
  ASSUME IInv, [Next]_vars, NEW e \in Escrows PROVE PaymentStep(e)
<1>1. \/ UNCHANGED <<delegation, escrow, paid>>
      \/ \E u \in Users, f \in Escrows : Revoke(u, f)
      \/ \E f \in Escrows, t \in Parties : Initialize(f, t[1], t[2], t[3])
      \/ \E p \in proofs, until \in Expiries : UserSetSpender(p, until)
      \/ \E p \in proofs, until \in Expiries, f \in Escrows : Fund(f, p, until)
      \/ \E p \in proofs, f \in Escrows : ApproveAndRelease(f, p)
  <2>1. CASE UNCHANGED vars
    BY <2>1 DEF vars, tokenVars
  <2>2. CASE Tick
    BY <2>2 DEF Tick, CloseLedger, escrowVars
  <2>3. ASSUME NEW u \in Holders,
               \/ UserRegister(u)
               \/ UserMerge(u)
               \/ ProveWithdraw(u)
               \/ \E to \in Payees : ProveTransfer(u, to)
               \/ \E to \in Payees, x \in 1 .. MaxValue : UserDeposit(u, to, x)
               \/ \E f \in Escrows :
                    \/ ProveSetSpender(u, f)
                    \/ \E to \in Payees : ProveFullRelease(u, f, to)
        PROVE  UNCHANGED <<delegation, escrow, paid>>
    BY <2>3 DEF UserRegister, Register, UserMerge, Merge, UserDeposit, Deposit, ProveWithdraw,
       ProveTransfer, ProveSetSpender, ProveOwnerSpend, ProveFullRelease, Prove, tokenVars,
       escrowVars
  <2>4. ASSUME NEW p \in proofs, UserWithdraw(p) \/ UserTransfer(p)
        PROVE  UNCHANGED <<delegation, escrow, paid>>
    BY <2>4 DEF UserWithdraw, Withdraw, UserTransfer, Transfer, escrowVars
  <2> QED BY <2>1, <2>2, <2>3, <2>4, EscrowAssumption DEF Next
<1> QED BY <1>1, PaymentQuiet, PaymentRevoke, PaymentInitialize, PaymentUserSetSpender,
           PaymentFund, PaymentRelease

\* Every escrow keeps the promise of EscrowPayment: one release, of everything
\* its payer delegated, and none before it is funded.
THEOREM Refinement == Spec => ImplementsPayment
<1>1. Init => \A e \in Escrows : Payment(e)!Init
  BY PaymentInit
<1>2. IInv /\ [Next]_vars => [\A e \in Escrows : PaymentStep(e)]_vars
  BY PaymentNext
<1> QED BY <1>1, <1>2, Invariance, PTL DEF Spec, ImplementsPayment
=============================================================================

------------------------- MODULE Conservation_proofs -------------------------
(***************************************************************************)
(* Value is neither created nor destroyed: whatever proofs arrive in       *)
(* whatever order, public balances, committed balances and delegations add *)
(* up to the initial supply, for every finite set of users and escrows.    *)
(***************************************************************************)
EXTENDS Escrow_proofs, DataInduction

\* The four kinds of balance, as functions to sum.
SpendableValues == [a \in Addresses |-> spendable[a].v]
ReceivingValues == [a \in Addresses |-> receiving[a].v]
DelegatedValues == [d \in Users \X Escrows |-> delegation[d[1]][d[2]].c.v]

AssetSum == SumFunctionOnSet(asset, Users)
SpendableSum == SumFunctionOnSet(SpendableValues, Addresses)
ReceivingSum == SumFunctionOnSet(ReceivingValues, Addresses)
DelegatedSum == SumFunctionOnSet(DelegatedValues, Users \X Escrows)

LEMMA TotalParts ==
  ASSUME TypeOK
  PROVE  TotalValue = AssetSum + SpendableSum + ReceivingSum + DelegatedSum
BY DEF TotalValue, SumFunction, AssetSum, SpendableSum, ReceivingSum, DelegatedSum,
       SpendableValues, ReceivingValues, DelegatedValues, TypeOK, TokenTypeOK

LEMMA FiniteParts ==
  /\ IsFiniteSet(Users) /\ IsFiniteSet(Addresses) /\ IsFiniteSet(Users \X Escrows)
BY EscrowAssumption, FS_Union, FS_Product DEF Addresses

LEMMA ValueTypes ==
  ASSUME TypeOK
  PROVE  /\ \A u \in Users : asset[u] \in Int
         /\ \A a \in Addresses : /\ SpendableValues[a] \in Int /\ SpendableValues[a] = spendable[a].v
                                 /\ ReceivingValues[a] \in Int /\ ReceivingValues[a] = receiving[a].v
         /\ \A d \in Users \X Escrows : DelegatedValues[d] \in Int
         /\ \A u \in Users, e \in Escrows : DelegatedValues[<<u, e>>] = delegation[u][e].c.v
BY DEF TypeOK, TokenTypeOK, Commitment, Delegation, SpendableValues, ReceivingValues, DelegatedValues

LEMMA SumTypes ==
  ASSUME TypeOK
  PROVE  AssetSum \in Int /\ SpendableSum \in Int /\ ReceivingSum \in Int /\ DelegatedSum \in Int
BY FiniteParts, ValueTypes, SumStep DEF AssetSum, SpendableSum, ReceivingSum, DelegatedSum

\* A change of one entry of one kind of balance.
LEMMA AssetChange ==
  ASSUME TypeOK, TypeOK', NEW u \in Users, \A w \in Users \ {u} : asset'[w] = asset[w]
  PROVE  AssetSum' = AssetSum + asset'[u] - asset[u]
<1>1. \A w \in Users : asset'[w] \in Int
  BY DEF TypeOK, TokenTypeOK
<1>2. SumFunctionOnSet(asset', Users) = SumFunctionOnSet(asset, Users) + asset'[u] - asset[u]
  BY <1>1, FiniteParts, ValueTypes, SumUpdate
<1> QED BY <1>2 DEF AssetSum

LEMMA SpendableChange ==
  ASSUME TypeOK, TypeOK', NEW u \in Addresses, \A a \in Addresses \ {u} : spendable'[a] = spendable[a]
  PROVE  SpendableSum' = SpendableSum + spendable'[u].v - spendable[u].v
<1>1. \A a \in Addresses : SpendableValues'[a] \in Int /\ SpendableValues'[a] = spendable'[a].v
  BY DEF TypeOK, TokenTypeOK, Commitment, SpendableValues
<1>2. \A a \in Addresses \ {u} : SpendableValues'[a] = SpendableValues[a]
  BY <1>1, ValueTypes
<1>3. SumFunctionOnSet(SpendableValues', Addresses)
        = SumFunctionOnSet(SpendableValues, Addresses) + SpendableValues'[u] - SpendableValues[u]
  <2> DEFINE f == SpendableValues  g == SpendableValues'
  <2>1. /\ \A y \in Addresses : f[y] \in Int
        /\ g[u] \in Int
        /\ \A y \in Addresses \ {u} : g[y] = f[y]
    BY <1>1, <1>2, ValueTypes
  <2>2. IsFiniteSet(Addresses)
    BY FiniteParts
  <2> HIDE DEF f, g
  <2>3. SumFunctionOnSet(g, Addresses) = SumFunctionOnSet(f, Addresses) + g[u] - f[u]
    BY <2>1, <2>2, SumUpdate
  <2> QED BY <2>3 DEF f, g
<1> QED BY <1>1, <1>3, ValueTypes DEF SpendableSum

LEMMA ReceivingChange ==
  ASSUME TypeOK, TypeOK', NEW u \in Addresses, \A a \in Addresses \ {u} : receiving'[a] = receiving[a]
  PROVE  ReceivingSum' = ReceivingSum + receiving'[u].v - receiving[u].v
<1>1. \A a \in Addresses : ReceivingValues'[a] \in Int /\ ReceivingValues'[a] = receiving'[a].v
  BY DEF TypeOK, TokenTypeOK, Commitment, ReceivingValues
<1>2. \A a \in Addresses \ {u} : ReceivingValues'[a] = ReceivingValues[a]
  BY <1>1, ValueTypes
<1>3. SumFunctionOnSet(ReceivingValues', Addresses)
        = SumFunctionOnSet(ReceivingValues, Addresses) + ReceivingValues'[u] - ReceivingValues[u]
  <2> DEFINE f == ReceivingValues  g == ReceivingValues'
  <2>1. /\ \A y \in Addresses : f[y] \in Int
        /\ g[u] \in Int
        /\ \A y \in Addresses \ {u} : g[y] = f[y]
    BY <1>1, <1>2, ValueTypes
  <2>2. IsFiniteSet(Addresses)
    BY FiniteParts
  <2> HIDE DEF f, g
  <2>3. SumFunctionOnSet(g, Addresses) = SumFunctionOnSet(f, Addresses) + g[u] - f[u]
    BY <2>1, <2>2, SumUpdate
  <2> QED BY <2>3 DEF f, g
<1> QED BY <1>1, <1>3, ValueTypes DEF ReceivingSum

LEMMA DelegationChange ==
  ASSUME TypeOK, TypeOK', NEW u \in Users, NEW e \in Escrows,
         \A w \in Users, f \in Escrows : ~(w = u /\ f = e) => delegation'[w][f].c = delegation[w][f].c
  PROVE  DelegatedSum' = DelegatedSum + delegation'[u][e].c.v - delegation[u][e].c.v
<1>1. /\ \A d \in Users \X Escrows : DelegatedValues'[d] \in Int
      /\ \A w \in Users, f \in Escrows : DelegatedValues'[<<w, f>>] = delegation'[w][f].c.v
  BY DEF TypeOK, TokenTypeOK, Delegation, Commitment, DelegatedValues
<1>2. \A d \in (Users \X Escrows) \ {<<u, e>>} : DelegatedValues'[d] = DelegatedValues[d]
  BY DEF DelegatedValues
<1>3. <<u, e>> \in Users \X Escrows
  OBVIOUS
<1>4. SumFunctionOnSet(DelegatedValues', Users \X Escrows)
        = SumFunctionOnSet(DelegatedValues, Users \X Escrows)
            + DelegatedValues'[<<u, e>>] - DelegatedValues[<<u, e>>]
  <2> DEFINE f == DelegatedValues  g == DelegatedValues'  D == Users \X Escrows  x == <<u, e>>
  <2>1. /\ \A y \in D : f[y] \in Int
        /\ x \in D /\ g[x] \in Int
        /\ \A y \in D \ {x} : g[y] = f[y]
    BY <1>1, <1>2, <1>3, ValueTypes
  <2>2. IsFiniteSet(D)
    BY FiniteParts
  <2> HIDE DEF f, g, D, x
  <2>3. SumFunctionOnSet(g, D) = SumFunctionOnSet(f, D) + g[x] - f[x]
    BY <2>1, <2>2, SumUpdate
  <2> QED BY <2>3 DEF f, g, D, x
<1> QED BY <1>1, <1>4, ValueTypes DEF DelegatedSum

\* What an accepted proof takes and what it leaves make up what was there.
LEMMA ProofConserves ==
  ASSUME IInv, NEW p \in proofs PROVE p.c.v = p.rest + p.value
<1>1. p.rest = p.c.v - p.value
  BY DEF IInv, ProofsAccepted, Accepted, SetSpenderCircuit, FullReleaseCircuit, Conserves
<1> QED BY <1>1, ProofFacts DEF IInv, Commitment

\* A step keeps the total when the changes of the four sums cancel out.
LEMMA TotalKept ==
  ASSUME TypeOK, TypeOK',
         AssetSum' + SpendableSum' + ReceivingSum' + DelegatedSum'
           = AssetSum + SpendableSum + ReceivingSum + DelegatedSum
  PROVE  TotalValue' = TotalValue
<1>1. TotalValue = AssetSum + SpendableSum + ReceivingSum + DelegatedSum
  BY TotalParts
<1>2. TotalValue' = AssetSum' + SpendableSum' + ReceivingSum' + DelegatedSum'
  BY DEF TotalValue, SumFunction, AssetSum, SpendableSum, ReceivingSum, DelegatedSum,
     SpendableValues, ReceivingValues, DelegatedValues, TypeOK, TokenTypeOK
<1> QED BY <1>1, <1>2

LEMMA TotalUnchanged ==
  ASSUME UNCHANGED <<asset, spendable, receiving, delegation>>
  PROVE  TotalValue' = TotalValue
BY DEF TotalValue

\* Every kind of balance that a step leaves alone.
LEMMA SumsUnchanged ==
  /\ UNCHANGED asset => AssetSum' = AssetSum
  /\ UNCHANGED spendable => SpendableSum' = SpendableSum
  /\ UNCHANGED receiving => ReceivingSum' = ReceivingSum
  /\ UNCHANGED delegation => DelegatedSum' = DelegatedSum
BY DEF AssetSum, SpendableSum, ReceivingSum, DelegatedSum, SpendableValues, ReceivingValues,
       DelegatedValues

-----------------------------------------------------------------------------
(* One lemma per transaction that moves value. *)

LEMMA DepositConserves ==
  ASSUME TypeOK, TypeOK', NEW u \in Users, NEW to \in Addresses, NEW x \in Nat, Deposit(u, to, x)
  PROVE  TotalValue' = TotalValue
<1>1. asset'[u] = asset[u] - x /\ \A w \in Users \ {u} : asset'[w] = asset[w]
  BY DEF TypeOK, TokenTypeOK, Deposit
<1>2. /\ receiving'[to].v = receiving[to].v + x
      /\ \A a \in Addresses \ {to} : receiving'[a] = receiving[a]
  BY DEF TypeOK, TokenTypeOK, Deposit, Plus, Unblinded
<1>3. UNCHANGED <<spendable, delegation>>
  BY DEF Deposit
<1>4. AssetSum' = AssetSum + (-x) /\ asset[u] \in Int
  BY <1>1, AssetChange, SumTypes, ValueTypes
<1>5. ReceivingSum' = ReceivingSum + x
  BY <1>2, ReceivingChange, SumTypes, ValueTypes
<1> QED BY <1>3, <1>4, <1>5, SumsUnchanged, SumTypes, TotalKept

LEMMA MergeConserves ==
  ASSUME TypeOK, TypeOK', NEW u \in Users, Merge(u)
  PROVE  TotalValue' = TotalValue
<1> USE DEF Addresses
<1>1. /\ spendable'[u].v = spendable[u].v + receiving[u].v
      /\ \A a \in Addresses \ {u} : spendable'[a] = spendable[a]
  BY DEF TypeOK, TokenTypeOK, Merge, Plus
<1>2. /\ receiving'[u].v = 0
      /\ \A a \in Addresses \ {u} : receiving'[a] = receiving[a]
  BY DEF TypeOK, TokenTypeOK, Merge, Zero, Unblinded
<1>3. UNCHANGED <<asset, delegation>>
  BY DEF Merge
<1>4. SpendableSum' = SpendableSum + receiving[u].v
  BY <1>1, SpendableChange, SumTypes, ValueTypes
<1>5. ReceivingSum' = ReceivingSum - receiving[u].v /\ receiving[u].v \in Int
  BY <1>2, ReceivingChange, SumTypes, ValueTypes
<1> QED BY <1>3, <1>4, <1>5, SumsUnchanged, SumTypes, TotalKept

LEMMA WithdrawConserves ==
  ASSUME IInv, TypeOK', NEW p \in proofs, Withdraw(p)
  PROVE  TotalValue' = TotalValue
<1> USE DEF Addresses
<1>1. TypeOK /\ p.from \in Users /\ p.rest \in Nat /\ p.value \in Nat
  BY ProofFacts DEF IInv
<1>2. /\ spendable'[p.from].v = p.rest /\ spendable[p.from].v = p.rest + p.value
      /\ \A a \in Addresses \ {p.from} : spendable'[a] = spendable[a]
  BY <1>1, ProofConserves DEF TypeOK, TokenTypeOK, Withdraw, SpendsCurrent, Committed
<1>3. /\ asset'[p.from] = asset[p.from] + p.value
      /\ \A w \in Users \ {p.from} : asset'[w] = asset[w]
  BY <1>1 DEF TypeOK, TokenTypeOK, Withdraw
<1>4. UNCHANGED <<receiving, delegation>>
  BY DEF Withdraw
<1>5. SpendableSum' = SpendableSum - p.value
  BY <1>1, <1>2, SpendableChange, SumTypes
<1>6. AssetSum' = AssetSum + p.value
  BY <1>1, <1>3, AssetChange, SumTypes, ValueTypes
<1> QED BY <1>1, <1>4, <1>5, <1>6, SumsUnchanged, SumTypes, TotalKept

LEMMA TransferConserves ==
  ASSUME IInv, TypeOK', NEW p \in proofs, Transfer(p)
  PROVE  TotalValue' = TotalValue
<1> USE DEF Addresses
<1>1. TypeOK /\ p.from \in Users /\ p.to \in Addresses /\ p.rest \in Nat /\ p.value \in Nat
  BY ProofFacts DEF IInv
<1>2. /\ spendable'[p.from].v = p.rest /\ spendable[p.from].v = p.rest + p.value
      /\ \A a \in Addresses \ {p.from} : spendable'[a] = spendable[a]
  BY <1>1, ProofConserves DEF TypeOK, TokenTypeOK, Transfer, SpendsCurrent, Committed
<1>3. /\ receiving'[p.to].v = receiving[p.to].v + p.value
      /\ \A a \in Addresses \ {p.to} : receiving'[a] = receiving[a]
  BY <1>1 DEF TypeOK, TokenTypeOK, Transfer, Plus, CommittedTx
<1>4. UNCHANGED <<asset, delegation>>
  BY DEF Transfer
<1>5. SpendableSum' = SpendableSum - p.value
  BY <1>1, <1>2, SpendableChange, SumTypes
<1>6. ReceivingSum' = ReceivingSum + p.value
  BY <1>1, <1>3, ReceivingChange, SumTypes, ValueTypes
<1> QED BY <1>1, <1>4, <1>5, <1>6, SumsUnchanged, SumTypes, TotalKept

\* A proof for set_spender names an escrow.
SpendersAreEscrows == \A p \in proofs : p.circuit = "set_spender" => p.spender \in Escrows

LEMMA SpendersStep ==
  ASSUME SpendersAreEscrows, [Next]_vars PROVE SpendersAreEscrows'
<1>1. CASE UNCHANGED proofs
  BY <1>1 DEF SpendersAreEscrows
<1>2. ASSUME NEW u, NEW circuit, NEW spender, NEW to, ProveOwnerSpend(u, circuit, spender, to),
             circuit = "set_spender" => spender \in Escrows
      PROVE  SpendersAreEscrows'
  <2>1. PICK value \in 0 .. MaxValue :
          Prove(Statement(circuit, u, spender, to, spendable[u], value, salt + 1))
    BY <1>2 DEF ProveOwnerSpend
  <2> QED BY <1>2, <2>1 DEF Prove, Statement, SpendersAreEscrows
<1>3. ASSUME NEW u, NEW e, NEW to, ProveFullRelease(u, e, to)
      PROVE  SpendersAreEscrows'
  <2>1. PICK value \in 0 .. MaxValue :
          Prove(Statement("spender_transfer", u, e, to, delegation[u][e].c, value, salt + 1))
    BY <1>3 DEF ProveFullRelease
  <2> QED BY <2>1 DEF Prove, Statement, SpendersAreEscrows
<1>4. \/ UNCHANGED proofs
      \/ \E u \in Holders :
           \/ ProveWithdraw(u)
           \/ \E to \in Payees : ProveTransfer(u, to)
           \/ \E e \in Escrows : \/ ProveSetSpender(u, e)
                                 \/ \E to \in Payees : ProveFullRelease(u, e, to)
  BY DEF Next, vars, Tick, UserRegister, UserMerge, UserDeposit, UserWithdraw, UserTransfer,
     UserSetSpender, Revoke, Initialize, Opens, Fund, ApproveAndRelease, escrowVars
<1> QED BY <1>1, <1>2, <1>3, <1>4 DEF ProveWithdraw, ProveTransfer, ProveSetSpender

LEMMA SetSpenderConserves ==
  ASSUME IInv, SpendersAreEscrows, TypeOK', NEW p \in proofs, NEW until \in Expiries, SetSpender(p, until)
  PROVE  TotalValue' = TotalValue
<1> USE DEF Addresses
<1>1. /\ TypeOK /\ p.from \in Users /\ p.rest \in Nat /\ p.value \in Nat
      /\ p.spender \in Escrows
  BY ProofFacts DEF IInv, SpendersAreEscrows, SetSpender
<1>2. /\ spendable'[p.from].v = p.rest /\ spendable[p.from].v = p.rest + p.value
      /\ \A a \in Addresses \ {p.from} : spendable'[a] = spendable[a]
  BY <1>1, ProofConserves DEF TypeOK, TokenTypeOK, SetSpender, SpendsCurrent, Committed
<1>4. UNCHANGED <<asset, receiving>>
  BY DEF SetSpender
<1>5. SpendableSum' = SpendableSum - p.value
  BY <1>1, <1>2, SpendableChange, SumTypes
<1>6. DelegatedSum' = DelegatedSum + p.value
  <2>1. delegation[p.from][p.spender] = NoDelegation
    BY <1>1 DEF IInv, DelegationsRegistered, SetSpender, MayDelegate
  <2>2. delegation[p.from][p.spender].c.v = 0
    BY <2>1, ZeroType DEF NoDelegation
  <2>3. /\ delegation'[p.from][p.spender].c.v = p.value
        /\ \A w \in Users, f \in Escrows :
             ~(w = p.from /\ f = p.spender) => delegation'[w][f].c = delegation[w][f].c
    BY <1>1 DEF TypeOK, TokenTypeOK, SetSpender, Committed
  <2> QED BY <1>1, <2>2, <2>3, DelegationChange, SumTypes
<1> QED BY <1>1, <1>4, <1>5, <1>6, SumsUnchanged, SumTypes, TotalKept

LEMMA RevokeConserves ==
  ASSUME TypeOK, TypeOK', NEW u \in Users, NEW e \in Escrows, NEW s \in Nat, RevokeSpender(u, e, s)
  PROVE  TotalValue' = TotalValue
<1> USE DEF Addresses
<1> DEFINE x == delegation[u][e].c.v
<1>1. x \in Int
  BY DEF TypeOK, TokenTypeOK, Delegation, Commitment
<1>2. /\ spendable'[u].v = spendable[u].v + x
      /\ \A a \in Addresses \ {u} : spendable'[a] = spendable[a]
  BY DEF TypeOK, TokenTypeOK, RevokeSpender, Committed
<1>3. /\ delegation'[u][e].c.v = 0
      /\ \A w \in Users, f \in Escrows :
           ~(w = u /\ f = e) => delegation'[w][f].c = delegation[w][f].c
  BY ZeroType DEF TypeOK, TokenTypeOK, RevokeSpender, NoDelegation
<1>4. UNCHANGED <<asset, receiving>>
  BY DEF RevokeSpender
<1>5. SpendableSum' = SpendableSum + x
  BY <1>1, <1>2, SpendableChange, SumTypes, ValueTypes
<1>6. DelegatedSum' = DelegatedSum - x
  BY <1>1, <1>3, DelegationChange, SumTypes
<1> HIDE DEF x
<1> QED BY <1>1, <1>4, <1>5, <1>6, SumsUnchanged, SumTypes, TotalKept

LEMMA ReleaseConserves ==
  ASSUME IInv, TypeOK', NEW e \in Escrows, NEW p \in proofs, ApproveAndRelease(e, p)
  PROVE  TotalValue' = TotalValue
<1> USE DEF Addresses
<1> DEFINE u == escrow[e].payer  r == escrow[e].receiver  x == delegation[u][e].c.v
<1>1. /\ TypeOK /\ u \in Users /\ r \in Addresses
      /\ x \in Int
  BY ReleaseMoves, ProofFacts
     DEF IInv, ApproveAndRelease, ReleaseArguments, TypeOK, TokenTypeOK, Delegation, Commitment
<1>2. /\ receiving'[r].v = receiving[r].v + x
      /\ \A a \in Addresses \ {r} : receiving'[a] = receiving[a]
      /\ spendable' = spendable
      /\ delegation'[u][e].c.v = 0
  BY ReleaseMoves DEF ReleasesEverything
<1>3. \A w \in Users, f \in Escrows :
        ~(w = u /\ f = e) => delegation'[w][f].c = delegation[w][f].c
  BY ReleaseMoves
<1>4. asset' = asset
  BY DEF ApproveAndRelease, ConfidentialTransferFrom
<1>5. ReceivingSum' = ReceivingSum + x
  BY <1>1, <1>2, ReceivingChange, SumTypes, ValueTypes
<1>6. DelegatedSum' = DelegatedSum - x
  BY <1>1, <1>2, <1>3, DelegationChange, SumTypes
<1> HIDE DEF x
<1> QED BY <1>1, <1>2, <1>4, <1>5, <1>6, SumsUnchanged, SumTypes, TotalKept

\* No step creates or destroys value.
LEMMA NextConserves ==
  ASSUME IInv, SpendersAreEscrows, [Next]_vars PROVE TotalValue' = TotalValue
<1>0. TypeOK /\ TypeOK'
  BY NextStep DEF IInv
<1>1. CASE UNCHANGED <<asset, spendable, receiving, delegation>>
  BY <1>1, TotalUnchanged
<1>2. ASSUME NEW u \in Users, NEW to \in Addresses, NEW x \in 1 .. MaxValue,
             UserDeposit(u, to, x)
      PROVE  TotalValue' = TotalValue
  BY <1>0, <1>2, TokenAssumption, DepositConserves DEF UserDeposit
<1>3. ASSUME NEW u \in Users, UserMerge(u) PROVE TotalValue' = TotalValue
  BY <1>0, <1>3, MergeConserves DEF UserMerge
<1>4. ASSUME NEW u \in Users, NEW e \in Escrows, Revoke(u, e) PROVE TotalValue' = TotalValue
  BY <1>0, <1>4, RevokeConserves DEF Revoke, TypeOK
<1>5. ASSUME NEW p \in proofs, UserWithdraw(p) PROVE TotalValue' = TotalValue
  BY <1>0, <1>5, WithdrawConserves DEF UserWithdraw
<1>6. ASSUME NEW p \in proofs, UserTransfer(p) PROVE TotalValue' = TotalValue
  BY <1>0, <1>6, TransferConserves DEF UserTransfer
<1>7. ASSUME NEW p \in proofs, NEW until \in Expiries, SetSpender(p, until)
      PROVE  TotalValue' = TotalValue
  BY <1>0, <1>7, SetSpenderConserves
<1>8. ASSUME NEW p \in proofs, NEW e \in Escrows, ApproveAndRelease(e, p)
      PROVE  TotalValue' = TotalValue
  BY <1>0, <1>8, ReleaseConserves
<1>9. \/ UNCHANGED <<asset, spendable, receiving, delegation>>
      \/ \E u \in Users : \/ \E to \in Addresses, x \in 1 .. MaxValue : UserDeposit(u, to, x)
                          \/ UserMerge(u)
                          \/ \E e \in Escrows : Revoke(u, e)
      \/ \E p \in proofs : \/ UserWithdraw(p)
                           \/ UserTransfer(p)
                           \/ \E until \in Expiries : SetSpender(p, until)
                           \/ \E e \in Escrows : ApproveAndRelease(e, p)
  BY EscrowAssumption
     DEF Next, vars, tokenVars, Tick, CloseLedger, UserRegister, Register, ProveWithdraw,
         ProveTransfer, ProveSetSpender, ProveOwnerSpend, ProveFullRelease, Prove,
         Initialize, UserSetSpender, Fund
<1> QED BY <1>1, <1>2, <1>3, <1>4, <1>5, <1>6, <1>7, <1>8, <1>9

-----------------------------------------------------------------------------
LEMMA InitConserves == ASSUME Init PROVE ValueConserved
<1> USE DEF Addresses
<1>1. TypeOK
  BY InitType
<1>2. /\ asset = Supply /\ DOMAIN Supply = Users /\ DOMAIN Merged = Enrolled
      /\ Enrolled \in SUBSET Addresses
  BY TokenAssumption DEF Init, TokenInit
<1>3. AssetSum = SumFunction(Supply)
  BY <1>2 DEF AssetSum, SumFunction
<1>4. /\ \A a \in Addresses : ReceivingValues[a] = 0
      /\ \A d \in Users \X Escrows : DelegatedValues[d] = 0
  BY ZeroType DEF Init, TokenInit, ReceivingValues, DelegatedValues, NoDelegation
<1>5. ReceivingSum = 0 /\ DelegatedSum = 0
  <2>1. ReceivingSum = SumFunctionOnSet(ReceivingValues, {})
    BY <1>4, FiniteParts, SumSupport DEF ReceivingSum
  <2>2. DelegatedSum = SumFunctionOnSet(DelegatedValues, {})
    BY <1>4, FiniteParts, SumSupport DEF DelegatedSum
  <2> QED BY <2>1, <2>2, FS_EmptySet, SumStep
<1>6. /\ \A a \in Enrolled : SpendableValues[a] = Merged[a]
      /\ \A a \in Addresses \ Enrolled : SpendableValues[a] = 0
  BY ZeroType, <1>2 DEF Init, TokenInit, SpendableValues, Unblinded
<1>7. SpendableSum = SumFunction(Merged)
  <2>1. SpendableSum = SumFunctionOnSet(SpendableValues, Enrolled)
    BY <1>1, <1>2, <1>6, ValueTypes, FiniteParts, SumSupport DEF SpendableSum
  <2>2. IsFiniteSet(Enrolled)
    BY <1>2, FiniteParts, FS_Subset
  <2>3. \A a \in Enrolled : Merged[a] \in Int
    BY TokenAssumption
  <2>4. SumFunctionOnSet(SpendableValues, Enrolled) = SumFunctionOnSet(Merged, Enrolled)
    BY <1>6, <2>2, <2>3, SumSame
  <2> QED BY <1>2, <2>1, <2>4 DEF SumFunction
<1>8. TotalValue = AssetSum + SpendableSum + ReceivingSum + DelegatedSum
  BY <1>1, TotalParts
<1> QED BY <1>1, <1>3, <1>5, <1>7, <1>8, SumTypes DEF ValueConserved, InitialValue

\* "Value cannot be created by escrow operations" (docs/threat-model.md:23): no
\* deposit, merge, proof, delegation, revocation or release changes the total.
THEOREM Conservation == Spec => []ValueConserved
<1>1. Init => ValueConserved /\ SpendersAreEscrows
  BY InitConserves DEF Init, SpendersAreEscrows
<1>2. ValueConserved /\ SpendersAreEscrows /\ IInv /\ [Next]_vars
        => (ValueConserved /\ SpendersAreEscrows)'
  BY NextConserves, SpendersStep DEF ValueConserved, InitialValue
<1> QED BY <1>1, <1>2, Invariance, PTL DEF Spec
=============================================================================

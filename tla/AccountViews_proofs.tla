------------------------ MODULE AccountViews_proofs ------------------------
(***************************************************************************)
(* What the two readers of the token's events are shown is true, for every *)
(* set of users, escrows, keys and amounts and for histories of every      *)
(* length.  Readers replay the log; the proofs follow the replay of a log  *)
(* that the contract extends by one event at a time.                       *)
(***************************************************************************)
EXTENDS AccountViews, DataInduction

USE ViewsAssumption

-----------------------------------------------------------------------------
(* The token *)

Account == [registered : BOOLEAN, auditor : AuditorIds \cup {0},
            spendable : Commitment, receiving : Commitment]
Accounts == account \in [Users -> Account]

\* Nothing belongs to an account that was never opened.
ClosedEmpty ==
  \A u \in Users : ~account[u].registered =>
    /\ account[u].spendable = Zero /\ account[u].receiving = Zero
    /\ \A e \in Escrows : allowance[u][e] = 0

\* Events are about accounts that were opened.
Concerned ==
  \A i \in DOMAIN log : account[log[i].from].registered /\ account[log[i].to].registered

\* A credit holds the amount that was paid.
CreditsTrue ==
  \A i \in DOMAIN log : log[i].type \in Credits => log[i].credit.v = log[i].amount

\* Events about a delegation name its escrow.
EscrowNamed ==
  \A i \in DOMAIN log :
    log[i].type \in {"set_spender", "revoke_spender", "spender_transfer"} => log[i].with \in Escrows

TokenInv == TypeOK /\ Accounts /\ ClosedEmpty /\ Concerned /\ CreditsTrue /\ EscrowNamed

\* What an event tells of the step that emitted it.
Tells(ev) ==
  /\ log' = Append(log, ev) /\ keyOf' = keyOf
  /\ account[ev.from].registered <=> ev.type # "register"
  /\ ev.type = "register" => ev.to = ev.from
  /\ ev.type # "register" => account[ev.to].registered
  /\ ev.type \in Credits => ev.credit.v = ev.amount
  /\ ev.type \in {"withdraw", "transfer", "set_spender"} =>
       account[ev.from].spendable.v = ev.after.v + ev.amount
  /\ ev.type = "revoke_spender" => ev.after.v = account[ev.from].spendable.v + ev.amount
  /\ ev.type \in {"set_spender", "revoke_spender", "spender_transfer"} =>
       ev.with \in Escrows /\ ev.amount # 0
  /\ ev.type = "set_spender" => allowance[ev.from][ev.with] = 0
  /\ ev.type \in {"revoke_spender", "spender_transfer"} =>
       allowance[ev.from][ev.with] = ev.amount
MovesBalances(ev) ==
  \A w \in Users :
    /\ account'[w].registered <=> (account[w].registered \/ w = ev.from)
    /\ account'[w].spendable =
         IF w # ev.from THEN account[w].spendable
         ELSE IF ev.type = "merge" THEN Plus(account[w].spendable, account[w].receiving)
         ELSE IF ev.type \in Checkpoints THEN ev.after ELSE account[w].spendable
    /\ account'[w].receiving =
         IF w = ev.from /\ ev.type = "merge" THEN Zero
         ELSE IF w = ev.to /\ ev.type \in Credits THEN Plus(account[w].receiving, ev.credit)
         ELSE account[w].receiving
MovesAllowances(ev) ==
  \A w \in Users, e \in Escrows :
    allowance'[w][e] =
      IF w # ev.from \/ e # ev.with THEN allowance[w][e]
      ELSE IF ev.type = "set_spender" THEN ev.amount
      ELSE IF ev.type \in {"revoke_spender", "spender_transfer"} THEN 0
      ELSE allowance[w][e]
TokenStep(ev) ==
  /\ Tells(ev) /\ MovesBalances(ev) /\ MovesAllowances(ev)
  /\ account' \in [Users -> Account] /\ allowance' \in [Users -> [Escrows -> Nat]]
  /\ \A u \in Users : account'[u].registered => account'[u].auditor \in AuditorIds

-----------------------------------------------------------------------------
(* Commitments *)

LEMMA CommitmentOps ==
  /\ Zero \in Commitment /\ Zero.v = 0
  /\ \A v \in Nat : Unblinded(v) \in Commitment /\ Unblinded(v).v = v
  /\ \A c, d \in Commitment : Plus(c, d) \in Commitment /\ Plus(c, d).v = c.v + d.v
  /\ \A v \in Nat, s \in Nat : Committed(v, s) \in Commitment /\ Committed(v, s).v = v
  /\ \A v \in Nat, s \in Nat : CommittedTx(v, {s}) \in Commitment /\ CommittedTx(v, {s}).v = v
<1>1. Zero \in Commitment /\ Zero.v = 0
  BY DEF Zero, Unblinded, Commitment
<1>2. \A v \in Nat : Unblinded(v) \in Commitment /\ Unblinded(v).v = v
  BY DEF Unblinded, Commitment
<1>3. ASSUME NEW c \in Commitment, NEW d \in Commitment
      PROVE  Plus(c, d) \in Commitment /\ Plus(c, d).v = c.v + d.v
  <2>1. c.v + d.v \in Nat /\ c.r \cup d.r \in SUBSET Int
    BY DEF Commitment
  <2> QED BY <2>1 DEF Plus, Commitment
<1>4. \A v \in Nat, s \in Nat : Committed(v, s) \in Commitment /\ Committed(v, s).v = v
  BY DEF Committed, Commitment
<1>5. ASSUME NEW v \in Nat, NEW s \in Nat
      PROVE  CommittedTx(v, {s}) \in Commitment /\ CommittedTx(v, {s}).v = v
  <2>1. {-t : t \in {s}} \in SUBSET Int
    OBVIOUS
  <2> QED BY <2>1 DEF CommittedTx, Commitment
<1> QED BY <1>1, <1>2, <1>3, <1>4, <1>5

LEMMA AmountFacts == Amounts \subseteq Nat /\ \A v \in Amounts : v > 0
OBVIOUS

\* Shapes of accounts, and the salt of the next event.
LEMMA TokenFacts ==
  ASSUME TokenInv
  PROVE  /\ account \in [Users -> Account] /\ Len(log) \in Nat /\ Salt \in Nat
         /\ allowance \in [Users -> [Escrows -> Nat]]
         /\ \A u \in Users :
              /\ account[u].registered \in BOOLEAN
              /\ account[u].spendable \in Commitment /\ account[u].spendable.v \in Nat
              /\ account[u].receiving \in Commitment /\ account[u].receiving.v \in Nat
              /\ account[u].registered => account[u].auditor \in AuditorIds
              /\ account[u].registered => KeyOf(u) \in Keys \cup {NoKey}
              /\ ~account[u].registered => \A e \in Escrows : allowance[u][e] = 0
BY DEF TokenInv, TypeOK, Accounts, Account, ClosedEmpty, Commitment, Salt, KeyOf

LEMMA AccountFields ==
  ASSUME NEW a \in Account
  PROVE  /\ \A b \in BOOLEAN : [a EXCEPT !.registered = b] \in Account
         /\ \A id \in AuditorIds : [a EXCEPT !.auditor = id] \in Account
         /\ \A c \in Commitment : /\ [a EXCEPT !.spendable = c] \in Account
                                  /\ [a EXCEPT !.receiving = c] \in Account
BY DEF Account

\* The types of events.
LEMMA EventTypeNames ==
  \A type : type \in EventTypes <=>
    \/ type = "register" \/ type = "deposit" \/ type = "merge" \/ type = "withdraw"
    \/ type = "transfer" \/ type = "set_spender" \/ type = "revoke_spender"
    \/ type = "spender_transfer"
BY DEF EventTypes

\* What Emit appends.
Emitted(type, from, to, with, v, credit, keyS, keyR) ==
  [type |-> type, from |-> from, to |-> to, with |-> with, amount |-> v,
   after |-> account'[from].spendable, credit |-> credit, keyS |-> keyS, keyR |-> keyR]

LEMMA RegisterTold ==
  ASSUME TokenInv, NEW u \in Users, NEW id \in AuditorIds, Register(u, id)
  PROVE  \E ev \in Event : TokenStep(ev)
<1>1. /\ account' = [account EXCEPT ![u].registered = TRUE, ![u].auditor = id]
      /\ ~account[u].registered /\ allowance' = allowance
      /\ Emit("register", u, u, NoKey, 0, Zero)
  BY DEF Register
<1>2. account' \in [Users -> Account]
  <2>1. account[u] \in Account /\ account \in [Users -> Account]
    BY TokenFacts
  <2>2. [account[u] EXCEPT !.registered = TRUE] \in Account
    BY <2>1, AccountFields
  <2>3. [[account[u] EXCEPT !.registered = TRUE] EXCEPT !.auditor = id] \in Account
    BY <2>2, AccountFields
  <2> QED BY <1>1, <2>1, <2>2, <2>3
<1>3. \A w \in Users : /\ account'[w].spendable = account[w].spendable
                       /\ account'[w].receiving = account[w].receiving
                       /\ (account'[w].registered <=> (account[w].registered \/ w = u))
                       /\ account'[w].auditor = IF w = u THEN id ELSE account[w].auditor
  BY <1>1, TokenFacts DEF Account
<1>4. PICK ev \in Event :
        /\ log' = Append(log, ev) /\ keyOf' = keyOf
        /\ ev.type = "register" /\ ev.from = u /\ ev.to = u /\ ev.with = NoKey
        /\ ev.amount = 0 /\ ev.credit = Zero /\ ev.after = account'[u].spendable
  <2>1. account'[u].spendable \in Commitment
    BY <1>3, TokenFacts
  <2>2. PICK ev : ev = Emitted("register", u, u, NoKey, 0, Zero, NoKey, NoKey)
    OBVIOUS
  <2>3. ev \in Event
    BY <1>2, <2>1, <2>2, EventTypeNames, CommitmentOps DEF Emitted, Event
  <2> QED BY <1>1, <2>2, <2>3 DEF Emit, Emitted
<1>5. Tells(ev)
  BY <1>1, <1>4 DEF Tells, Credits
<1>6. MovesBalances(ev)
  BY <1>3, <1>4 DEF MovesBalances, Checkpoints, Credits
<1>7. MovesAllowances(ev)
  BY <1>1, <1>4 DEF MovesAllowances
<1>8. \A w \in Users : account'[w].registered => account'[w].auditor \in AuditorIds
  BY <1>3, TokenFacts
<1> QED BY <1>1, <1>2, <1>5, <1>6, <1>7, <1>8, TokenFacts DEF TokenStep

LEMMA DepositTold ==
  ASSUME TokenInv, NEW u \in Users, NEW v \in Amounts, Deposit(u, v)
  PROVE  \E ev \in Event : TokenStep(ev)
<1> DEFINE c == Plus(account[u].receiving, Unblinded(v))
<1>1. /\ account' = [account EXCEPT ![u].receiving = c]
      /\ account[u].registered /\ allowance' = allowance
      /\ Emit("deposit", u, u, NoKey, v, Unblinded(v))
  BY DEF Deposit
<1>2. c \in Commitment /\ Unblinded(v) \in Commitment /\ Unblinded(v).v = v /\ v \in Nat
  BY TokenFacts, CommitmentOps, AmountFacts
<1>3. account' \in [Users -> Account]
  <2> HIDE DEF c
  <2> QED BY <1>1, <1>2, TokenFacts DEF Account
<1>4. \A w \in Users : /\ account'[w].spendable = account[w].spendable
                       /\ account'[w].receiving = IF w = u THEN c ELSE account[w].receiving
                       /\ account'[w].registered = account[w].registered
                       /\ account'[w].auditor = account[w].auditor
  <2> HIDE DEF c
  <2> QED BY <1>1, TokenFacts DEF Account
<1>5. PICK ev \in Event :
        /\ log' = Append(log, ev) /\ keyOf' = keyOf
        /\ ev.type = "deposit" /\ ev.from = u /\ ev.to = u /\ ev.with = NoKey
        /\ ev.amount = v /\ ev.credit = Unblinded(v) /\ ev.after = account'[u].spendable
  <2>1. account'[u].spendable \in Commitment
    BY <1>4, TokenFacts
  <2>2. PICK ev : ev = Emitted("deposit", u, u, NoKey, v, Unblinded(v), NoKey, NoKey)
    OBVIOUS
  <2>3. ev \in Event
    BY <1>2, <2>1, <2>2, EventTypeNames, CommitmentOps DEF Emitted, Event
  <2> QED BY <1>1, <2>2, <2>3 DEF Emit, Emitted
<1>6. Tells(ev)
  BY <1>1, <1>2, <1>5 DEF Tells, Credits
<1>7. MovesBalances(ev)
  BY <1>1, <1>4, <1>5 DEF MovesBalances, Checkpoints, Credits
<1>8. MovesAllowances(ev)
  BY <1>1, <1>5 DEF MovesAllowances
<1>9. \A w \in Users : account'[w].registered => account'[w].auditor \in AuditorIds
  BY <1>4, TokenFacts
<1> QED BY <1>1, <1>3, <1>6, <1>7, <1>8, <1>9, TokenFacts DEF TokenStep

LEMMA MergeTold ==
  ASSUME TokenInv, NEW u \in Users, Merge(u)
  PROVE  \E ev \in Event : TokenStep(ev)
<1> DEFINE c == Plus(account[u].spendable, account[u].receiving)
<1>1. /\ account' = [account EXCEPT ![u].spendable = c, ![u].receiving = Zero]
      /\ account[u].registered /\ allowance' = allowance
      /\ Emit("merge", u, u, NoKey, 0, Zero)
  BY DEF Merge
<1>2. c \in Commitment /\ Zero \in Commitment
  BY TokenFacts, CommitmentOps
<1>3. account' \in [Users -> Account]
  <2> HIDE DEF c
  <2>1. account[u] \in Account /\ account \in [Users -> Account]
    BY TokenFacts
  <2>2. [account[u] EXCEPT !.spendable = c] \in Account
    BY <1>2, <2>1, AccountFields
  <2>3. [[account[u] EXCEPT !.spendable = c] EXCEPT !.receiving = Zero] \in Account
    BY <1>2, <2>2, AccountFields
  <2> QED BY <1>1, <2>1, <2>2, <2>3
<1>4. \A w \in Users : /\ account'[w].spendable = IF w = u THEN c ELSE account[w].spendable
                       /\ account'[w].receiving = IF w = u THEN Zero ELSE account[w].receiving
                       /\ account'[w].registered = account[w].registered
                       /\ account'[w].auditor = account[w].auditor
  <2> HIDE DEF c
  <2> QED BY <1>1, TokenFacts DEF Account
<1>5. PICK ev \in Event :
        /\ log' = Append(log, ev) /\ keyOf' = keyOf
        /\ ev.type = "merge" /\ ev.from = u /\ ev.to = u /\ ev.with = NoKey
        /\ ev.amount = 0 /\ ev.credit = Zero /\ ev.after = account'[u].spendable
  <2>1. account'[u].spendable \in Commitment
    BY <1>2, <1>4
  <2>2. PICK ev : ev = Emitted("merge", u, u, NoKey, 0, Zero, NoKey, NoKey)
    OBVIOUS
  <2>3. ev \in Event
    BY <1>2, <2>1, <2>2, EventTypeNames, CommitmentOps DEF Emitted, Event
  <2> QED BY <1>1, <2>2, <2>3 DEF Emit, Emitted
<1>6. Tells(ev)
  BY <1>1, <1>5 DEF Tells, Credits
<1>7. MovesBalances(ev)
  <2> HIDE DEF c
  <2>1. ev.from = u /\ ev.to = u /\ ev.type = "merge" /\ c = Plus(account[u].spendable, account[u].receiving)
    BY <1>5 DEF c
  <2>2. ASSUME NEW w \in Users
        PROVE  /\ account'[w].registered <=> (account[w].registered \/ w = u)
               /\ account'[w].spendable = IF w # u THEN account[w].spendable
                                          ELSE Plus(account[w].spendable, account[w].receiving)
               /\ account'[w].receiving = IF w = u THEN Zero ELSE account[w].receiving
    BY <1>1, <1>4, <2>1
  <2> QED BY <2>1, <2>2 DEF MovesBalances, Credits
<1>8. MovesAllowances(ev)
  BY <1>1, <1>5 DEF MovesAllowances
<1>9. \A w \in Users : account'[w].registered => account'[w].auditor \in AuditorIds
  BY <1>4, TokenFacts
<1> QED BY <1>1, <1>3, <1>6, <1>7, <1>8, <1>9, TokenFacts DEF TokenStep

\* The owner's balance after a proof of spending v.
LEMMA SpentFacts ==
  ASSUME TokenInv, NEW u \in Users, NEW v \in Nat, CanSpend(u, v)
  PROVE  /\ account[u].registered /\ Spent(u, v) \in [Users -> Account]
         /\ Spent(u, v)[u].spendable \in Commitment
         /\ account[u].spendable.v = Spent(u, v)[u].spendable.v + v
         /\ \A w \in Users :
              /\ w # u => Spent(u, v)[w].spendable = account[w].spendable
              /\ Spent(u, v)[w].receiving = account[w].receiving
              /\ Spent(u, v)[w].registered = account[w].registered
              /\ Spent(u, v)[w].auditor = account[w].auditor
<1> DEFINE x == account[u].spendable.v
           c == Committed(x - v, Salt)
<1>1. account[u].registered /\ x \in Nat /\ x - v \in Nat /\ Salt \in Nat
  BY TokenFacts DEF CanSpend
<1>2. c \in Commitment /\ c.v = x - v
  BY <1>1, CommitmentOps
<1>3. Spent(u, v) = [account EXCEPT ![u].spendable = c]
  BY TokenFacts DEF Spent, Account
<1> HIDE DEF c
<1>4. Spent(u, v) \in [Users -> Account]
  <2>1. account[u] \in Account /\ account \in [Users -> Account]
    BY TokenFacts
  <2>2. [account[u] EXCEPT !.spendable = c] \in Account
    BY <1>2, <2>1, AccountFields
  <2> QED BY <1>3, <2>1, <2>2
<1>5. \A w \in Users :
              /\ Spent(u, v)[w].spendable = IF w = u THEN c ELSE account[w].spendable
              /\ Spent(u, v)[w].receiving = account[w].receiving
              /\ Spent(u, v)[w].registered = account[w].registered
              /\ Spent(u, v)[w].auditor = account[w].auditor
  BY <1>3, TokenFacts DEF Account
<1>6. x = c.v + v
  BY <1>1, <1>2
<1> QED BY <1>1, <1>2, <1>4, <1>5, <1>6

LEMMA WithdrawTold ==
  ASSUME TokenInv, NEW u \in Users, NEW v \in Amounts, Withdraw(u, v)
  PROVE  \E ev \in Event : TokenStep(ev)
<1>1. /\ CanSpend(u, v) /\ account' = Spent(u, v) /\ allowance' = allowance
      /\ Emit("withdraw", u, u, NoKey, v, Zero) /\ v \in Nat
  BY AmountFacts DEF Withdraw
<1>2. account[u].registered /\ KeyOf(u) \in Keys \cup {NoKey}
  BY <1>1, SpentFacts, TokenFacts
<1>3. PICK ev \in Event :
        /\ log' = Append(log, ev) /\ keyOf' = keyOf
        /\ ev.type = "withdraw" /\ ev.from = u /\ ev.to = u /\ ev.with = NoKey
        /\ ev.amount = v /\ ev.credit = Zero /\ ev.after = account'[u].spendable
  <2>1. account'[u].spendable \in Commitment
    BY <1>1, SpentFacts
  <2>2. PICK ev : ev = Emitted("withdraw", u, u, NoKey, v, Zero, KeyOf(u), NoKey)
    OBVIOUS
  <2>3. ev \in Event
    BY <1>1, <1>2, <2>1, <2>2, EventTypeNames, CommitmentOps DEF Emitted, Event
  <2> QED BY <1>1, <2>2, <2>3 DEF Emit, Emitted
<1>4. /\ account' \in [Users -> Account]
      /\ account[u].spendable.v = account'[u].spendable.v + v
      /\ \A w \in Users :
              /\ w # u => account'[w].spendable = account[w].spendable
              /\ account'[w].receiving = account[w].receiving
              /\ account'[w].registered = account[w].registered
              /\ account'[w].auditor = account[w].auditor
  BY <1>1, SpentFacts
<1>5. Tells(ev)
  BY <1>2, <1>3, <1>4 DEF Tells, Credits
<1>6. MovesBalances(ev)
  <2>1. ASSUME NEW w \in Users
        PROVE  /\ account'[w].registered <=> (account[w].registered \/ w = u)
               /\ account'[w].spendable = IF w # u THEN account[w].spendable ELSE ev.after
    BY <1>2, <1>3, <1>4
  <2> QED BY <1>3, <1>4, <2>1 DEF MovesBalances, Checkpoints, Credits
<1>7. MovesAllowances(ev)
  BY <1>1, <1>3 DEF MovesAllowances
<1>8. \A w \in Users : account'[w].registered => account'[w].auditor \in AuditorIds
  BY <1>4, TokenFacts
<1> QED BY <1>1, <1>4, <1>5, <1>6, <1>7, <1>8, TokenFacts DEF TokenStep

LEMMA TransferTold ==
  ASSUME TokenInv, NEW from \in Users, NEW to \in Users, NEW v \in Amounts,
         Transfer(from, to, v)
  PROVE  \E ev \in Event : TokenStep(ev)
<1> DEFINE credit == CommittedTx(v, {Salt})
           c == Plus(account[to].receiving, credit)
<1>1. /\ CanSpend(from, v) /\ account[to].registered /\ allowance' = allowance
      /\ account' = [Spent(from, v) EXCEPT ![to].receiving = Plus(@, credit)]
      /\ Emit("transfer", from, to, NoKey, v, credit) /\ v \in Nat
  BY AmountFacts DEF Transfer
<1>2. /\ account[from].registered
      /\ KeyOf(from) \in Keys \cup {NoKey} /\ KeyOf(to) \in Keys \cup {NoKey}
  BY <1>1, SpentFacts, TokenFacts
<1>3. credit \in Commitment /\ credit.v = v /\ c \in Commitment
  BY <1>1, TokenFacts, CommitmentOps
<1>4. account' = [Spent(from, v) EXCEPT ![to].receiving = c]
  <2>1. Spent(from, v)[to].receiving = account[to].receiving
    BY <1>1, SpentFacts
  <2>2. Spent(from, v) \in [Users -> Account]
    BY <1>1, SpentFacts
  <2> QED BY <1>1, <2>1, <2>2
<1> HIDE DEF credit, c
<1>5. account' \in [Users -> Account]
  <2>1. Spent(from, v)[to] \in Account /\ Spent(from, v) \in [Users -> Account]
    BY <1>1, SpentFacts
  <2>2. [Spent(from, v)[to] EXCEPT !.receiving = c] \in Account
    BY <1>3, <2>1, AccountFields
  <2> QED BY <1>4, <2>1, <2>2
<1>6. /\ account'[from].spendable \in Commitment
      /\ account[from].spendable.v = account'[from].spendable.v + v
      /\ \A w \in Users :
              /\ w # from => account'[w].spendable = account[w].spendable
              /\ account'[w].receiving = IF w = to THEN c ELSE account[w].receiving
              /\ account'[w].registered = account[w].registered
              /\ account'[w].auditor = account[w].auditor
  <2>1. /\ Spent(from, v) \in [Users -> Account]
        /\ Spent(from, v)[from].spendable \in Commitment
        /\ account[from].spendable.v = Spent(from, v)[from].spendable.v + v
        /\ \A w \in Users :
              /\ w # from => Spent(from, v)[w].spendable = account[w].spendable
              /\ Spent(from, v)[w].receiving = account[w].receiving
              /\ Spent(from, v)[w].registered = account[w].registered
              /\ Spent(from, v)[w].auditor = account[w].auditor
    BY <1>1, SpentFacts
  <2>2. \A w \in Users :
              /\ account'[w].spendable = Spent(from, v)[w].spendable
              /\ account'[w].receiving = IF w = to THEN c ELSE Spent(from, v)[w].receiving
              /\ account'[w].registered = Spent(from, v)[w].registered
              /\ account'[w].auditor = Spent(from, v)[w].auditor
    BY <1>4, <2>1 DEF Account
  <2> QED BY <2>1, <2>2
<1>7. PICK ev \in Event :
        /\ log' = Append(log, ev) /\ keyOf' = keyOf
        /\ ev.type = "transfer" /\ ev.from = from /\ ev.to = to /\ ev.with = NoKey
        /\ ev.amount = v /\ ev.credit = credit /\ ev.after = account'[from].spendable
  <2>1. PICK ev : ev = Emitted("transfer", from, to, NoKey, v, credit, KeyOf(from), KeyOf(to))
    OBVIOUS
  <2>2. ev \in Event
    BY <1>1, <1>2, <1>3, <1>6, <2>1, EventTypeNames DEF Emitted, Event
  <2> QED BY <1>1, <2>1, <2>2 DEF Emit, Emitted
<1>8. Tells(ev)
  BY <1>1, <1>2, <1>3, <1>6, <1>7 DEF Tells, Credits
<1>9. MovesBalances(ev)
  <2>1. c = Plus(account[to].receiving, credit)
    BY DEF c
  <2>2. ASSUME NEW w \in Users
        PROVE  /\ account'[w].registered <=> (account[w].registered \/ w = from)
               /\ account'[w].spendable = IF w # from THEN account[w].spendable ELSE ev.after
               /\ account'[w].receiving = IF w = to THEN Plus(account[w].receiving, credit)
                                          ELSE account[w].receiving
    BY <1>2, <1>6, <1>7, <2>1
  <2> QED BY <1>7, <2>2 DEF MovesBalances, Checkpoints, Credits
<1>10. MovesAllowances(ev)
  BY <1>1, <1>7 DEF MovesAllowances
<1>11. \A w \in Users : account'[w].registered => account'[w].auditor \in AuditorIds
  BY <1>6, TokenFacts
<1> QED BY <1>1, <1>5, <1>8, <1>9, <1>10, <1>11, TokenFacts DEF TokenStep

LEMMA SetSpenderTold ==
  ASSUME TokenInv, NEW u \in Users, NEW e \in Escrows, NEW v \in Amounts, SetSpender(u, e, v)
  PROVE  \E ev \in Event : TokenStep(ev)
<1>1. /\ CanSpend(u, v) /\ allowance[u][e] = 0 /\ account' = Spent(u, v)
      /\ allowance' = [allowance EXCEPT ![u][e] = v]
      /\ Emit("set_spender", u, u, e, v, Zero) /\ v \in Nat /\ v > 0
  BY AmountFacts DEF SetSpender
<1>2. account[u].registered
  BY <1>1, SpentFacts
<1>3. PICK ev \in Event :
        /\ log' = Append(log, ev) /\ keyOf' = keyOf
        /\ ev.type = "set_spender" /\ ev.from = u /\ ev.to = u /\ ev.with = e
        /\ ev.amount = v /\ ev.credit = Zero /\ ev.after = account'[u].spendable
  <2>1. account'[u].spendable \in Commitment
    BY <1>1, SpentFacts
  <2>2. PICK ev : ev = Emitted("set_spender", u, u, e, v, Zero, NoKey, NoKey)
    OBVIOUS
  <2>3. ev \in Event
    BY <1>1, <1>2, <2>1, <2>2, EventTypeNames, CommitmentOps DEF Emitted, Event
  <2> QED BY <1>1, <2>2, <2>3 DEF Emit, Emitted
<1>4. /\ account' \in [Users -> Account]
      /\ account[u].spendable.v = account'[u].spendable.v + v
      /\ \A w \in Users :
              /\ w # u => account'[w].spendable = account[w].spendable
              /\ account'[w].receiving = account[w].receiving
              /\ account'[w].registered = account[w].registered
              /\ account'[w].auditor = account[w].auditor
  BY <1>1, SpentFacts
<1>5. Tells(ev)
  BY <1>1, <1>2, <1>3, <1>4 DEF Tells, Credits
<1>6. MovesBalances(ev)
  <2>1. ASSUME NEW w \in Users
        PROVE  /\ account'[w].registered <=> (account[w].registered \/ w = u)
               /\ account'[w].spendable = IF w # u THEN account[w].spendable ELSE ev.after
    BY <1>2, <1>3, <1>4
  <2> QED BY <1>3, <1>4, <2>1 DEF MovesBalances, Checkpoints, Credits
<1>7. MovesAllowances(ev) /\ allowance' \in [Users -> [Escrows -> Nat]]
  BY <1>1, <1>3, TokenFacts DEF MovesAllowances
<1>8. \A w \in Users : account'[w].registered => account'[w].auditor \in AuditorIds
  BY <1>4, TokenFacts
<1> QED BY <1>4, <1>5, <1>6, <1>7, <1>8 DEF TokenStep

LEMMA RevokeSpenderTold ==
  ASSUME TokenInv, NEW u \in Users, NEW e \in Escrows, RevokeSpender(u, e)
  PROVE  \E ev \in Event : TokenStep(ev)
<1> DEFINE v == allowance[u][e]
           c == Committed(account[u].spendable.v + v, Salt)
<1>1. /\ v > 0 /\ allowance' = [allowance EXCEPT ![u][e] = 0]
      /\ account' = [account EXCEPT ![u].spendable = Committed(@.v + allowance[u][e], Salt)]
      /\ Emit("revoke_spender", u, u, e, v, Zero)
  BY DEF RevokeSpender
<1>2. v \in Nat /\ account[u].registered
  BY <1>1, TokenFacts
<1>3. c \in Commitment /\ c.v = account[u].spendable.v + v
  BY <1>2, TokenFacts, CommitmentOps
<1>4. account' = [account EXCEPT ![u].spendable = c]
  BY <1>1, TokenFacts DEF Account
<1> HIDE DEF c
<1>5. account' \in [Users -> Account]
  <2>1. account[u] \in Account /\ account \in [Users -> Account]
    BY TokenFacts
  <2>2. [account[u] EXCEPT !.spendable = c] \in Account
    BY <1>3, <2>1, AccountFields
  <2> QED BY <1>4, <2>1, <2>2
<1>6. \A w \in Users :
              /\ account'[w].spendable = IF w = u THEN c ELSE account[w].spendable
              /\ account'[w].receiving = account[w].receiving
              /\ account'[w].registered = account[w].registered
              /\ account'[w].auditor = account[w].auditor
  BY <1>4, TokenFacts DEF Account
<1>7. PICK ev \in Event :
        /\ log' = Append(log, ev) /\ keyOf' = keyOf
        /\ ev.type = "revoke_spender" /\ ev.from = u /\ ev.to = u /\ ev.with = e
        /\ ev.amount = v /\ ev.credit = Zero /\ ev.after = account'[u].spendable
  <2>1. account'[u].spendable \in Commitment
    BY <1>3, <1>6
  <2>2. PICK ev : ev = Emitted("revoke_spender", u, u, e, v, Zero, NoKey, NoKey)
    OBVIOUS
  <2>3. ev \in Event
    BY <1>2, <2>1, <2>2, EventTypeNames, CommitmentOps DEF Emitted, Event
  <2> QED BY <1>1, <2>2, <2>3 DEF Emit, Emitted
<1>8. Tells(ev)
  BY <1>1, <1>2, <1>3, <1>6, <1>7 DEF Tells, Credits
<1>9. MovesBalances(ev)
  <2>1. ASSUME NEW w \in Users
        PROVE  /\ account'[w].registered <=> (account[w].registered \/ w = u)
               /\ account'[w].spendable = IF w # u THEN account[w].spendable ELSE ev.after
    BY <1>2, <1>6, <1>7
  <2> QED BY <1>6, <1>7, <2>1 DEF MovesBalances, Checkpoints, Credits
<1>10. MovesAllowances(ev) /\ allowance' \in [Users -> [Escrows -> Nat]]
  BY <1>1, <1>7, TokenFacts DEF MovesAllowances
<1>11. \A w \in Users : account'[w].registered => account'[w].auditor \in AuditorIds
  BY <1>6, TokenFacts
<1> QED BY <1>5, <1>8, <1>9, <1>10, <1>11 DEF TokenStep

LEMMA SpenderTransferTold ==
  ASSUME TokenInv, NEW u \in Users, NEW e \in Escrows, NEW to \in Users,
         SpenderTransfer(u, e, to)
  PROVE  \E ev \in Event : TokenStep(ev)
<1> DEFINE v == allowance[u][e]
           credit == CommittedTx(v, {Salt})
           c == Plus(account[to].receiving, credit)
<1>1. /\ v > 0 /\ account[to].registered /\ allowance' = [allowance EXCEPT ![u][e] = 0]
      /\ account' = [account EXCEPT ![to].receiving = c]
      /\ Emit("spender_transfer", u, to, e, v, credit)
  BY DEF SpenderTransfer
<1>2. /\ v \in Nat /\ account[u].registered
      /\ KeyOf(u) \in Keys \cup {NoKey} /\ KeyOf(to) \in Keys \cup {NoKey}
  BY <1>1, TokenFacts
<1>3. credit \in Commitment /\ credit.v = v /\ c \in Commitment
  BY <1>2, TokenFacts, CommitmentOps
<1> HIDE DEF credit, c
<1>5. account' \in [Users -> Account]
  <2>1. account[to] \in Account /\ account \in [Users -> Account]
    BY TokenFacts
  <2>2. [account[to] EXCEPT !.receiving = c] \in Account
    BY <1>3, <2>1, AccountFields
  <2> QED BY <1>1, <2>1, <2>2
<1>6. \A w \in Users :
              /\ account'[w].spendable = account[w].spendable
              /\ account'[w].receiving = IF w = to THEN c ELSE account[w].receiving
              /\ account'[w].registered = account[w].registered
              /\ account'[w].auditor = account[w].auditor
  BY <1>1, TokenFacts DEF Account
<1>7. PICK ev \in Event :
        /\ log' = Append(log, ev) /\ keyOf' = keyOf
        /\ ev.type = "spender_transfer" /\ ev.from = u /\ ev.to = to /\ ev.with = e
        /\ ev.amount = v /\ ev.credit = credit /\ ev.after = account'[u].spendable
  <2>1. account'[u].spendable \in Commitment
    BY <1>6, TokenFacts
  <2>2. PICK ev : ev = Emitted("spender_transfer", u, to, e, v, credit, KeyOf(u), KeyOf(to))
    OBVIOUS
  <2>3. ev \in Event
    BY <1>2, <1>3, <2>1, <2>2, EventTypeNames DEF Emitted, Event
  <2> QED BY <1>1, <2>2, <2>3 DEF Emit, Emitted
<1>8. Tells(ev)
  BY <1>1, <1>2, <1>3, <1>6, <1>7 DEF Tells, Credits
<1>9. MovesBalances(ev)
  <2>1. c = Plus(account[to].receiving, credit)
    BY DEF c
  <2>2. ASSUME NEW w \in Users
        PROVE  /\ account'[w].registered <=> (account[w].registered \/ w = u)
               /\ account'[w].receiving = IF w = to THEN Plus(account[w].receiving, credit)
                                          ELSE account[w].receiving
    BY <1>2, <1>6, <2>1
  <2> QED BY <1>6, <1>7, <2>2 DEF MovesBalances, Checkpoints, Credits
<1>10. MovesAllowances(ev) /\ allowance' \in [Users -> [Escrows -> Nat]]
  BY <1>1, <1>7, TokenFacts DEF MovesAllowances
<1>11. \A w \in Users : account'[w].registered => account'[w].auditor \in AuditorIds
  BY <1>6, TokenFacts
<1> QED BY <1>5, <1>8, <1>9, <1>10, <1>11 DEF TokenStep

\* Every call of the token is told by its event.
LEMMA NextTold ==
  ASSUME TokenInv, Next
  PROVE  \/ \E ev \in Event : TokenStep(ev)
         \/ \E id \in AuditorIds, key \in Keys : SetKey(id, key)
<1>1. ASSUME NEW u \in Users, NEW id \in AuditorIds, Register(u, id)
      PROVE  \E ev \in Event : TokenStep(ev)
  BY <1>1, RegisterTold
<1>2. ASSUME NEW u \in Users, Merge(u) PROVE \E ev \in Event : TokenStep(ev)
  BY <1>2, MergeTold
<1>3. ASSUME NEW u \in Users, NEW v \in Amounts, Deposit(u, v) \/ Withdraw(u, v)
      PROVE  \E ev \in Event : TokenStep(ev)
  BY <1>3, DepositTold, WithdrawTold
<1>4. ASSUME NEW u \in Users, NEW to \in Users, NEW v \in Amounts, Transfer(u, to, v)
      PROVE  \E ev \in Event : TokenStep(ev)
  BY <1>4, TransferTold
<1>5. ASSUME NEW u \in Users, NEW e \in Escrows, NEW v \in Amounts, SetSpender(u, e, v)
      PROVE  \E ev \in Event : TokenStep(ev)
  BY <1>5, SetSpenderTold
<1>6. ASSUME NEW u \in Users, NEW e \in Escrows, RevokeSpender(u, e)
      PROVE  \E ev \in Event : TokenStep(ev)
  BY <1>6, RevokeSpenderTold
<1>7. ASSUME NEW u \in Users, NEW e \in Escrows, NEW to \in Users, SpenderTransfer(u, e, to)
      PROVE  \E ev \in Event : TokenStep(ev)
  BY <1>7, SpenderTransferTold
<1> QED BY <1>1, <1>2, <1>3, <1>4, <1>5, <1>6, <1>7 DEF Next

\* The log grows by one event.
LEMMA LogGrows ==
  ASSUME TokenInv, NEW ev \in Event, TokenStep(ev), NEW n, n = Len(log)
  PROVE  /\ n \in Nat /\ log \in Seq(Event) /\ log' \in Seq(Event)
         /\ DOMAIN log = 1 .. n /\ DOMAIN log' = 1 .. (n + 1) /\ Len(log') = n + 1
         /\ log'[n + 1] = ev /\ \A i \in 1 .. n : log'[i] = log[i]
BY DEF TokenInv, TypeOK, TokenStep, Tells

LEMMA InitTokenInv == Init => TokenInv
<1> SUFFICES ASSUME Init PROVE TokenInv
  OBVIOUS
<1>1. PICK u \in Users :
    /\ keyOf = [id \in AuditorIds |-> IF id = PageId THEN PageKey ELSE NoKey]
    /\ account = [w \in Users |-> IF w # u THEN NoAccount
                                  ELSE [registered |-> TRUE, auditor |-> PageId,
                                        spendable |-> Unblinded(Balance), receiving |-> Zero]]
    /\ allowance = [w \in Users |-> [e \in Escrows |-> 0]]
    /\ log = <<Entry("register", u, 0, Zero), Entry("deposit", u, Balance, Zero),
               Entry("merge", u, 0, Unblinded(Balance))>>
  BY DEF Init
<1>2. /\ Balance \in Nat /\ Zero \in Commitment /\ Zero.v = 0
      /\ Unblinded(Balance) \in Commitment /\ Unblinded(Balance).v = Balance
  BY CommitmentOps
<1>3. Accounts /\ ClosedEmpty
  BY <1>1, <1>2 DEF Accounts, Account, NoAccount, ClosedEmpty
<1>4. /\ Entry("register", u, 0, Zero) \in Event
      /\ Entry("deposit", u, Balance, Zero) \in Event
      /\ Entry("merge", u, 0, Unblinded(Balance)) \in Event
  BY <1>2, EventTypeNames DEF Entry, Event
<1>5. log \in Seq(Event) /\ DOMAIN log = 1 .. 3
  BY <1>1, <1>4
<1>6. \A i \in DOMAIN log : log[i].from = u /\ log[i].to = u
  BY <1>1, <1>5 DEF Entry
<1>7. CreditsTrue
  <2>1. /\ log[1].type = "register" /\ log[3].type = "merge"
        /\ log[2].credit = Unblinded(Balance) /\ log[2].amount = Balance
    BY <1>1 DEF Entry
  <2>2. ASSUME NEW i \in 1 .. 3, log[i].type \in Credits
        PROVE  log[i].credit.v = log[i].amount
    <3>1. i # 1 /\ i # 3
      BY <2>1, <2>2 DEF Credits
    <3>2. i = 2
      BY <3>1
    <3> QED BY <1>2, <2>1, <3>2
  <2> QED BY <1>5, <2>2 DEF CreditsTrue
<1>7a. EscrowNamed
  BY <1>1, <1>5 DEF Entry, EscrowNamed
<1>8. Concerned
  BY <1>1, <1>6 DEF Concerned
<1>9. TypeOK
  <2>1. \A w \in Users : /\ {account[w].spendable, account[w].receiving} \subseteq Commitment
                         /\ account[w].registered => account[w].auditor \in AuditorIds
    BY <1>1, <1>2 DEF NoAccount
  <2>2. allowance \in [Users -> [Escrows -> Nat]] /\ keyOf \in [AuditorIds -> Keys \cup {NoKey}]
    BY <1>1
  <2> QED BY <1>5, <2>1, <2>2 DEF TypeOK
<1> QED BY <1>3, <1>7, <1>7a, <1>8, <1>9 DEF TokenInv

LEMMA EventTokenInv ==
  ASSUME TokenInv, NEW ev \in Event, TokenStep(ev)
  PROVE  TokenInv'
<1>1. PICK n : n = Len(log)
  OBVIOUS
<1>2. /\ n \in Nat /\ log \in Seq(Event) /\ log' \in Seq(Event)
      /\ DOMAIN log = 1 .. n /\ DOMAIN log' = 1 .. (n + 1)
      /\ log'[n + 1] = ev /\ \A i \in 1 .. n : log'[i] = log[i]
  BY <1>1, LogGrows
<1>3. Tells(ev) /\ MovesBalances(ev) /\ MovesAllowances(ev)
  BY DEF TokenStep
<1>4. ev.from \in Users /\ ev.to \in Users /\ ev.with \in Escrows \cup {NoKey}
  BY DEF Event
<1>5. TypeOK'
  <2>1. keyOf' \in [AuditorIds -> Keys \cup {NoKey}]
    BY <1>3 DEF TokenInv, TypeOK, Tells
  <2>2. \A w \in Users : account'[w].spendable \in Commitment /\ account'[w].receiving \in Commitment
    BY DEF TokenStep, Account
  <2> QED BY <1>2, <2>1, <2>2 DEF TypeOK, TokenStep
<1>6. Accounts'
  BY DEF TokenStep, Accounts
<1>7. ClosedEmpty'
  <2> SUFFICES ASSUME NEW w \in Users, ~account'[w].registered
               PROVE  /\ account'[w].spendable = Zero /\ account'[w].receiving = Zero
                      /\ \A e \in Escrows : allowance'[w][e] = 0
    BY DEF ClosedEmpty
  <2>1. ~account[w].registered /\ w # ev.from
    BY <1>3 DEF MovesBalances
  <2>2. /\ account[w].spendable = Zero /\ account[w].receiving = Zero
        /\ \A e \in Escrows : allowance[w][e] = 0
    BY <2>1 DEF TokenInv, ClosedEmpty
  <2>3. w # ev.to
    BY <2>1, <1>3 DEF Tells
  <2> QED BY <1>3, <2>1, <2>2, <2>3 DEF MovesBalances, MovesAllowances
<1>8. Concerned'
  <2>1. \A w \in Users : account[w].registered => account'[w].registered
    BY <1>3 DEF MovesBalances
  <2>2. account'[ev.from].registered /\ account'[ev.to].registered
    BY <1>3, <1>4 DEF MovesBalances, Tells
  <2>3. ASSUME NEW i \in 1 .. n
        PROVE  account'[log'[i].from].registered /\ account'[log'[i].to].registered
    <3>0. log[i] \in Event
      BY <1>1, <1>2
    <3>1. log[i].from \in Users /\ log[i].to \in Users
      BY <3>0 DEF Event
    <3>2. account[log[i].from].registered /\ account[log[i].to].registered
      BY <1>2 DEF TokenInv, Concerned
    <3>3. account'[log[i].from].registered /\ account'[log[i].to].registered
      BY <2>1, <3>1, <3>2
    <3> QED BY <1>2, <3>3
  <2>4. \A i \in 1 .. (n + 1) : i \in 1 .. n \/ i = n + 1
    BY <1>2
  <2> QED BY <1>2, <2>2, <2>3, <2>4 DEF Concerned
<1>9. CreditsTrue'
  <2>1. \A i \in 1 .. (n + 1) : i \in 1 .. n \/ i = n + 1
    BY <1>2
  <2> QED BY <1>2, <1>3, <2>1 DEF TokenInv, CreditsTrue, Tells
<1>10. EscrowNamed'
  <2>1. \A i \in 1 .. (n + 1) : i \in 1 .. n \/ i = n + 1
    BY <1>2
  <2> QED BY <1>2, <1>3, <2>1 DEF TokenInv, EscrowNamed, Tells
<1> QED BY <1>5, <1>6, <1>7, <1>8, <1>9, <1>10 DEF TokenInv

LEMMA NextTokenInv == TokenInv /\ [Next]_vars => TokenInv'
<1> SUFFICES ASSUME TokenInv, [Next]_vars PROVE TokenInv'
  OBVIOUS
<1>1. CASE \E ev \in Event : TokenStep(ev)
  BY <1>1, EventTokenInv
<1>2. ASSUME NEW id \in AuditorIds, NEW key \in Keys, SetKey(id, key) PROVE TokenInv'
  BY <1>2 DEF SetKey, TokenInv, TypeOK, Accounts, ClosedEmpty, Concerned, CreditsTrue, EscrowNamed
<1>3. CASE UNCHANGED vars
  BY <1>3 DEF vars, TokenInv, TypeOK, Accounts, ClosedEmpty, Concerned, CreditsTrue, EscrowNamed
<1> QED BY <1>1, <1>2, <1>3, NextTold

\* The token's bookkeeping is an invariant of every history.
THEOREM Invariance == Spec => []TokenInv
<1> QED BY InitTokenInv, NextTokenInv, PTL DEF Spec

\* The accounts, the delegations, the registry and the events keep their types.
THEOREM TypeCorrect == Spec => []TypeOK
<1>1. TokenInv => TypeOK
  BY DEF TokenInv
<1> QED BY <1>1, Invariance, PTL

-----------------------------------------------------------------------------
(* The auditor's balances *)

View == [Users -> [spendable : Int, receiving : Int]]
NoView == [u \in Users |-> [spendable |-> Unknown, receiving |-> 0]]

\* Has, Readable and the replay for a log l, of which n events had happened
\* and `aged` had left the window.
HasIn(l, aged, n, i) == i <= n /\ (i > aged \/ (Indexer /\ l[i].type \in Served))
Clear(u, ev) ==
  ConcernsMe(u, ev) => /\ ev.type = "withdraw" => ev.keyS = PageKey
                       /\ ev.type \in {"transfer", "spender_transfer"} => ChannelsAgree(ev)
ReadableIn(l, u, aged, n) ==
  \A i \in 1 .. Len(l) : Clear(u, l[i]) /\ (ConcernsMe(u, l[i]) => HasIn(l, aged, n, i))
IsView(f, l, aged, n) ==
  /\ f[0] = NoView
  /\ \A i \in 1 .. n :
       f[i] = IF HasIn(l, aged, n, i) THEN Observe(f[i - 1], l[i]) ELSE f[i - 1]
IsDelegated(d, l, u, n) == d[0] = 0 /\ \A i \in 1 .. n : d[i] = Moved(u, d[i - 1], l[i])

\* The page's account a, where d was moved into delegations since the checkpoint.
Exact(u, a, d) ==
  IF account[u].registered
  THEN /\ a.receiving = account[u].receiving.v
       /\ a.spendable = account[u].spendable.v + d /\ a.spendable >= 0
  ELSE a = NoView[u] /\ d = 0

\* Whatever solves the two recursions of the page agrees with the token.
AuditorInv ==
  \A u \in Users, aged \in Nat : \A n \in 0 .. Len(log) :
    ReadableIn(log, u, aged, n) =>
      \A f \in [0 .. n -> View], d \in [0 .. Len(log) -> Int] :
        IsView(f, log, aged, n) /\ IsDelegated(d, log, u, Len(log)) =>
          Exact(u, f[n][u], d[Len(log)])

LEMMA EventFields ==
  ASSUME NEW ev \in Event
  PROVE  /\ ev.type \in EventTypes /\ ev.from \in Users /\ ev.to \in Users
         /\ ev.with \in Escrows \cup {NoKey} /\ ev.amount \in Nat
         /\ ev.after \in Commitment /\ ev.after.v \in Nat
         /\ ev.credit \in Commitment /\ ev.credit.v \in Nat
BY DEF Event, Commitment

\* Two channels agree only if both decrypted.
LEMMA OpenedFacts ==
  ASSUME NEW ev \in Event
  PROVE  /\ SenderAmount(ev) \in Int /\ SenderBalance(ev) \in Int
         /\ ev.keyS = PageKey => SenderAmount(ev) = ev.amount /\ SenderBalance(ev) = ev.after.v
         /\ ChannelsAgree(ev) => ev.keyS = PageKey
<1>1. ev.amount \in Nat /\ ev.after.v \in Nat
  BY EventFields
<1>2. Garbage["sender"] = -2 /\ Garbage["recipient"] = -3
  BY DEF Garbage
<1> QED BY <1>1, <1>2 DEF SenderAmount, SenderBalance, RecipientAmount, ChannelsAgree, Opened

LEMMA FoldedFacts ==
  ASSUME NEW a \in [spendable : Int, receiving : Int]
  PROVE  /\ Folded(a) \in [spendable : Int, receiving : Int]
         /\ Folded(a).receiving = 0
         /\ a.spendable >= 0 => Folded(a).spendable = a.spendable + a.receiving
<1>1. PICK x, y \in Int : a = [spendable |-> x, receiving |-> y]
  OBVIOUS
<1>2. PICK z \in Int : z = IF x >= 0 THEN x + y ELSE x
  OBVIOUS
<1>3. PICK b : b = [a EXCEPT !.spendable = z]
  OBVIOUS
<1>4. b = [spendable |-> z, receiving |-> y]
  BY <1>1, <1>3
<1>5. Folded(a) = [b EXCEPT !.receiving = 0]
  <2>1. a.spendable = x /\ a.receiving = y
    BY <1>1
  <2> QED BY <1>2, <1>3, <2>1 DEF Folded
<1>6. Folded(a) = [spendable |-> z, receiving |-> 0]
  BY <1>4, <1>5
<1> QED BY <1>1, <1>2, <1>6

\* The view of one account after an event, by the event's type.
LEMMA ObserveOne ==
  ASSUME NEW view \in View, NEW ev \in Event, NEW u \in Users
  PROVE  /\ Observe(view, ev) \in View
         /\ Observe(view, ev)[u].spendable =
              IF u # ev.from THEN view[u].spendable
              ELSE IF ev.type = "register" THEN 0
              ELSE IF ev.type = "merge" THEN Folded(view[u]).spendable
              ELSE IF \/ ev.type = "withdraw"
                      \/ ev.type = "transfer" /\ ChannelsAgree(ev)
                THEN SenderBalance(ev)
              ELSE view[u].spendable
         /\ Observe(view, ev)[u].receiving =
              IF u = ev.from /\ ev.type = "merge" THEN 0
              ELSE IF u # ev.to THEN view[u].receiving
              ELSE IF ev.type = "deposit" THEN view[u].receiving + ev.amount
              ELSE IF ev.type \in {"transfer", "spender_transfer"} /\ ChannelsAgree(ev)
                THEN view[u].receiving + SenderAmount(ev)
              ELSE view[u].receiving
<1> DEFINE s == SenderBalance(ev)
           v == SenderAmount(ev)
<1>1. s \in Int /\ v \in Int /\ ev.from \in Users /\ ev.to \in Users /\ ev.amount \in Int
  BY EventFields, OpenedFacts
<1>2. \A w \in Users : /\ view[w].spendable \in Int /\ view[w].receiving \in Int
                       /\ view[w] \in [spendable : Int, receiving : Int]
  BY DEF View
<1>3. /\ Folded(view[ev.from]) \in [spendable : Int, receiving : Int]
      /\ Folded(view[ev.from]).receiving = 0
  BY <1>1, <1>2, FoldedFacts
<1> HIDE DEF s, v
<1>4. CASE ev.type = "register"
  <2>1. Observe(view, ev) = [view EXCEPT ![ev.from].spendable = 0]
    BY <1>4 DEF Observe
  <2> QED BY <1>1, <1>2, <1>4, <2>1 DEF View
<1>5. CASE ev.type = "deposit"
  <2>1. Observe(view, ev) = [view EXCEPT ![ev.to].receiving = @ + ev.amount]
    BY <1>5 DEF Observe
  <2> QED BY <1>1, <1>2, <1>5, <2>1 DEF View
<1>6. CASE ev.type = "merge"
  <2>1. Observe(view, ev) = [view EXCEPT ![ev.from] = Folded(view[ev.from])]
    BY <1>6 DEF Observe
  <2> QED BY <1>1, <1>2, <1>3, <1>6, <2>1 DEF View
<1>7. CASE ev.type = "withdraw"
  <2>1. Observe(view, ev) = [view EXCEPT ![ev.from].spendable = s]
    BY <1>7 DEF Observe, s
  <2> QED BY <1>1, <1>2, <1>7, <2>1 DEF View, s
<1>8. CASE ev.type = "transfer" /\ ChannelsAgree(ev)
  <2>1. Observe(view, ev) = [view EXCEPT ![ev.from].spendable = s,
                                         ![ev.to].receiving = @ + v]
    BY <1>8 DEF Observe, s, v
  <2> QED BY <1>1, <1>2, <1>8, <2>1 DEF View, s, v
<1>9. CASE ev.type = "spender_transfer" /\ ChannelsAgree(ev)
  <2>1. Observe(view, ev) = [view EXCEPT ![ev.to].receiving = @ + v]
    BY <1>9 DEF Observe, v
  <2> QED BY <1>1, <1>2, <1>9, <2>1 DEF View, v
<1>10. CASE \/ ev.type \in {"set_spender", "revoke_spender"}
            \/ ev.type \in {"transfer", "spender_transfer"} /\ ~ChannelsAgree(ev)
  <2>1. Observe(view, ev) = view
    BY <1>10 DEF Observe
  <2> QED BY <1>1, <1>2, <1>10, <2>1
<1>11. ev.type \in EventTypes
  BY EventFields
<1> QED BY <1>4, <1>5, <1>6, <1>7, <1>8, <1>9, <1>10, <1>11, EventTypeNames

LEMMA MovedOne ==
  ASSUME NEW u \in Users, NEW d \in Int, NEW ev \in Event
  PROVE  /\ Moved(u, d, ev) \in Int
         /\ Moved(u, d, ev) =
              IF ev.from # u THEN d
              ELSE IF ev.type = "withdraw" \/ ev.type = "transfer" THEN 0
              ELSE IF ev.type = "set_spender" THEN d + ev.amount
              ELSE IF ev.type = "revoke_spender" THEN d - ev.amount
              ELSE d
<1>1. ev.amount \in Int
  BY EventFields
<1> QED BY <1>1 DEF Moved

\* An event of another account moves nothing of u.
LEMMA BystanderView ==
  ASSUME NEW ev \in Event, NEW u \in Users, ~ConcernsMe(u, ev), NEW view \in View, NEW d \in Int
  PROVE  Observe(view, ev)[u] = view[u] /\ Moved(u, d, ev) = d
<1>1. u # ev.from /\ u # ev.to
  BY DEF ConcernsMe
<1>2. /\ Observe(view, ev)[u].spendable = view[u].spendable
      /\ Observe(view, ev)[u].receiving = view[u].receiving
  BY <1>1, ObserveOne
<1>3. \A a, b \in [spendable : Int, receiving : Int] :
        a.spendable = b.spendable /\ a.receiving = b.receiving => a = b
  OBVIOUS
<1>4. /\ Observe(view, ev)[u] \in [spendable : Int, receiving : Int]
      /\ view[u] \in [spendable : Int, receiving : Int]
  BY ObserveOne DEF View
<1> QED BY <1>1, <1>2, <1>3, <1>4, MovedOne

LEMMA BystanderToken ==
  ASSUME NEW ev \in Event, TokenStep(ev), NEW u \in Users, ~ConcernsMe(u, ev)
  PROVE  /\ account'[u].registered <=> account[u].registered
         /\ account'[u].spendable = account[u].spendable
         /\ account'[u].receiving = account[u].receiving
BY DEF TokenStep, MovesBalances, ConcernsMe

\* An event that the page reads keeps its view of the account exact.
LEMMA ExactStep ==
  ASSUME TokenInv, NEW ev \in Event, TokenStep(ev), NEW u \in Users,
         ConcernsMe(u, ev), Clear(u, ev),
         NEW view \in View, NEW d \in Int, Exact(u, view[u], d),
         NEW b, b = Observe(view, ev)[u], NEW m, m = Moved(u, d, ev)
  PROVE  Exact(u, b, m)'
<1> DEFINE a == view[u]
           x == account[u].spendable.v
           y == account[u].receiving.v
           t == ev.type
<1>1. /\ a \in [spendable : Int, receiving : Int] /\ a.spendable \in Int /\ a.receiving \in Int
      /\ x \in Nat /\ y \in Nat
      /\ account[u].spendable \in Commitment /\ account[u].receiving \in Commitment
  BY TokenFacts DEF View
<1>2. /\ t \in EventTypes /\ ev.from \in Users /\ ev.to \in Users /\ ev.amount \in Nat
      /\ ev.after.v \in Nat /\ ev.credit.v \in Nat /\ ev.credit \in Commitment
  BY EventFields
<1>3. Tells(ev) /\ MovesBalances(ev)
  BY DEF TokenStep
<1>4. u = ev.from \/ u = ev.to
  BY DEF ConcernsMe
<1>5. account'[u].registered
  BY <1>2, <1>3, <1>4 DEF Tells, MovesBalances
<1>6. /\ t = "withdraw" => SenderBalance(ev) = ev.after.v
      /\ t \in {"transfer", "spender_transfer"} =>
           /\ ChannelsAgree(ev)
           /\ SenderBalance(ev) = ev.after.v /\ SenderAmount(ev) = ev.amount
  BY OpenedFacts DEF Clear
<1>7. ~account[u].registered => u = ev.from /\ t = "register"
  BY <1>3, <1>4 DEF Tells
<1>8. IF account[u].registered
      THEN a.receiving = y /\ a.spendable = x + d /\ a.spendable >= 0
      ELSE /\ a.receiving = 0 /\ d = 0 /\ x = 0 /\ y = 0
           /\ account[u].spendable = Zero /\ account[u].receiving = Zero
  BY CommitmentOps DEF Exact, NoView, TokenInv, ClosedEmpty
<1>9. Folded(a).receiving = 0 /\ (a.spendable >= 0 => Folded(a).spendable = a.spendable + a.receiving)
  BY <1>1, FoldedFacts
<1>10. /\ Plus(account[u].spendable, account[u].receiving).v = x + y
       /\ Plus(account[u].receiving, ev.credit).v = y + ev.credit.v
       /\ Zero.v = 0
  BY <1>1, <1>2, CommitmentOps
<1>11. t \in {"deposit", "transfer", "spender_transfer"} => ev.credit.v = ev.amount
  BY <1>3 DEF Tells, Credits
<1>12. b.receiving = account'[u].receiving.v
  <2>1. b.receiving = IF u = ev.from /\ t = "merge" THEN 0
              ELSE IF u # ev.to THEN a.receiving
              ELSE IF t = "deposit" THEN a.receiving + ev.amount
              ELSE IF t \in {"transfer", "spender_transfer"} /\ ChannelsAgree(ev)
                THEN a.receiving + SenderAmount(ev)
              ELSE a.receiving
    BY ObserveOne
  <2>2. account'[u].receiving =
         IF u = ev.from /\ t = "merge" THEN Zero
         ELSE IF u = ev.to /\ t \in Credits THEN Plus(account[u].receiving, ev.credit)
         ELSE account[u].receiving
    BY <1>3 DEF MovesBalances
  <2>3. a.receiving = y
    BY <1>8
  <2> HIDE DEF a, x
  <2> QED BY <1>1, <1>2, <1>6, <1>10, <1>11, <2>1, <2>2, <2>3 DEF Credits
<1>13. account'[u].spendable =
         IF u # ev.from THEN account[u].spendable
         ELSE IF t = "merge" THEN Plus(account[u].spendable, account[u].receiving)
         ELSE IF t \in Checkpoints THEN ev.after ELSE account[u].spendable
  BY <1>3 DEF MovesBalances
<1>14. b.spendable =
              IF u # ev.from THEN a.spendable
              ELSE IF t = "register" THEN 0
              ELSE IF t = "merge" THEN Folded(a).spendable
              ELSE IF \/ t = "withdraw"
                      \/ t = "transfer" /\ ChannelsAgree(ev)
                THEN SenderBalance(ev)
              ELSE a.spendable
  BY ObserveOne
<1>15. m = IF ev.from # u THEN d
           ELSE IF t = "withdraw" \/ t = "transfer" THEN 0
           ELSE IF t = "set_spender" THEN d + ev.amount
           ELSE IF t = "revoke_spender" THEN d - ev.amount
           ELSE d
  BY MovedOne
<1>16. /\ u = ev.from /\ t \in {"withdraw", "transfer", "set_spender"} => x = ev.after.v + ev.amount
       /\ u = ev.from /\ t = "revoke_spender" => ev.after.v = x + ev.amount
       /\ t = "register" => u = ev.from /\ ~account[u].registered
       /\ t # "register" /\ u = ev.from => account[u].registered
       /\ t # "register" /\ u = ev.to => account[u].registered
  BY <1>3, <1>4 DEF Tells
<1>17. b.spendable = account'[u].spendable.v + m /\ b.spendable >= 0
  <2> HIDE DEF a, x, y
  <2>1. CASE t = "register"
    <3>1. b.spendable = 0 /\ m = d /\ account'[u].spendable = account[u].spendable
      BY <1>13, <1>14, <1>15, <1>16, <2>1 DEF Checkpoints
    <3> QED BY <1>8, <1>16, <2>1, <3>1 DEF x
  <2>2. ASSUME t # "register" PROVE a.receiving = y /\ a.spendable = x + d /\ a.spendable >= 0
    BY <1>4, <1>8, <1>16, <2>2
  <2>3. CASE u # ev.from
    <3>1. b.spendable = a.spendable /\ m = d /\ account'[u].spendable = account[u].spendable
      BY <1>13, <1>14, <1>15, <2>3
    <3> QED BY <1>4, <1>16, <2>2, <2>3, <3>1 DEF x
  <2>4. CASE u = ev.from /\ t = "merge"
    <3>1. b.spendable = Folded(a).spendable /\ m = d
          /\ account'[u].spendable = Plus(account[u].spendable, account[u].receiving)
      BY <1>13, <1>14, <1>15, <2>4
    <3>2. b.spendable = a.spendable + a.receiving /\ a.spendable = x + d /\ a.receiving = y /\ a.spendable >= 0
      BY <1>9, <2>2, <2>4, <3>1
    <3> QED BY <1>1, <1>10, <3>1, <3>2
  <2>5. CASE u = ev.from /\ t \in {"withdraw", "transfer"}
    <3>1. b.spendable = ev.after.v /\ m = 0 /\ account'[u].spendable = ev.after
      BY <1>6, <1>13, <1>14, <1>15, <2>5 DEF Checkpoints
    <3> QED BY <1>2, <3>1
  <2>6. CASE u = ev.from /\ t = "set_spender"
    <3>1. b.spendable = a.spendable /\ m = d + ev.amount /\ account'[u].spendable = ev.after
          /\ x = ev.after.v + ev.amount
      BY <1>13, <1>14, <1>15, <1>16, <2>6 DEF Checkpoints
    <3> QED BY <1>1, <1>2, <2>2, <2>6, <3>1
  <2>7. CASE u = ev.from /\ t = "revoke_spender"
    <3>1. b.spendable = a.spendable /\ m = d - ev.amount /\ account'[u].spendable = ev.after
          /\ ev.after.v = x + ev.amount
      BY <1>13, <1>14, <1>15, <1>16, <2>7 DEF Checkpoints
    <3> QED BY <1>1, <1>2, <2>2, <2>7, <3>1
  <2>8. CASE u = ev.from /\ t \in {"deposit", "spender_transfer"}
    <3>1. b.spendable = a.spendable /\ m = d /\ account'[u].spendable = account[u].spendable
      BY <1>13, <1>14, <1>15, <2>8 DEF Checkpoints
    <3> QED BY <2>2, <2>8, <3>1 DEF x
  <2> QED BY <1>2, <2>1, <2>3, <2>4, <2>5, <2>6, <2>7, <2>8, EventTypeNames
<1> QED BY <1>5, <1>12, <1>17 DEF Exact

\* What the first two events of an account leave alone.
LEMMA OpeningFacts ==
  ASSUME NEW view \in View, NEW ev \in Event, NEW u \in Users
  PROVE  /\ ev.type = "register" => Observe(view, ev)[u].receiving = view[u].receiving
         /\ ev.type = "deposit" => Observe(view, ev)[u].spendable = view[u].spendable
BY ObserveOne

LEMMA InitAuditorInv == Init => AuditorInv
<1> SUFFICES ASSUME Init, NEW u \in Users, NEW aged \in Nat, NEW n \in 0 .. Len(log),
                    ReadableIn(log, u, aged, n),
                    NEW f \in [0 .. n -> View], NEW d \in [0 .. Len(log) -> Int],
                    IsView(f, log, aged, n), IsDelegated(d, log, u, Len(log))
             PROVE  Exact(u, f[n][u], d[Len(log)])
  BY DEF AuditorInv
<1>1. PICK w \in Users :
    /\ account = [z \in Users |-> IF z # w THEN NoAccount
                                  ELSE [registered |-> TRUE, auditor |-> PageId,
                                        spendable |-> Unblinded(Balance), receiving |-> Zero]]
    /\ log = <<Entry("register", w, 0, Zero), Entry("deposit", w, Balance, Zero),
               Entry("merge", w, 0, Unblinded(Balance))>>
  BY DEF Init
<1>2. /\ Balance \in Nat /\ Zero \in Commitment /\ Zero.v = 0
      /\ Unblinded(Balance) \in Commitment /\ Unblinded(Balance).v = Balance
  BY CommitmentOps
<1>3. log \in Seq(Event) /\ Len(log) = 3 /\ \A i \in 1 .. 3 : log[i] \in Event
  BY <1>1, InitTokenInv DEF TokenInv, TypeOK
<1>3a. PICK l : l = log
  OBVIOUS
<1>4. /\ l[1].type = "register" /\ l[2].type = "deposit" /\ l[3].type = "merge"
      /\ l[2].amount = Balance
      /\ \A i \in 1 .. 3 : l[i].from = w /\ l[i].to = w
      /\ l[1].from = w /\ l[2].from = w /\ l[3].from = w
      /\ l[1].to = w /\ l[2].to = w /\ l[3].to = w
      /\ l[1] \in Event /\ l[2] \in Event /\ l[3] \in Event
      /\ \A i \in 1 .. 3 : l[i] \in Event /\ l[i].type \in {"register", "deposit", "merge"}
  BY <1>1, <1>3, <1>3a DEF Entry
<1>5. n \in 0 .. 3 /\ f \in [0 .. n -> View] /\ d \in [0 .. 3 -> Int]
  BY <1>3
<1>6. /\ f[0] = NoView /\ d[0] = 0
      /\ \A i \in 1 .. n : f[i - 1] \in View
      /\ \A i \in 1 .. n : f[i] = IF HasIn(l, aged, n, i) THEN Observe(f[i - 1], l[i])
                                  ELSE f[i - 1]
      /\ \A i \in 1 .. 3 : d[i - 1] \in Int /\ d[i] = Moved(u, d[i - 1], l[i])
  BY <1>3, <1>3a, <1>5 DEF IsView, IsDelegated
<1>7. d[3] = 0
  <2>1. ASSUME NEW i \in 1 .. 3 PROVE d[i] = d[i - 1]
    <3>1. l[i] \in Event /\ l[i].type \in {"register", "deposit", "merge"}
      BY <1>4
    <3>2. d[i - 1] \in Int /\ d[i] = Moved(u, d[i - 1], l[i])
      BY <1>6
    <3> QED BY <3>1, <3>2, MovedOne
  <2> QED BY <1>6, <2>1
<1>8. CASE u # w
  <2>1. \A i \in 1 .. 3 : ~ConcernsMe(u, l[i])
    BY <1>4, <1>8 DEF ConcernsMe
  <2>2. \A i \in 1 .. n : f[i][u] = f[i - 1][u]
    <3>1. ASSUME NEW i \in 1 .. n PROVE Observe(f[i - 1], l[i])[u] = f[i - 1][u]
      BY <1>4, <1>5, <1>6, <2>1, BystanderView
    <3> QED BY <1>6, <3>1
  <2>3. f[n][u] = f[0][u]
    BY <1>5, <2>2
  <2>4. ~account[u].registered
    BY <1>1, <1>8 DEF NoAccount
  <2> QED BY <1>3, <1>6, <1>7, <2>3, <2>4 DEF Exact
<1>9. CASE u = w
  <2>1. n = 3 /\ \A i \in 1 .. 3 : HasIn(l, aged, 3, i)
    <3>1. \A i \in 1 .. 3 : HasIn(l, aged, n, i)
      BY <1>3, <1>3a, <1>4, <1>9 DEF ReadableIn, ConcernsMe
    <3>2. n = 3
      BY <1>5, <3>1 DEF HasIn
    <3> QED BY <3>1, <3>2
  <2>2. /\ f[1] = Observe(f[0], l[1]) /\ f[2] = Observe(f[1], l[2])
        /\ f[3] = Observe(f[2], l[3])
        /\ f[0] \in View /\ f[1] \in View /\ f[2] \in View
    BY <1>5, <1>6, <2>1
  <2>2a. /\ l[1] \in Event /\ l[1].from = u /\ l[1].to = u /\ l[1].type = "register"
         /\ l[2] \in Event /\ l[2].from = u /\ l[2].to = u /\ l[2].type = "deposit"
    BY <1>4, <1>9
  <2>3. f[0][u].spendable = -1 /\ f[0][u].receiving = 0
    BY <1>6 DEF NoView, Unknown
  <2>4. f[1][u].spendable = 0 /\ f[1][u].receiving = 0
    <3>1. Observe(f[0], l[1])[u].spendable = 0
      BY <2>2, <2>2a, ObserveOne
    <3>2. Observe(f[0], l[1])[u].receiving = f[0][u].receiving
      BY <2>2, <2>2a, OpeningFacts
    <3> QED BY <2>2, <2>3, <3>1, <3>2
  <2>5. f[2][u].spendable = 0 /\ f[2][u].receiving = Balance
    <3>1. Observe(f[1], l[2])[u].spendable = f[1][u].spendable
      BY <2>2, <2>2a, OpeningFacts
    <3>2. Observe(f[1], l[2])[u].receiving = f[1][u].receiving + l[2].amount
      BY <2>2, <2>2a, ObserveOne
    <3> QED BY <1>2, <1>4, <2>2, <2>4, <3>1, <3>2
  <2>6. f[3][u].spendable = Balance /\ f[3][u].receiving = 0
    <3>1. f[2][u] \in [spendable : Int, receiving : Int]
      BY <2>2 DEF View
    <3>2. Folded(f[2][u]).spendable = Balance
      BY <1>2, <2>5, <3>1, FoldedFacts
    <3>3. /\ f[3][u].spendable = Folded(f[2][u]).spendable
          /\ f[3][u].receiving = 0
      BY <1>4, <1>9, <2>2, ObserveOne
    <3> QED BY <3>2, <3>3
  <2>7. account[u] = [registered |-> TRUE, auditor |-> PageId,
                      spendable |-> Unblinded(Balance), receiving |-> Zero]
    BY <1>1, <1>9
  <2> QED BY <1>2, <1>3, <1>7, <2>1, <2>6, <2>7 DEF Exact
<1> QED BY <1>8, <1>9

\* l is extended by ev to k.
Extended(l, k, z, ev) ==
  /\ z \in Nat /\ l \in Seq(Event) /\ Len(l) = z /\ Len(k) = z + 1
  /\ k[z + 1] = ev /\ \A i \in 1 .. z : k[i] = l[i] /\ l[i] \in Event

\* What two recursions over k say of the one over l: they go one step further,
\* unless the page has read less than all.
StepsOn(u, l, z, aged, n, f, d, ev, m, g, c) ==
  /\ m = (IF n <= z THEN n ELSE z)
  /\ IsView(g, l, aged, m) /\ IsDelegated(c, l, u, z)
  /\ g[m] = f[m] /\ c[z] = d[z]
  /\ d[z] \in Int /\ f[m] \in View
  /\ d[z + 1] = Moved(u, d[z], ev)
  /\ n = z + 1 => f[n] = IF z + 1 > aged \/ (Indexer /\ ev.type \in Served)
                         THEN Observe(f[m], ev) ELSE f[m]

LEMMA ReplayStepsOn ==
  ASSUME NEW l, NEW k, NEW z, NEW ev \in Event, Extended(l, k, z, ev),
         NEW u \in Users, NEW aged \in Nat, NEW n \in 0 .. (z + 1),
         NEW f \in [0 .. n -> View], NEW d \in [0 .. (z + 1) -> Int],
         IsView(f, k, aged, n), IsDelegated(d, k, u, z + 1)
  PROVE  \E m \in 0 .. z : \E g \in [0 .. m -> View], c \in [0 .. z -> Int] :
           StepsOn(u, l, z, aged, n, f, d, ev, m, g, c)
<1>2. /\ z \in Nat /\ l \in Seq(Event) /\ Len(l) = z /\ Len(k) = z + 1
      /\ k[z + 1] = ev /\ \A i \in 1 .. z : k[i] = l[i] /\ l[i] \in Event
  BY DEF Extended
<1>3. PICK m \in 0 .. z : m = IF n <= z THEN n ELSE z
  BY <1>2
<1>4. PICK g \in [0 .. m -> View] : g = [i \in 0 .. m |-> f[i]]
  <2>1. \A i \in 0 .. m : f[i] \in View
    BY <1>2, <1>3
  <2>2. [i \in 0 .. m |-> f[i]] \in [0 .. m -> View]
    BY <2>1
  <2> QED BY <2>2
<1>5. PICK c \in [0 .. z -> Int] : c = [i \in 0 .. z |-> d[i]]
  <2>1. \A i \in 0 .. z : d[i] \in Int
    BY <1>2
  <2>2. [i \in 0 .. z |-> d[i]] \in [0 .. z -> Int]
    BY <2>1
  <2> QED BY <2>2
<1>7. IsView(g, l, aged, m)
  <2>1. ASSUME NEW i \in 1 .. m
        PROVE  g[i] = IF HasIn(l, aged, m, i) THEN Observe(g[i - 1], l[i]) ELSE g[i - 1]
    <3>1. i \in 1 .. n /\ i \in 1 .. z /\ g[i] = f[i] /\ g[i - 1] = f[i - 1] /\ k[i] = l[i]
      BY <1>2, <1>3, <1>4
    <3>2. f[i] = IF HasIn(k, aged, n, i) THEN Observe(f[i - 1], k[i]) ELSE f[i - 1]
      BY <3>1 DEF IsView
    <3>3. HasIn(k, aged, n, i) <=> HasIn(l, aged, m, i)
      BY <1>2, <1>3, <3>1 DEF HasIn
    <3> QED BY <3>1, <3>2, <3>3
  <2>2. g[0] = NoView
    BY <1>3, <1>4 DEF IsView
  <2> QED BY <2>1, <2>2 DEF IsView
<1>8. IsDelegated(c, l, u, z)
  BY <1>2, <1>5 DEF IsDelegated
<1>9. g[m] = f[m] /\ c[z] = d[z] /\ d[z] \in Int /\ f[m] \in View
  BY <1>2, <1>3, <1>4, <1>5
<1>10. d[z + 1] = Moved(u, d[z], ev)
  <2>1. z + 1 \in 1 .. (z + 1) /\ (z + 1) - 1 = z
    BY <1>2
  <2> QED BY <1>2, <2>1 DEF IsDelegated
<1>11. n = z + 1 => f[n] = IF z + 1 > aged \/ (Indexer /\ ev.type \in Served)
                          THEN Observe(f[m], ev) ELSE f[m]
  <2> SUFFICES ASSUME n = z + 1
               PROVE  f[n] = IF z + 1 > aged \/ (Indexer /\ ev.type \in Served)
                             THEN Observe(f[m], ev) ELSE f[m]
    OBVIOUS
  <2>1. n \in 1 .. n /\ n - 1 = m
    BY <1>2, <1>3
  <2>2. HasIn(k, aged, n, z + 1) <=> z + 1 > aged \/ (Indexer /\ ev.type \in Served)
    BY <1>2 DEF HasIn
  <2> QED BY <1>2, <2>1, <2>2 DEF IsView
<1> QED BY <1>3, <1>7, <1>8, <1>9, <1>10, <1>11 DEF StepsOn

LEMMA EventAuditorInv ==
  ASSUME TokenInv, AuditorInv, NEW ev \in Event, TokenStep(ev)
  PROVE  AuditorInv'
<1>1. PICK l, k, z : l = log /\ k = log' /\ z = Len(log)
  OBVIOUS
<1>2. /\ z \in Nat /\ l \in Seq(Event) /\ Len(l) = z /\ Len(k) = z + 1
      /\ k[z + 1] = ev /\ \A i \in 1 .. z : k[i] = l[i] /\ l[i] \in Event
  BY <1>1, LogGrows
<1> SUFFICES ASSUME NEW u \in Users, NEW aged \in Nat, NEW n \in 0 .. (z + 1),
                    ReadableIn(k, u, aged, n),
                    NEW f \in [0 .. n -> View], NEW d \in [0 .. (z + 1) -> Int],
                    IsView(f, k, aged, n), IsDelegated(d, k, u, z + 1)
             PROVE  Exact(u, f[n][u], d[z + 1])'
  BY <1>1, <1>2 DEF AuditorInv
<1>3. PICK m \in 0 .. z : \E g \in [0 .. m -> View], c \in [0 .. z -> Int] :
           StepsOn(u, l, z, aged, n, f, d, ev, m, g, c)
  BY <1>2, ReplayStepsOn DEF Extended
<1>4. PICK g \in [0 .. m -> View], c \in [0 .. z -> Int] :
           StepsOn(u, l, z, aged, n, f, d, ev, m, g, c)
  BY <1>3
<1>5. m = IF n <= z THEN n ELSE z
  BY <1>4 DEF StepsOn
<1>6. ReadableIn(l, u, aged, m)
  <2>1. ASSUME NEW i \in 1 .. z
        PROVE  Clear(u, l[i]) /\ (ConcernsMe(u, l[i]) => HasIn(l, aged, m, i))
    <3>1. i \in 1 .. (z + 1) /\ k[i] = l[i]
      BY <1>2
    <3>2. Clear(u, k[i]) /\ (ConcernsMe(u, k[i]) => HasIn(k, aged, n, i))
      BY <1>2, <3>1 DEF ReadableIn
    <3>3. HasIn(k, aged, n, i) => HasIn(l, aged, m, i)
      BY <1>2, <1>5, <3>1 DEF HasIn
    <3> QED BY <3>1, <3>2, <3>3
  <2> QED BY <1>2, <2>1 DEF ReadableIn
<1>7. Exact(u, g[m][u], c[z])
  BY <1>1, <1>2, <1>4, <1>6 DEF AuditorInv, StepsOn
<1>8. Exact(u, f[m][u], d[z]) /\ d[z] \in Int /\ f[m] \in View /\ d[z + 1] = Moved(u, d[z], ev)
  BY <1>4, <1>7 DEF StepsOn
<1>9. Clear(u, ev) /\ (ConcernsMe(u, ev) => HasIn(k, aged, n, z + 1))
  <2>1. z + 1 \in 1 .. Len(k)
    BY <1>2
  <2> QED BY <1>2, <2>1 DEF ReadableIn
<1>10. CASE ConcernsMe(u, ev)
  <2>1. n = z + 1 /\ f[n] = Observe(f[m], ev)
    BY <1>2, <1>4, <1>9, <1>10 DEF HasIn, StepsOn
  <2>2. f[n][u] = Observe(f[m], ev)[u]
    BY <2>1
  <2> QED BY <1>8, <1>9, <1>10, <2>2, ExactStep
<1>11. CASE ~ConcernsMe(u, ev)
  <2>1. Observe(f[m], ev)[u] = f[m][u] /\ Moved(u, d[z], ev) = d[z]
    BY <1>8, <1>11, BystanderView
  <2>2. f[n][u] = f[m][u]
    <3>1. n = z + 1 \/ n = m
      BY <1>2, <1>5
    <3> QED BY <1>4, <2>1, <3>1 DEF StepsOn
  <2>3. d[z + 1] = d[z]
    BY <1>8, <2>1
  <2>4. /\ account'[u].registered <=> account[u].registered
        /\ account'[u].spendable = account[u].spendable
        /\ account'[u].receiving = account[u].receiving
    BY <1>11, BystanderToken
  <2> QED BY <1>8, <2>2, <2>3, <2>4 DEF Exact
<1> QED BY <1>10, <1>11

LEMMA NextAuditorInv == TokenInv /\ AuditorInv /\ [Next]_vars => AuditorInv'
<1> SUFFICES ASSUME TokenInv, AuditorInv, [Next]_vars PROVE AuditorInv'
  OBVIOUS
<1>1. CASE \E ev \in Event : TokenStep(ev)
  BY <1>1, EventAuditorInv
<1>2. CASE account' = account /\ log' = log
  <2> USE <1>2
  <2> QED BY DEF AuditorInv, Exact
<1>3. UNCHANGED vars => account' = account /\ log' = log
  BY DEF vars
<1>4. \A id \in AuditorIds, key \in Keys : SetKey(id, key) => account' = account /\ log' = log
  BY DEF SetKey
<1> QED BY <1>1, <1>2, <1>3, <1>4, NextTold

LEMMA AuditorInvariance == Spec => []AuditorInv
<1> QED BY InitAuditorInv, NextAuditorInv, Invariance, PTL DEF Spec

\* The page's view is a solution of its recursion.
LEMMA AuditorViewSolves ==
  ASSUME TokenInv, NEW r \in Reads
  PROVE  \E f \in [0 .. r[2] -> View] :
           IsView(f, log, r[1], r[2]) /\ AuditorView(r) = f[r[2]]
<1>1. PICK l, n, aged : l = log /\ n = r[2] /\ aged = r[1]
  OBVIOUS
<1>2. /\ l \in Seq(Event) /\ n \in 0 .. Len(l) /\ aged \in Nat /\ n \in Nat
      /\ \A i \in 1 .. n : l[i] \in Event
  BY <1>1 DEF Reads, TokenInv, TypeOK
<1> DEFINE Step(v, i) == IF HasIn(l, aged, n, i) THEN Observe(v, l[i]) ELSE v
           g == [i \in 1 .. n |-> [v \in View |-> Step(v, i)]]
           Body(f, i) == IF i = 0 THEN [u \in Users |-> [spendable |-> Unknown, receiving |-> 0]]
                         ELSE IF Has(r, i) THEN Observe(f[i - 1], log[i]) ELSE f[i - 1]
           Solves(f) == f = [i \in 0 .. r[2] |-> Body(f, i)]
<1>3. ASSUME NEW i \in 1 .. n, NEW v \in View PROVE Step(v, i) \in View
  <2>1. l[i] \in Event /\ l[i].from \in Users
    BY <1>2, EventFields
  <2>2. Observe(v, l[i]) \in View
    BY <2>1, ObserveOne
  <2> QED BY <2>2
<1>4. NoView \in View
  BY DEF NoView, View, Unknown
<1>5. PICK f \in [0 .. n -> View] : f[0] = NoView /\ \A i \in 1 .. n : f[i] = g[i][f[i - 1]]
  <2>1. \A i \in 1 .. n : \A v \in View : g[i][v] \in View
    BY <1>3
  <2> HIDE DEF g
  <2>2. PrefixArguments(n, View, NoView, g)
    BY <1>2, <1>4, <2>1 DEF PrefixArguments
  <2> QED BY <2>2, PrefixFold DEF PrefixSpec
<1>6. \A i \in 1 .. n : f[i] = Step(f[i - 1], i)
  <2>1. \A i \in 1 .. n : f[i - 1] \in View
    BY <1>2, <1>5
  <2> QED BY <1>5, <2>1
<1>7. IsView(f, l, aged, n)
  BY <1>5, <1>6 DEF IsView
<1>8. \A h : Solves(h) => h \in [0 .. n -> View] /\ IsView(h, l, aged, n)
  <2> SUFFICES ASSUME NEW h, Solves(h)
               PROVE  h \in [0 .. n -> View] /\ IsView(h, l, aged, n)
    OBVIOUS
  <2>1. h[0] = NoView
    BY <1>1, <1>2 DEF NoView
  <2>2. \A i \in 1 .. n : h[i] = Step(h[i - 1], i)
    <3>1. ASSUME NEW i \in 1 .. n PROVE h[i] = Step(h[i - 1], i)
      <4>1. i \in 0 .. r[2] /\ i # 0
        BY <1>1, <1>2
      <4>2. h[i] = Body(h, i)
        BY <4>1
      <4> QED BY <1>1, <4>1, <4>2 DEF Has, HasIn
    <3> QED BY <3>1
  <2> DEFINE P == {i \in Nat : i <= n => h[i] \in View}
  <2>3. 0 \in P
    BY <1>4, <2>1
  <2>4. ASSUME NEW i \in Nat, i \in P PROVE i + 1 \in P
    <3>1. CASE i + 1 <= n
      <4>1. i + 1 \in 1 .. n /\ (i + 1) - 1 = i /\ h[i] \in View
        BY <1>2, <2>4, <3>1
      <4>2. h[i + 1] = Step(h[i], i + 1)
        BY <2>2, <4>1
      <4> HIDE DEF Step
      <4> QED BY <1>3, <4>1, <4>2
    <3> QED BY <3>1
  <2>5. Nat \subseteq P
    <3> HIDE DEF P
    <3> QED BY <2>3, <2>4, NatSetInduction
  <2>6. ASSUME NEW i \in 0 .. n PROVE h[i] \in View
    <3>1. i \in P
      BY <1>2, <2>5
    <3> QED BY <3>1
  <2>7. h \in [0 .. n -> View]
    BY <1>1, <2>6
  <2> QED BY <2>1, <2>2, <2>7 DEF IsView
<1>9. Solves(f)
  <2>1. \A i \in 0 .. n : f[i] = Body(f, i)
    BY <1>1, <1>2, <1>5, <1>6 DEF NoView, Has, HasIn
  <2> QED BY <1>1, <1>5, <2>1
<1>10. PICK w : w = CHOOSE h : Solves(h)
  OBVIOUS
<1>11. Solves(w)
  <2> HIDE DEF Solves
  <2> QED BY <1>9, <1>10
<1>12. AuditorView(r) = w[r[2]]
  BY <1>10 DEF AuditorView
<1>13. w \in [0 .. n -> View] /\ IsView(w, l, aged, n)
  BY <1>8, <1>11
<1> QED BY <1>1, <1>12, <1>13

LEMMA DelegatedSolves ==
  ASSUME TokenInv, NEW u \in Users
  PROVE  \E d \in [0 .. Len(log) -> Int] :
           IsDelegated(d, log, u, Len(log)) /\ Delegated(u) = d[Len(log)]
<1>1. PICK l, n : l = log /\ n = Len(log)
  OBVIOUS
<1>2. n \in Nat /\ \A i \in 1 .. n : l[i] \in Event
  BY <1>1 DEF TokenInv, TypeOK
<1> DEFINE g == [i \in 1 .. n |-> [v \in Int |-> Moved(u, v, l[i])]]
           Body(f, i) == IF i = 0 THEN 0 ELSE Moved(u, f[i - 1], log[i])
           Solves(f) == f = [i \in 0 .. Len(log) |-> Body(f, i)]
<1>3. \A i \in 1 .. n, v \in Int : Moved(u, v, l[i]) \in Int
  BY <1>2, MovedOne
<1>4. PICK f \in [0 .. n -> Int] : f[0] = 0 /\ \A i \in 1 .. n : f[i] = g[i][f[i - 1]]
  <2>1. \A i \in 1 .. n : \A v \in Int : g[i][v] \in Int
    BY <1>3
  <2> HIDE DEF g
  <2>2. PrefixArguments(n, Int, 0, g)
    BY <1>2, <2>1 DEF PrefixArguments
  <2> QED BY <2>2, PrefixFold DEF PrefixSpec
<1>5. \A i \in 1 .. n : f[i] = Moved(u, f[i - 1], l[i])
  <2>1. \A i \in 1 .. n : f[i - 1] \in Int
    BY <1>2, <1>4
  <2> QED BY <1>4, <2>1
<1>6. Solves(f)
  <2>1. \A i \in 0 .. n : f[i] = Body(f, i)
    BY <1>1, <1>2, <1>4, <1>5
  <2> QED BY <1>1, <1>4, <2>1
<1>7. PICK w : w = CHOOSE h : Solves(h)
  OBVIOUS
<1>8. Solves(w)
  <2> HIDE DEF Solves
  <2> QED BY <1>6, <1>7
<1>9. w[0] = 0 /\ \A i \in 1 .. n : w[i] = Moved(u, w[i - 1], l[i])
  BY <1>1, <1>2, <1>8
<1> DEFINE P == {i \in Nat : i <= n => w[i] \in Int}
<1>10. 0 \in P
  BY <1>9
<1>11. ASSUME NEW i \in Nat, i \in P PROVE i + 1 \in P
  <2>1. CASE i + 1 <= n
    <3>1. i + 1 \in 1 .. n /\ (i + 1) - 1 = i /\ w[i] \in Int
      BY <1>2, <1>11, <2>1
    <3>2. w[i + 1] = Moved(u, w[i], l[i + 1])
      BY <1>9, <3>1
    <3>3. Moved(u, w[i], l[i + 1]) \in Int
      BY <1>3, <3>1
    <3> QED BY <3>2, <3>3
  <2> QED BY <2>1
<1>12. Nat \subseteq P
  <2> HIDE DEF P
  <2> QED BY <1>10, <1>11, NatSetInduction
<1>13. w \in [0 .. n -> Int]
  BY <1>1, <1>8, <1>12
<1>14. Delegated(u) = w[Len(log)]
  BY <1>7 DEF Delegated
<1> QED BY <1>1, <1>9, <1>13, <1>14 DEF IsDelegated

\* While the page can read all there is about an account, its balances differ
\* from the token's by no more than the delegations.
THEOREM AuditorIsExact == Spec => []AuditorExact
<1>1. TokenInv /\ AuditorInv => AuditorExact
  <2> SUFFICES ASSUME TokenInv, AuditorInv, NEW u \in Users, NEW r \in Reads,
                      account[u].registered, Readable(u, r)
               PROVE  DiffersByDelegations(u, r)
    BY DEF AuditorExact
  <2>1. PICK f \in [0 .. r[2] -> View] :
          IsView(f, log, r[1], r[2]) /\ AuditorView(r) = f[r[2]]
    BY AuditorViewSolves
  <2>2. PICK d \in [0 .. Len(log) -> Int] :
          IsDelegated(d, log, u, Len(log)) /\ Delegated(u) = d[Len(log)]
    BY DelegatedSolves
  <2>3. /\ r[1] \in Nat /\ r[2] \in 0 .. Len(log) /\ DOMAIN log = 1 .. Len(log)
    BY DEF Reads, TokenInv, TypeOK
  <2>4. ReadableIn(log, u, r[1], r[2])
    BY <2>3 DEF Readable, ReadableFrom, ReadableIn, Clear, Has, HasIn
  <2>5. Exact(u, f[r[2]][u], d[Len(log)])
    BY <2>1, <2>2, <2>3, <2>4 DEF AuditorInv
  <2> QED BY <2>1, <2>2, <2>5 DEF Exact, DiffersByDelegations
<1> QED BY <1>1, Invariance, AuditorInvariance, PTL

-----------------------------------------------------------------------------
(* The auditor's balances after a gap *)

\* ReadableFrom for a log l.
ReadableSince(l, u, aged, n, m) ==
  \A i \in 1 .. Len(l) :
    i >= m /\ ConcernsMe(u, l[i]) => Clear(u, l[i]) /\ HasIn(l, aged, n, i)
MergeOf(u, ev) == ev.type = "merge" /\ ev.from = u
PaidSince(l, u, m) == \E c \in m .. Len(l) : Checkpointed(u, l[c])

\* A merge settles the receiving balance, a payment after it the spendable one.
Resumed(u, a, d, paid) ==
  /\ account[u].registered
  /\ a.receiving = account[u].receiving.v
  /\ paid => a.spendable = account[u].spendable.v + d /\ a.spendable >= 0

RecoverInv ==
  \A u \in Users, aged \in Nat : \A n \in 0 .. Len(log), m \in 1 .. Len(log) :
    MergeOf(u, log[m]) /\ ReadableSince(log, u, aged, n, m) =>
      \A f \in [0 .. n -> View], d \in [0 .. Len(log) -> Int] :
        IsView(f, log, aged, n) /\ IsDelegated(d, log, u, Len(log)) =>
          Resumed(u, f[n][u], d[Len(log)], PaidSince(log, u, m))

\* The balance a payment checkpoints does not depend on the one known before.
LEMMA CheckpointForgets ==
  ASSUME NEW ev \in Event, NEW u \in Users, Checkpointed(u, ev), Clear(u, ev),
         NEW v \in View, NEW w \in View, NEW d \in Int
  PROVE  /\ Observe(v, ev)[u].spendable = Observe(w, ev)[u].spendable
         /\ Moved(u, d, ev) = Moved(u, 0, ev)
<1>1. ev.from = u /\ (ev.type = "withdraw" \/ (ev.type = "transfer" /\ ChannelsAgree(ev)))
  BY DEF Checkpointed, Clear, ConcernsMe
<1>2. \A x \in View : Observe(x, ev)[u].spendable = SenderBalance(ev)
  BY <1>1, ObserveOne
<1>3. Moved(u, d, ev) = 0 /\ Moved(u, 0, ev) = 0
  BY <1>1, MovedOne
<1> QED BY <1>2, <1>3

\* An event that the page reads keeps what has been settled; one that pays settles.
LEMMA ResumeStep ==
  ASSUME TokenInv, NEW ev \in Event, TokenStep(ev), NEW u \in Users,
         ConcernsMe(u, ev), Clear(u, ev),
         NEW view \in View, NEW d \in Int, NEW paid \in BOOLEAN,
         Resumed(u, view[u], d, paid),
         NEW b, b = Observe(view, ev)[u], NEW m, m = Moved(u, d, ev),
         NEW next \in BOOLEAN, next => paid \/ Checkpointed(u, ev)
  PROVE  Resumed(u, b, m, next)'
<1>1. account[u].registered /\ view[u].receiving = account[u].receiving.v
  BY DEF Resumed
<1>2. account'[u].registered
  BY EventFields DEF TokenStep, Tells, MovesBalances, ConcernsMe
<1>3. CASE paid
  <2>1. Exact(u, view[u], d)
    BY <1>1, <1>3 DEF Resumed, Exact
  <2>2. Exact(u, b, m)'
    BY <2>1, ExactStep
  <2> QED BY <1>2, <2>2 DEF Exact, Resumed
<1>4. CASE ~paid
  <2>1. PICK x \in Nat : x = account[u].spendable.v
    BY TokenFacts
  <2>2. PICK w \in View : w = [view EXCEPT ![u].spendable = x]
    <3>1. [view EXCEPT ![u].spendable = x] \in View
      BY <2>1 DEF View
    <3> QED BY <3>1
  <2>3. w[u].spendable = x /\ w[u].receiving = view[u].receiving
    BY <2>2 DEF View
  <2>4. Exact(u, w[u], 0)
    BY <1>1, <2>1, <2>3 DEF Exact
  <2>5. PICK e, z : e = Observe(w, ev)[u] /\ z = Moved(u, 0, ev)
    OBVIOUS
  <2>6. Exact(u, e, z)'
    BY <2>4, <2>5, ExactStep
  <2>7. e.receiving = account'[u].receiving.v /\ e.spendable = account'[u].spendable.v + z /\ e.spendable >= 0
    BY <1>2, <2>6 DEF Exact
  <2>8. b.receiving = e.receiving
    BY <2>3, <2>5, ObserveOne
  <2>9. next => b.spendable = e.spendable /\ m = z
    BY <1>4, <2>5, CheckpointForgets
  <2> QED BY <1>2, <2>7, <2>8, <2>9 DEF Resumed
<1> QED BY <1>3, <1>4

\* A merge that the page reads settles what is received.
LEMMA MergeSettles ==
  ASSUME TokenInv, NEW ev \in Event, TokenStep(ev), NEW u \in Users, MergeOf(u, ev),
         NEW view \in View, NEW d
  PROVE  Resumed(u, Observe(view, ev)[u], d, FALSE)'
<1>1. Observe(view, ev)[u].receiving = 0
  BY ObserveOne DEF MergeOf
<1>2. account'[u].registered /\ account'[u].receiving = Zero
  BY DEF TokenStep, Tells, MovesBalances, MergeOf
<1>3. Zero.v = 0
  BY CommitmentOps
<1> QED BY <1>1, <1>2, <1>3 DEF Resumed

LEMMA InitRecoverInv == Init => RecoverInv
<1> SUFFICES ASSUME Init, NEW u \in Users, NEW aged \in Nat,
                    NEW n \in 0 .. Len(log), NEW m \in 1 .. Len(log),
                    MergeOf(u, log[m]), ReadableSince(log, u, aged, n, m),
                    NEW f \in [0 .. n -> View], IsView(f, log, aged, n),
                    NEW d
             PROVE  Resumed(u, f[n][u], d, PaidSince(log, u, m))
  BY DEF RecoverInv
<1>1. PICK w \in Users :
        /\ account = [v \in Users |-> IF v # w THEN NoAccount
                        ELSE [registered |-> TRUE, auditor |-> PageId,
                              spendable |-> Unblinded(Balance), receiving |-> Zero]]
        /\ log = <<Entry("register", w, 0, Zero), Entry("deposit", w, Balance, Zero),
                   Entry("merge", w, 0, Unblinded(Balance))>>
  BY DEF Init
<1>2. log \in Seq(Event) /\ Len(log) = 3 /\ \A i \in 1 .. 3 : log[i] \in Event
  BY <1>1, InitTokenInv DEF TokenInv, TypeOK
<1>3. /\ log[1].type = "register" /\ log[2].type = "deposit" /\ log[3].type = "merge"
      /\ log[3].from = w
  BY <1>1 DEF Entry
<1>4. m = 3 /\ u = w
  BY <1>2, <1>3 DEF MergeOf
<1>5. n = 3 /\ HasIn(log, aged, 3, 3)
  BY <1>2, <1>4 DEF ReadableSince, MergeOf, ConcernsMe, HasIn
<1>6. f[3] = Observe(f[2], log[3]) /\ f[2] \in View
  BY <1>5 DEF IsView
<1>7. f[n][u].receiving = 0
  BY <1>2, <1>4, <1>5, <1>6, ObserveOne DEF MergeOf
<1>8. ~PaidSince(log, u, m)
  BY <1>2, <1>3, <1>4 DEF PaidSince, Checkpointed
<1>9. account[u].registered /\ account[u].receiving.v = 0
  BY <1>1, <1>4, CommitmentOps
<1> QED BY <1>7, <1>8, <1>9 DEF Resumed

LEMMA EventRecoverInv ==
  ASSUME TokenInv, RecoverInv, NEW ev \in Event, TokenStep(ev)
  PROVE  RecoverInv'
<1>1. PICK l, k, z : l = log /\ k = log' /\ z = Len(log)
  OBVIOUS
<1>2. Extended(l, k, z, ev)
  BY <1>1, LogGrows DEF Extended
<1>3. /\ z \in Nat /\ Len(l) = z /\ Len(k) = z + 1
      /\ k[z + 1] = ev /\ \A i \in 1 .. z : k[i] = l[i] /\ l[i] \in Event
  BY <1>2 DEF Extended
<1> SUFFICES ASSUME NEW u \in Users, NEW aged \in Nat,
                    NEW n \in 0 .. (z + 1), NEW q \in 1 .. (z + 1),
                    MergeOf(u, k[q]), ReadableSince(k, u, aged, n, q),
                    NEW f \in [0 .. n -> View], NEW d \in [0 .. (z + 1) -> Int],
                    IsView(f, k, aged, n), IsDelegated(d, k, u, z + 1)
             PROVE  Resumed(u, f[n][u], d[z + 1], PaidSince(k, u, q))'
  BY <1>1, <1>3 DEF RecoverInv
<1>4. PICK m \in 0 .. z : \E g \in [0 .. m -> View], c \in [0 .. z -> Int] :
           StepsOn(u, l, z, aged, n, f, d, ev, m, g, c)
  BY <1>2, ReplayStepsOn
<1>5. PICK g \in [0 .. m -> View], c \in [0 .. z -> Int] :
           StepsOn(u, l, z, aged, n, f, d, ev, m, g, c)
  BY <1>4
<1>6. m = (IF n <= z THEN n ELSE z) /\ d[z] \in Int /\ f[m] \in View /\ d[z + 1] = Moved(u, d[z], ev)
  BY <1>5 DEF StepsOn
<1>7. ConcernsMe(u, ev) => Clear(u, ev) /\ n = z + 1 /\ f[n] = Observe(f[m], ev)
  <2> SUFFICES ASSUME ConcernsMe(u, ev) PROVE Clear(u, ev) /\ n = z + 1 /\ f[n] = Observe(f[m], ev)
    OBVIOUS
  <2>1. z + 1 \in 1 .. Len(k) /\ z + 1 >= q
    BY <1>3
  <2>2. Clear(u, ev) /\ HasIn(k, aged, n, z + 1)
    BY <1>3, <2>1 DEF ReadableSince
  <2> QED BY <1>3, <1>5, <2>2 DEF HasIn, StepsOn
<1>8. CASE q = z + 1
  <2>1. MergeOf(u, ev) /\ ConcernsMe(u, ev)
    BY <1>3, <1>8 DEF MergeOf, ConcernsMe
  <2>2. f[n][u] = Observe(f[m], ev)[u]
    BY <1>7, <2>1
  <2>3. Resumed(u, f[n][u], d[z + 1], FALSE)'
    BY <1>6, <2>1, <2>2, MergeSettles
  <2>4. ~PaidSince(k, u, q)
    BY <1>3, <1>8, <2>1 DEF PaidSince, Checkpointed, MergeOf
  <2> QED BY <1>1, <2>3, <2>4 DEF Resumed
<1>9. CASE q \in 1 .. z
  <2>1. MergeOf(u, l[q])
    BY <1>3, <1>9
  <2>2. ReadableSince(l, u, aged, m, q)
    <3>1. ASSUME NEW i \in 1 .. z, i >= q, ConcernsMe(u, l[i])
          PROVE  Clear(u, l[i]) /\ HasIn(l, aged, m, i)
      <4>1. i \in 1 .. Len(k) /\ k[i] = l[i]
        BY <1>3
      <4>2. Clear(u, k[i]) /\ HasIn(k, aged, n, i)
        BY <3>1, <4>1 DEF ReadableSince
      <4> QED BY <1>3, <1>6, <4>1, <4>2 DEF HasIn
    <3> QED BY <1>3, <3>1 DEF ReadableSince
  <2>3. Resumed(u, g[m][u], c[z], PaidSince(l, u, q))
    BY <1>1, <1>3, <1>5, <1>9, <2>1, <2>2 DEF RecoverInv, StepsOn
  <2>4. Resumed(u, f[m][u], d[z], PaidSince(l, u, q))
    BY <1>5, <2>3 DEF StepsOn
  <2>5. PaidSince(k, u, q) => PaidSince(l, u, q) \/ Checkpointed(u, ev)
    <3> SUFFICES ASSUME NEW p \in q .. (z + 1), Checkpointed(u, k[p])
                 PROVE  PaidSince(l, u, q) \/ Checkpointed(u, ev)
      BY <1>3 DEF PaidSince
    <3>1. CASE p = z + 1
      BY <1>3, <3>1
    <3>2. CASE p \in q .. z
      <4>1. p \in 1 .. z /\ Len(l) = z
        BY <1>3, <1>9, <3>2
      <4>2. k[p] = l[p]
        BY <1>3, <4>1
      <4> QED BY <3>2, <4>1, <4>2 DEF PaidSince
    <3> QED BY <1>3, <1>9, <3>1, <3>2
  <2>6. PICK paid \in BOOLEAN : paid <=> PaidSince(l, u, q)
    OBVIOUS
  <2>7. PICK next \in BOOLEAN : next <=> PaidSince(k, u, q)
    OBVIOUS
  <2>8. Resumed(u, f[m][u], d[z], paid) /\ (next => paid \/ Checkpointed(u, ev))
    BY <2>4, <2>5, <2>6, <2>7 DEF Resumed
  <2>9. Resumed(u, f[n][u], d[z + 1], next)'
    <3>1. CASE ConcernsMe(u, ev)
      <4>1. f[n][u] = Observe(f[m], ev)[u]
        BY <1>7, <3>1
      <4> QED BY <1>6, <1>7, <2>8, <3>1, <4>1, ResumeStep
    <3>2. CASE ~ConcernsMe(u, ev)
      <4>1. Observe(f[m], ev)[u] = f[m][u] /\ Moved(u, d[z], ev) = d[z]
        BY <1>6, <3>2, BystanderView
      <4>2. f[n][u] = f[m][u]
        <5>1. n = z + 1 \/ n = m
          BY <1>3, <1>6
        <5> QED BY <1>5, <4>1, <5>1 DEF StepsOn
      <4>3. d[z + 1] = d[z]
        BY <1>6, <4>1
      <4>4. /\ account'[u].registered <=> account[u].registered
            /\ account'[u].spendable = account[u].spendable
            /\ account'[u].receiving = account[u].receiving
        BY <3>2, BystanderToken
      <4>5. ~Checkpointed(u, ev)
        BY <3>2 DEF Checkpointed, ConcernsMe
      <4> QED BY <2>8, <4>2, <4>3, <4>4, <4>5 DEF Resumed
    <3> QED BY <3>1, <3>2
  <2> QED BY <1>1, <2>7, <2>9 DEF Resumed
<1> QED BY <1>3, <1>8, <1>9

LEMMA NextRecoverInv == TokenInv /\ RecoverInv /\ [Next]_vars => RecoverInv'
<1> SUFFICES ASSUME TokenInv, RecoverInv, [Next]_vars PROVE RecoverInv'
  OBVIOUS
<1>1. CASE \E ev \in Event : TokenStep(ev)
  BY <1>1, EventRecoverInv
<1>2. CASE account' = account /\ log' = log
  <2> SUFFICES ASSUME NEW u \in Users, NEW aged \in Nat,
                      NEW n \in 0 .. Len(log), NEW m \in 1 .. Len(log),
                      MergeOf(u, log[m]), ReadableSince(log, u, aged, n, m),
                      NEW f \in [0 .. n -> View], NEW d \in [0 .. Len(log) -> Int],
                      IsView(f, log, aged, n), IsDelegated(d, log, u, Len(log))
               PROVE  Resumed(u, f[n][u], d[Len(log)], PaidSince(log, u, m))'
    BY <1>2 DEF RecoverInv
  <2>1. Resumed(u, f[n][u], d[Len(log)], PaidSince(log, u, m))
    BY DEF RecoverInv
  <2> QED BY <1>2, <2>1 DEF Resumed
<1>3. UNCHANGED vars => account' = account /\ log' = log
  BY DEF vars
<1>4. \A id \in AuditorIds, key \in Keys : SetKey(id, key) => account' = account /\ log' = log
  BY DEF SetKey
<1> QED BY <1>1, <1>2, <1>3, <1>4, NextTold

LEMMA RecoverInvariance == Spec => []RecoverInv
<1> QED BY InitRecoverInv, NextRecoverInv, Invariance, PTL DEF Spec

\* What the page could not read, or read as garbage, is forgotten once it has read
\* a merge of the account and a payment after it.
THEOREM AuditorsRecover == Spec => []AuditorRecovers
<1>1. TokenInv /\ RecoverInv => AuditorRecovers
  <2> SUFFICES ASSUME TokenInv, RecoverInv, NEW u \in Users, NEW r \in Reads, NEW m \in DOMAIN log,
                      log[m].type = "merge", log[m].from = u,
                      \E c \in m .. Len(log) : Checkpointed(u, log[c]),
                      ReadableFrom(u, r, m)
               PROVE  DiffersByDelegations(u, r)
    BY DEF AuditorRecovers
  <2>1. PICK f \in [0 .. r[2] -> View] :
          IsView(f, log, r[1], r[2]) /\ AuditorView(r) = f[r[2]]
    BY AuditorViewSolves
  <2>2. PICK d \in [0 .. Len(log) -> Int] :
          IsDelegated(d, log, u, Len(log)) /\ Delegated(u) = d[Len(log)]
    BY DelegatedSolves
  <2>3. /\ r[1] \in Nat /\ r[2] \in 0 .. Len(log) /\ DOMAIN log = 1 .. Len(log)
    BY DEF Reads, TokenInv, TypeOK
  <2>4. MergeOf(u, log[m]) /\ ReadableSince(log, u, r[1], r[2], m) /\ PaidSince(log, u, m)
    BY <2>3 DEF ReadableFrom, ReadableSince, Clear, Has, HasIn, MergeOf, PaidSince
  <2>5. Resumed(u, f[r[2]][u], d[Len(log)], PaidSince(log, u, m))
    BY <2>1, <2>2, <2>3, <2>4 DEF RecoverInv
  <2> QED BY <2>1, <2>2, <2>4, <2>5 DEF Resumed, DiffersByDelegations
<1> QED BY <1>1, Invariance, RecoverInvariance, PTL

-----------------------------------------------------------------------------
(* The owner's activity list *)

Hist == [spendable : Commitment, receiving : Commitment, complete : BOOLEAN,
         pending : [Escrows -> Int], outgoing : SUBSET (Nat \X Int)]

\* One event about the owner, and the whole replay, as `History` does them.
Replayed(me, h, i, ev) == Apply(me, Infer(me, h, i, ev), ev)
IsHistory(h, l, me, aged, n) ==
  /\ h[0] = NoHistory
  /\ \A i \in 1 .. n :
       h[i] = IF HasIn(l, aged, n, i) /\ ConcernsMe(me, l[i])
              THEN Replayed(me, h[i - 1], i, l[i]) ELSE h[i - 1]

\* No event is missing between those that a reader fetches.
GapFree == ~Indexer \/ EventTypes \subseteq Served

\* Once the register event was seen, the replay follows the token.
Sound(me, aged, h) ==
  /\ ~account[me].registered => h = NoHistory
  /\ ~h.complete => \A e \in Escrows : h.pending[e] = Unknown
  /\ h.complete =>
       /\ Indexer \/ Len(log) > aged
       /\ h.spendable = account[me].spendable /\ h.receiving = account[me].receiving
       /\ \A e \in Escrows :
            h.pending[e] = IF allowance[me][e] = 0 THEN Unknown ELSE allowance[me][e]

RowsTrue(h, n) == \A row \in h.outgoing : row[1] \in 1 .. n /\ row[2] = log[row[1]].amount

HistoryInv ==
  \A me \in Users, aged \in Nat : \A n \in 0 .. Len(log) : \A h \in [0 .. n -> Hist] :
    IsHistory(h, log, me, aged, n) =>
      RowsTrue(h[n], n) /\ (n = Len(log) => Sound(me, aged, h[n]))

\* What `Infer` does to a history, field by field.
Rows(me, h, i, ev) ==
  IF ev.from # me THEN h.outgoing
  ELSE IF ev.type = "transfer" /\ h.complete /\ h.spendable.v - ev.after.v >= 0
    THEN h.outgoing \cup {<<i, h.spendable.v - ev.after.v>>}
  ELSE IF ev.type = "spender_transfer" /\ h.pending[ev.with] # Unknown
    THEN h.outgoing \cup {<<i, h.pending[ev.with]>>}
  ELSE h.outgoing
Pends(me, h, ev, e) ==
  IF ev.from # me \/ e # ev.with THEN h.pending[e]
  ELSE IF ev.type = "set_spender" /\ h.complete /\ h.spendable.v - ev.after.v >= 0
    THEN h.spendable.v - ev.after.v
  ELSE IF ev.type \in {"spender_transfer", "revoke_spender"} THEN Unknown
  ELSE h.pending[e]
Inferred(me, h, i, ev, k) ==
  /\ k \in Hist
  /\ k.complete <=> (h.complete \/ (ev.type = "register" /\ ev.from = me))
  /\ \A e \in Escrows : k.pending[e] = Pends(me, h, ev, e)
  /\ k.outgoing = Rows(me, h, i, ev)
Named(ev) ==
  ev.type \in {"set_spender", "revoke_spender", "spender_transfer"} => ev.with \in Escrows

LEMMA InferOne ==
  ASSUME NEW me \in Users, NEW h \in Hist, NEW i \in Nat, NEW ev \in Event, Named(ev)
  PROVE  /\ Inferred(me, h, i, ev, Infer(me, h, i, ev))
         /\ Infer(me, h, i, ev).spendable = h.spendable
         /\ Infer(me, h, i, ev).receiving = h.receiving
<1> USE DEF Named, Inferred, Rows, Pends
<1>0. PICK k : k = Infer(me, h, i, ev)
  OBVIOUS
<1> SUFFICES Inferred(me, h, i, ev, k) /\ k.spendable = h.spendable /\ k.receiving = h.receiving
  BY <1>0
<1>1. PICK s, r \in Commitment, c \in BOOLEAN, p \in [Escrows -> Int], o \in SUBSET (Nat \X Int) :
        h = [spendable |-> s, receiving |-> r, complete |-> c, pending |-> p, outgoing |-> o]
  BY DEF Hist
<1>2. /\ h.spendable = s /\ h.receiving = r /\ (h.complete <=> c) /\ h.pending = p
      /\ h.outgoing = o
  BY <1>1
<1>3. PICK delta \in Int : delta = s.v - ev.after.v
  BY EventFields DEF Commitment
<1>4. /\ ev.type \in EventTypes
      /\ \A e \in Escrows : p[e] \in Int
      /\ Unknown \in Int
  BY EventFields DEF Unknown
<1>5. CASE ev.type = "register" /\ ev.from = me
  <2>1. k = [h EXCEPT !.complete = TRUE]
    BY <1>0, <1>5 DEF Infer
  <2>2. k = [spendable |-> s, receiving |-> r, complete |-> TRUE, pending |-> p, outgoing |-> o]
    BY <1>1, <2>1
  <2> QED BY <1>2, <1>5, <2>2 DEF Hist
<1>6. CASE ev.type = "transfer" /\ h.complete /\ ev.from = me /\ delta >= 0
  <2>1. k = [h EXCEPT !.outgoing = @ \cup {<<i, delta>>}]
    BY <1>0, <1>2, <1>3, <1>6 DEF Infer, Counts
  <2>2. k = [spendable |-> s, receiving |-> r, complete |-> c, pending |-> p,
             outgoing |-> o \cup {<<i, delta>>}]
    BY <1>1, <2>1
  <2> QED BY <1>2, <1>3, <1>6, <2>2 DEF Hist
<1>7. CASE ev.type = "set_spender" /\ h.complete /\ ev.from = me /\ delta >= 0
  <2>1. k = [h EXCEPT !.pending[ev.with] = delta]
    BY <1>0, <1>2, <1>3, <1>7 DEF Infer, Counts
  <2>2. k = [spendable |-> s, receiving |-> r, complete |-> c,
             pending |-> [p EXCEPT ![ev.with] = delta], outgoing |-> o]
    BY <1>1, <2>1
  <2> QED BY <1>2, <1>3, <1>4, <1>7, <2>2 DEF Hist
<1>8. CASE ev.type = "spender_transfer" /\ ev.from = me /\ h.pending[ev.with] # Unknown
  <2>1. k = [h EXCEPT !.outgoing = @ \cup {<<i, h.pending[ev.with]>>}, !.pending[ev.with] = Unknown]
    BY <1>0, <1>8 DEF Infer
  <2>2. PICK b : b = [h EXCEPT !.outgoing = @ \cup {<<i, h.pending[ev.with]>>}]
    OBVIOUS
  <2>3. b = [spendable |-> s, receiving |-> r, complete |-> c, pending |-> p,
             outgoing |-> o \cup {<<i, p[ev.with]>>}]
    BY <1>1, <2>2
  <2>4. k = [b EXCEPT !.pending[ev.with] = Unknown]
    BY <2>1, <2>2
  <2>5. k = [spendable |-> s, receiving |-> r, complete |-> c,
             pending |-> [p EXCEPT ![ev.with] = Unknown],
             outgoing |-> o \cup {<<i, p[ev.with]>>}]
    BY <2>3, <2>4
  <2> QED BY <1>2, <1>4, <1>8, <2>5 DEF Hist
<1>9. CASE ev.type = "revoke_spender" /\ ev.from = me
  <2>1. k = [h EXCEPT !.pending[ev.with] = Unknown]
    BY <1>0, <1>9 DEF Infer
  <2>2. k = [spendable |-> s, receiving |-> r, complete |-> c,
             pending |-> [p EXCEPT ![ev.with] = Unknown], outgoing |-> o]
    BY <1>1, <2>1
  <2> QED BY <1>2, <1>4, <1>9, <2>2 DEF Hist
<1>10. ASSUME /\ ~(ev.type = "register" /\ ev.from = me)
              /\ ~(ev.type = "transfer" /\ h.complete /\ ev.from = me /\ delta >= 0)
              /\ ~(ev.type = "set_spender" /\ h.complete /\ ev.from = me /\ delta >= 0)
              /\ ~(ev.type = "spender_transfer" /\ ev.from = me /\ h.pending[ev.with] # Unknown)
              /\ ~(ev.type = "revoke_spender" /\ ev.from = me)
       PROVE  k = h
  BY <1>0, <1>2, <1>3, <1>10 DEF Infer, Counts
<1>11. CASE k = h /\ ~(ev.type = "register" /\ ev.from = me)
              /\ ~(ev.type = "transfer" /\ h.complete /\ ev.from = me /\ delta >= 0)
              /\ ~(ev.type = "set_spender" /\ h.complete /\ ev.from = me /\ delta >= 0)
              /\ ~(ev.type = "spender_transfer" /\ ev.from = me /\ h.pending[ev.with] # Unknown)
              /\ ~(ev.type = "revoke_spender" /\ ev.from = me)
  BY <1>2, <1>3, <1>4, <1>11
<1> QED BY <1>5, <1>6, <1>7, <1>8, <1>9, <1>10, <1>11

LEMMA ApplyOne ==
  ASSUME NEW me \in Users, NEW h \in Hist, NEW ev \in Event, NEW k, k = Apply(me, h, ev)
  PROVE  /\ k \in Hist /\ (k.complete <=> h.complete)
         /\ k.pending = h.pending /\ k.outgoing = h.outgoing
         /\ k.spendable =
              IF ev.from # me THEN h.spendable
              ELSE IF ev.type = "merge" THEN Plus(h.spendable, h.receiving)
              ELSE IF ev.type \in Checkpoints THEN ev.after ELSE h.spendable
         /\ k.receiving =
              IF ev.from = me /\ ev.type = "merge" THEN Zero
              ELSE IF ev.to = me /\ ev.type \in Credits THEN Plus(h.receiving, ev.credit)
              ELSE h.receiving
<1>1. PICK s, r \in Commitment, c \in BOOLEAN, p \in [Escrows -> Int], o \in SUBSET (Nat \X Int) :
        h = [spendable |-> s, receiving |-> r, complete |-> c, pending |-> p, outgoing |-> o]
  BY DEF Hist
<1>2. PICK x : x = IF ev.from = me /\ ev.type = "merge" THEN Plus(s, r)
                   ELSE IF ev.from = me /\ ev.type \in Checkpoints THEN ev.after ELSE s
  OBVIOUS
<1>3. PICK y : y = IF ev.from = me /\ ev.type = "merge" THEN Zero
                   ELSE IF ev.to = me /\ ev.type \in Credits THEN Plus(r, ev.credit) ELSE r
  OBVIOUS
<1>4. x \in Commitment /\ y \in Commitment
  BY <1>2, <1>3, CommitmentOps, EventFields
<1>5. h.spendable = s /\ h.receiving = r
  BY <1>1
<1>6. PICK b : b = [h EXCEPT !.spendable = x]
  OBVIOUS
<1>7. b = [spendable |-> x, receiving |-> r, complete |-> c, pending |-> p, outgoing |-> o]
  BY <1>1, <1>6
<1>8. k = [b EXCEPT !.receiving = y]
  BY <1>2, <1>3, <1>5, <1>6 DEF Apply
<1>9. k = [spendable |-> x, receiving |-> y, complete |-> c, pending |-> p, outgoing |-> o]
  BY <1>7, <1>8
<1>10. k \in Hist
  BY <1>4, <1>9 DEF Hist
<1>11. (k.complete <=> h.complete) /\ k.pending = h.pending /\ k.outgoing = h.outgoing
       /\ k.spendable = x /\ k.receiving = y
  BY <1>1, <1>9
<1> QED BY <1>2, <1>3, <1>5, <1>10, <1>11

\* The replay of one event, by its type.
LEMMA ReplayedOne ==
  ASSUME NEW me \in Users, NEW h \in Hist, NEW i \in Nat, NEW ev \in Event, Named(ev)
  PROVE  /\ Inferred(me, h, i, ev, Replayed(me, h, i, ev))
         /\ Replayed(me, h, i, ev).spendable =
              IF ev.from # me THEN h.spendable
              ELSE IF ev.type = "merge" THEN Plus(h.spendable, h.receiving)
              ELSE IF ev.type \in Checkpoints THEN ev.after ELSE h.spendable
         /\ Replayed(me, h, i, ev).receiving =
              IF ev.from = me /\ ev.type = "merge" THEN Zero
              ELSE IF ev.to = me /\ ev.type \in Credits THEN Plus(h.receiving, ev.credit)
              ELSE h.receiving
<1>0. PICK k : k = Replayed(me, h, i, ev)
  OBVIOUS
<1>1. PICK g : g = Infer(me, h, i, ev)
  OBVIOUS
<1>2. k = Apply(me, g, ev)
  BY <1>0, <1>1 DEF Replayed
<1>3. Inferred(me, h, i, ev, g) /\ g.spendable = h.spendable /\ g.receiving = h.receiving
  BY <1>1, InferOne
<1>3a. g \in Hist
  BY <1>3 DEF Inferred
<1>4. /\ k \in Hist /\ (k.complete <=> g.complete)
      /\ k.pending = g.pending /\ k.outgoing = g.outgoing
  BY <1>2, <1>3a, ApplyOne
<1>5. k.spendable =
        IF ev.from # me THEN h.spendable
        ELSE IF ev.type = "merge" THEN Plus(h.spendable, h.receiving)
        ELSE IF ev.type \in Checkpoints THEN ev.after ELSE h.spendable
  BY <1>2, <1>3, <1>3a, ApplyOne
<1>6. k.receiving =
        IF ev.from = me /\ ev.type = "merge" THEN Zero
        ELSE IF ev.to = me /\ ev.type \in Credits THEN Plus(h.receiving, ev.credit)
        ELSE h.receiving
  BY <1>2, <1>3, <1>3a, ApplyOne
<1>7. Inferred(me, h, i, ev, k)
  BY <1>3, <1>4 DEF Inferred
<1> QED BY <1>0, <1>5, <1>6, <1>7

\* An event that the owner's list replays keeps it sound.
LEMMA OwnStep ==
  ASSUME TokenInv, NEW ev \in Event, TokenStep(ev), NEW me \in Users, ConcernsMe(me, ev),
         NEW aged \in Nat, NEW z, z = Len(log), Indexer \/ z + 1 > aged,
         NEW h \in Hist, Sound(me, aged, h), RowsTrue(h, z),
         NEW k, k = Replayed(me, h, z + 1, ev)
  PROVE  Sound(me, aged, k)' /\ RowsTrue(k, z + 1)'
<1> DEFINE t == ev.type
           x == account[me].spendable.v
<1>1. /\ z \in Nat /\ z + 1 \in Nat /\ log \in Seq(Event)
      /\ Len(log') = z + 1 /\ log'[z + 1] = ev /\ \A i \in 1 .. z : log'[i] = log[i]
  BY LogGrows
<1>2. Tells(ev) /\ MovesBalances(ev) /\ MovesAllowances(ev)
  BY DEF TokenStep
<1>3. /\ t \in EventTypes /\ ev.from \in Users /\ ev.to \in Users /\ ev.amount \in Nat
      /\ ev.after.v \in Nat
  BY EventFields
<1>4. /\ t \in {"set_spender", "revoke_spender", "spender_transfer"} =>
           ev.with \in Escrows /\ ev.amount # 0
      /\ ev.from = me /\ t \in {"transfer", "set_spender"} => x = ev.after.v + ev.amount
      /\ ev.from = me /\ t \in {"revoke_spender", "spender_transfer"} =>
           allowance[me][ev.with] = ev.amount
      /\ t = "register" => ev.from = me /\ ~account[me].registered
      /\ ev.from = me \/ ev.to = me
  BY <1>2 DEF Tells, ConcernsMe
<1>5. account'[me].registered
  BY <1>2, <1>3, <1>4 DEF Tells, MovesBalances
<1>6. x \in Nat /\ (\A e \in Escrows : allowance[me][e] \in Nat)
  BY TokenFacts
<1>4a. Inferred(me, h, z + 1, ev, k)
  BY <1>1, <1>4, ReplayedOne DEF Named
<1>7. /\ k \in Hist
      /\ k.complete <=> (h.complete \/ t = "register")
  BY <1>4, <1>4a DEF Inferred, Rows, Pends
<1>8. \A e \in Escrows :
        k.pending[e] =
          IF ev.from # me \/ e # ev.with THEN h.pending[e]
          ELSE IF t = "set_spender" /\ h.complete /\ h.spendable.v - ev.after.v >= 0
            THEN h.spendable.v - ev.after.v
          ELSE IF t \in {"spender_transfer", "revoke_spender"} THEN Unknown
          ELSE h.pending[e]
  BY <1>4, <1>4a DEF Inferred, Rows, Pends
<1>9. k.outgoing =
        IF ev.from # me THEN h.outgoing
        ELSE IF t = "transfer" /\ h.complete /\ h.spendable.v - ev.after.v >= 0
          THEN h.outgoing \cup {<<z + 1, h.spendable.v - ev.after.v>>}
        ELSE IF t = "spender_transfer" /\ h.pending[ev.with] # Unknown
          THEN h.outgoing \cup {<<z + 1, h.pending[ev.with]>>}
        ELSE h.outgoing
  BY <1>4, <1>4a DEF Inferred, Rows, Pends
<1>10. /\ k.spendable =
            IF ev.from # me THEN h.spendable
            ELSE IF t = "merge" THEN Plus(h.spendable, h.receiving)
            ELSE IF t \in Checkpoints THEN ev.after ELSE h.spendable
       /\ k.receiving =
            IF ev.from = me /\ t = "merge" THEN Zero
            ELSE IF ev.to = me /\ t \in Credits THEN Plus(h.receiving, ev.credit)
            ELSE h.receiving
  <2>1. k.spendable =
            IF ev.from # me THEN h.spendable
            ELSE IF t = "merge" THEN Plus(h.spendable, h.receiving)
            ELSE IF t \in Checkpoints THEN ev.after ELSE h.spendable
    BY <1>1, <1>4, ReplayedOne DEF Named
  <2>2. k.receiving =
            IF ev.from = me /\ t = "merge" THEN Zero
            ELSE IF ev.to = me /\ t \in Credits THEN Plus(h.receiving, ev.credit)
            ELSE h.receiving
    BY <1>1, <1>4, ReplayedOne DEF Named
  <2> QED BY <2>1, <2>2
\* A new account starts where the replay starts.
<1>11. t = "register" =>
         /\ h.spendable = account[me].spendable /\ h.receiving = account[me].receiving
         /\ \A e \in Escrows : h.pending[e] = Unknown /\ allowance[me][e] = 0
  BY <1>4 DEF Sound, NoHistory, TokenInv, ClosedEmpty
<1>12. h.complete => /\ h.spendable = account[me].spendable
                     /\ h.receiving = account[me].receiving /\ h.spendable.v = x
                     /\ \A e \in Escrows : h.pending[e] =
                          IF allowance[me][e] = 0 THEN Unknown ELSE allowance[me][e]
  BY DEF Sound
<1>13. ~h.complete => \A e \in Escrows : h.pending[e] = Unknown
  BY DEF Sound
<1>14. k.complete => k.spendable = account'[me].spendable /\ k.receiving = account'[me].receiving
  <2>1. k.complete => h.spendable = account[me].spendable /\ h.receiving = account[me].receiving
    BY <1>7, <1>11, <1>12
  <2>2. account'[me].spendable =
            IF ev.from # me THEN account[me].spendable
            ELSE IF t = "merge" THEN Plus(account[me].spendable, account[me].receiving)
            ELSE IF t \in Checkpoints THEN ev.after ELSE account[me].spendable
    BY <1>2 DEF MovesBalances
  <2>3. account'[me].receiving =
            IF ev.from = me /\ t = "merge" THEN Zero
            ELSE IF ev.to = me /\ t \in Credits THEN Plus(account[me].receiving, ev.credit)
            ELSE account[me].receiving
    BY <1>2 DEF MovesBalances
  <2> QED BY <1>10, <2>1, <2>2, <2>3
<1>15. ASSUME k.complete, NEW e \in Escrows
       PROVE  k.pending[e] = IF allowance'[me][e] = 0 THEN Unknown ELSE allowance'[me][e]
  <2>1. allowance'[me][e] =
          IF me # ev.from \/ e # ev.with THEN allowance[me][e]
          ELSE IF t = "set_spender" THEN ev.amount
          ELSE IF t \in {"revoke_spender", "spender_transfer"} THEN 0
          ELSE allowance[me][e]
    BY <1>2 DEF MovesAllowances
  <2>2. h.pending[e] = IF allowance[me][e] = 0 THEN Unknown ELSE allowance[me][e]
    BY <1>7, <1>11, <1>12, <1>15
  <2>3. CASE ev.from = me /\ e = ev.with /\ t = "set_spender"
    <3>1. h.complete /\ h.spendable.v = x /\ x - ev.after.v = ev.amount /\ ev.amount # 0
      BY <1>3, <1>4, <1>6, <1>7, <1>12, <1>15, <2>3
    <3>2. k.pending[e] = ev.amount
      BY <1>3, <1>8, <2>3, <3>1
    <3> QED BY <2>1, <2>3, <3>1, <3>2
  <2>4. CASE ~(ev.from = me /\ e = ev.with /\ t = "set_spender")
    BY <1>8, <2>1, <2>2, <2>4
  <2> QED BY <2>3, <2>4
<1>16. ~k.complete => \A e \in Escrows : k.pending[e] = Unknown
  BY <1>7, <1>8, <1>13
<1>17. Sound(me, aged, k)'
  BY <1>1, <1>5, <1>14, <1>15, <1>16 DEF Sound
<1>18. ASSUME NEW row \in k.outgoing PROVE row[1] \in 1 .. (z + 1) /\ row[2] = log'[row[1]].amount
  <2>1. CASE row \in h.outgoing
    <3>1. row[1] \in 1 .. z /\ row[2] = log[row[1]].amount
      BY <2>1 DEF RowsTrue
    <3> QED BY <1>1, <3>1
  <2>2. CASE row \notin h.outgoing
    <3>1. row = <<z + 1, ev.amount>>
      <4>1. CASE /\ ev.from = me /\ t = "transfer" /\ h.complete
                 /\ row = <<z + 1, h.spendable.v - ev.after.v>>
        <5>1. h.spendable.v = x /\ x - ev.after.v = ev.amount
          BY <1>3, <1>4, <1>6, <1>12, <4>1
        <5> QED BY <4>1, <5>1
      <4>2. CASE /\ ev.from = me /\ t = "spender_transfer" /\ h.pending[ev.with] # Unknown
                 /\ row = <<z + 1, h.pending[ev.with]>>
        <5>1. h.complete /\ ev.with \in Escrows /\ allowance[me][ev.with] = ev.amount /\ ev.amount # 0
          BY <1>4, <1>13, <4>2
        <5>2. h.pending[ev.with] = ev.amount
          BY <1>12, <5>1
        <5> QED BY <4>2, <5>2
      <4> QED BY <1>9, <2>2, <4>1, <4>2
    <3> QED BY <1>1, <3>1
  <2> QED BY <2>1, <2>2
<1> QED BY <1>17, <1>18 DEF RowsTrue

\* An event about others leaves the owner's account alone.
LEMMA OthersStep ==
  ASSUME TokenInv, NEW ev \in Event, TokenStep(ev), NEW me \in Users, ~ConcernsMe(me, ev)
  PROVE  /\ account'[me].registered <=> account[me].registered
         /\ account'[me].spendable = account[me].spendable
         /\ account'[me].receiving = account[me].receiving
         /\ \A e \in Escrows : allowance'[me][e] = allowance[me][e]
BY DEF TokenStep, MovesBalances, MovesAllowances, ConcernsMe

\* What is fetched has no gaps.
LEMMA SuffixFetched ==
  ASSUME GapFree, NEW l, NEW i, NEW n, l[i].type \in EventTypes, NEW aged
  PROVE  HasIn(l, aged, n, i) <=> i <= n /\ (i > aged \/ Indexer)
BY DEF GapFree, HasIn

LEMMA EventHistoryInv ==
  ASSUME GapFree, TokenInv, HistoryInv, NEW ev \in Event, TokenStep(ev)
  PROVE  HistoryInv'
<1>1. PICK l, k, z : l = log /\ k = log' /\ z = Len(log)
  OBVIOUS
<1>2. /\ z \in Nat /\ l \in Seq(Event) /\ Len(l) = z /\ Len(k) = z + 1
      /\ k[z + 1] = ev /\ \A i \in 1 .. z : k[i] = l[i] /\ l[i] \in Event
  BY <1>1, LogGrows
<1> SUFFICES ASSUME NEW me \in Users, NEW aged \in Nat, NEW n \in 0 .. (z + 1),
                    NEW h \in [0 .. n -> Hist], IsHistory(h, k, me, aged, n)
             PROVE  RowsTrue(h[n], n)' /\ (n = z + 1 => Sound(me, aged, h[n])')
  BY <1>1, <1>2 DEF HistoryInv
<1>3. PICK m \in 0 .. z : m = IF n <= z THEN n ELSE z
  BY <1>2
<1>4. PICK g \in [0 .. m -> Hist] : g = [i \in 0 .. m |-> h[i]]
  <2>1. \A i \in 0 .. m : h[i] \in Hist
    BY <1>2, <1>3
  <2>2. [i \in 0 .. m |-> h[i]] \in [0 .. m -> Hist]
    BY <2>1
  <2> QED BY <2>2
<1>5. IsHistory(g, l, me, aged, m)
  <2>1. ASSUME NEW i \in 1 .. m
        PROVE  g[i] = IF HasIn(l, aged, m, i) /\ ConcernsMe(me, l[i])
                      THEN Replayed(me, g[i - 1], i, l[i]) ELSE g[i - 1]
    <3>1. i \in 1 .. n /\ i \in 1 .. z /\ g[i] = h[i] /\ g[i - 1] = h[i - 1] /\ k[i] = l[i]
      BY <1>2, <1>3, <1>4
    <3>2. h[i] = IF HasIn(k, aged, n, i) /\ ConcernsMe(me, k[i])
                 THEN Replayed(me, h[i - 1], i, k[i]) ELSE h[i - 1]
      BY <3>1 DEF IsHistory
    <3>3. HasIn(k, aged, n, i) <=> HasIn(l, aged, m, i)
      BY <1>2, <1>3, <3>1 DEF HasIn
    <3> QED BY <3>1, <3>2, <3>3
  <2>2. g[0] = NoHistory
    BY <1>3, <1>4 DEF IsHistory
  <2> QED BY <2>1, <2>2 DEF IsHistory
<1>6. /\ h[m] = g[m] /\ h[m] \in Hist /\ RowsTrue(h[m], m)
      /\ m = z => Sound(me, aged, h[m])
  <2>1. h[m] = g[m] /\ h[m] \in Hist
    BY <1>2, <1>3, <1>4
  <2>2. RowsTrue(g[m], m) /\ (m = z => Sound(me, aged, g[m]))
    BY <1>1, <1>2, <1>3, <1>5 DEF HistoryInv
  <2> QED BY <2>1, <2>2
<1>7. RowsTrue(h[m], m)' /\ RowsTrue(h[m], z + 1)'
  <2>1. ASSUME NEW row \in h[m].outgoing
        PROVE  row[1] \in 1 .. m /\ row[1] \in 1 .. (z + 1) /\ row[2] = k[row[1]].amount
    <3>1. row[1] \in 1 .. m /\ row[2] = l[row[1]].amount
      BY <1>1, <1>6 DEF RowsTrue
    <3> QED BY <1>2, <1>3, <3>1
  <2> QED BY <1>1, <2>1 DEF RowsTrue
<1>8. CASE n <= z
  <2>1. n = m /\ n # z + 1
    BY <1>2, <1>3, <1>8
  <2> QED BY <1>7, <2>1
<1>9. CASE n = z + 1
  <2>1. m = z /\ n \in 1 .. n /\ n - 1 = m
    BY <1>2, <1>3, <1>9
  <2>2. h[n] = IF HasIn(k, aged, n, n) /\ ConcernsMe(me, ev)
               THEN Replayed(me, h[m], n, ev) ELSE h[m]
    BY <1>2, <1>9, <2>1 DEF IsHistory
  <2>3. HasIn(k, aged, n, n) <=> (n > aged \/ Indexer)
    <3>1. k[n].type \in EventTypes
      BY <1>2, <1>9, EventFields
    <3>2. HasIn(k, aged, n, n) <=> n <= n /\ (n > aged \/ Indexer)
      BY <3>1, SuffixFetched
    <3> QED BY <3>2
  <2>4. Sound(me, aged, h[m]) /\ RowsTrue(h[m], z)
    BY <1>6, <2>1
  <2>5. CASE ConcernsMe(me, ev) /\ (n > aged \/ Indexer)
    <3>1. h[n] = Replayed(me, h[m], z + 1, ev) /\ (Indexer \/ z + 1 > aged)
      BY <1>9, <2>2, <2>3, <2>5
    <3>2. PICK a, b : a = h[m] /\ b = h[n]
      OBVIOUS
    <3>3. a \in Hist /\ Sound(me, aged, a) /\ RowsTrue(a, z) /\ b = Replayed(me, a, z + 1, ev)
      BY <1>6, <2>4, <3>1, <3>2
    <3>4. Sound(me, aged, b)' /\ RowsTrue(b, z + 1)'
      BY <1>1, <2>5, <3>1, <3>3, OwnStep
    <3> QED BY <1>9, <3>2, <3>4
  <2>6. CASE ~(ConcernsMe(me, ev) /\ (n > aged \/ Indexer))
    <3>1. h[n] = h[m]
      BY <2>2, <2>3, <2>6
    <3>2. Sound(me, aged, h[m])'
      <4>1. CASE ConcernsMe(me, ev)
        <5>1. account'[me].registered
          BY EventFields, <4>1 DEF TokenStep, Tells, MovesBalances, ConcernsMe
        <5>2. ~h[m].complete
          BY <1>1, <1>2, <1>9, <2>4, <2>6, <4>1 DEF Sound
        <5> QED BY <2>4, <5>1, <5>2 DEF Sound
      <4>2. CASE ~ConcernsMe(me, ev)
        <5>1. /\ account'[me].registered <=> account[me].registered
              /\ account'[me].spendable = account[me].spendable
              /\ account'[me].receiving = account[me].receiving
              /\ \A e \in Escrows : allowance'[me][e] = allowance[me][e]
          BY <4>2, OthersStep
        <5>2. (Indexer \/ Len(log) > aged) => (Indexer \/ Len(log') > aged)
          BY <1>1, <1>2
        <5> QED BY <2>4, <5>1, <5>2 DEF Sound
      <4> QED BY <4>1, <4>2
    <3> QED BY <1>7, <1>9, <3>1, <3>2
  <2> QED BY <2>5, <2>6
<1>10. n <= z \/ n = z + 1
  BY <1>2
<1> QED BY <1>8, <1>9, <1>10

LEMMA NextHistoryInv ==
  ASSUME GapFree PROVE TokenInv /\ HistoryInv /\ [Next]_vars => HistoryInv'
<1> SUFFICES ASSUME TokenInv, HistoryInv, [Next]_vars PROVE HistoryInv'
  OBVIOUS
<1>1. CASE \E ev \in Event : TokenStep(ev)
  BY <1>1, EventHistoryInv
<1>2. CASE account' = account /\ log' = log /\ allowance' = allowance
  BY <1>2 DEF HistoryInv, Sound, RowsTrue
<1>3. UNCHANGED vars => account' = account /\ log' = log /\ allowance' = allowance
  BY DEF vars
<1>4. \A id \in AuditorIds, key \in Keys :
        SetKey(id, key) => account' = account /\ log' = log /\ allowance' = allowance
  BY DEF SetKey
<1> QED BY <1>1, <1>2, <1>3, <1>4, NextTold

\* Opening, funding and merging an account, as the owner's list replays it.
OpensFor(me, ev) ==
  ev.type \in {"register", "deposit", "merge"} /\ ev.from = me /\ ev.to = me
Begun(h, ev, k) ==
  /\ k \in Hist /\ (k.complete <=> (h.complete \/ ev.type = "register"))
  /\ (\A e \in Escrows : k.pending[e] = h.pending[e]) /\ k.outgoing = h.outgoing
  /\ k.spendable = IF ev.type = "merge" THEN Plus(h.spendable, h.receiving) ELSE h.spendable
  /\ k.receiving = IF ev.type = "merge" THEN Zero
       ELSE IF ev.type = "deposit" THEN Plus(h.receiving, ev.credit) ELSE h.receiving
LEMMA OpeningReplayed ==
  ASSUME NEW me \in Users, NEW h \in Hist, NEW i \in Nat, NEW ev \in Event, OpensFor(me, ev)
  PROVE  Begun(h, ev, Replayed(me, h, i, ev))
<1> USE DEF OpensFor
<1>1. Named(ev)
  BY DEF Named
<1>2. PICK k : k = Replayed(me, h, i, ev)
  OBVIOUS
<1>3. /\ Inferred(me, h, i, ev, k)
      /\ k.spendable =
              IF ev.from # me THEN h.spendable
              ELSE IF ev.type = "merge" THEN Plus(h.spendable, h.receiving)
              ELSE IF ev.type \in Checkpoints THEN ev.after ELSE h.spendable
      /\ k.receiving =
              IF ev.from = me /\ ev.type = "merge" THEN Zero
              ELSE IF ev.to = me /\ ev.type \in Credits THEN Plus(h.receiving, ev.credit)
              ELSE h.receiving
  BY <1>1, <1>2, ReplayedOne
<1>4. /\ k \in Hist /\ (k.complete <=> (h.complete \/ ev.type = "register"))
      /\ (\A e \in Escrows : k.pending[e] = h.pending[e]) /\ k.outgoing = h.outgoing
  BY <1>3 DEF Inferred, Pends, Rows
<1>5. k.spendable = IF ev.type = "merge" THEN Plus(h.spendable, h.receiving) ELSE h.spendable
  BY <1>3 DEF Checkpoints
<1>6. k.receiving = IF ev.type = "merge" THEN Zero
              ELSE IF ev.type = "deposit" THEN Plus(h.receiving, ev.credit) ELSE h.receiving
  BY <1>3 DEF Credits
<1> QED BY <1>2, <1>4, <1>5, <1>6 DEF Begun

LEMMA NoHistoryFacts ==
  /\ NoHistory \in Hist /\ NoHistory.spendable = Zero /\ NoHistory.receiving = Zero
  /\ ~NoHistory.complete /\ NoHistory.outgoing = {}
  /\ \A e \in Escrows : NoHistory.pending[e] = Unknown
BY CommitmentOps DEF NoHistory, Hist, Unknown

LEMMA InitHistoryInv ==
  ASSUME GapFree PROVE Init => HistoryInv
<1> SUFFICES ASSUME Init, NEW me \in Users, NEW aged \in Nat, NEW n \in 0 .. Len(log),
                    NEW h \in [0 .. n -> Hist], IsHistory(h, log, me, aged, n)
             PROVE  RowsTrue(h[n], n) /\ (n = Len(log) => Sound(me, aged, h[n]))
  BY DEF HistoryInv
<1>1. PICK w \in Users :
    /\ account = [z \in Users |-> IF z # w THEN NoAccount
                                  ELSE [registered |-> TRUE, auditor |-> PageId,
                                        spendable |-> Unblinded(Balance), receiving |-> Zero]]
    /\ allowance = [z \in Users |-> [e \in Escrows |-> 0]]
    /\ log = <<Entry("register", w, 0, Zero), Entry("deposit", w, Balance, Zero),
               Entry("merge", w, 0, Unblinded(Balance))>>
  BY DEF Init
<1>2. PICK l : l = log
  OBVIOUS
<1>3. Len(l) = 3 /\ Len(log) = 3 /\ \A i \in 1 .. 3 : l[i] \in Event
  BY <1>1, <1>2, InitTokenInv DEF TokenInv, TypeOK
<1>4. /\ l[1].type = "register" /\ l[2].type = "deposit" /\ l[3].type = "merge"
      /\ l[2].credit = Unblinded(Balance)
      /\ \A i \in 1 .. 3 : /\ l[i].from = w /\ l[i].to = w
                           /\ l[i].type \in {"register", "deposit", "merge"}
  BY <1>1, <1>2 DEF Entry
<1>5. /\ n \in 0 .. 3 /\ n \in Nat /\ h[0] = NoHistory
      /\ \A i \in 1 .. n : i \in Nat /\ i \in 1 .. 3 /\ h[i - 1] \in Hist /\ h[i] \in Hist
      /\ \A i \in 1 .. n : h[i] = IF HasIn(l, aged, n, i) /\ ConcernsMe(me, l[i])
                                  THEN Replayed(me, h[i - 1], i, l[i]) ELSE h[i - 1]
  BY <1>2, <1>3 DEF IsHistory
<1>6. \A i \in 1 .. 3 : ConcernsMe(me, l[i]) <=> me = w
  BY <1>4 DEF ConcernsMe
<1>7. CASE me # w
  <2>1. \A i \in 1 .. n : h[i] = h[i - 1]
    BY <1>5, <1>6, <1>7
  <2>2. h[n] = NoHistory
    BY <1>5, <2>1
  <2>3. ~account[me].registered
    BY <1>1, <1>7 DEF NoAccount
  <2> QED BY <2>2, <2>3, NoHistoryFacts DEF RowsTrue, Sound
<1>8. CASE me = w
  <2>1. ASSUME NEW i \in 1 .. n
        PROVE  /\ h[i].outgoing = h[i - 1].outgoing
               /\ \A e \in Escrows : h[i].pending[e] = h[i - 1].pending[e]
               /\ h[i].complete => h[i - 1].complete \/ (i = 1 /\ HasIn(l, aged, n, 1))
    <3>1. /\ l[i] \in Event /\ l[i].type \in {"register", "deposit", "merge"}
          /\ l[i].from = me /\ l[i].to = me /\ (l[i].type = "register" => i = 1)
          /\ i \in Nat /\ h[i - 1] \in Hist
      BY <1>3, <1>4, <1>5, <1>8
    <3>2. CASE HasIn(l, aged, n, i)
      <4>1. h[i] = Replayed(me, h[i - 1], i, l[i])
        BY <1>5, <1>6, <1>8, <3>2
      <4>2. Begun(h[i - 1], l[i], h[i])
        BY <3>1, <4>1, OpeningReplayed DEF OpensFor
      <4> QED BY <3>1, <3>2, <4>2 DEF Begun
    <3>3. CASE ~HasIn(l, aged, n, i)
      BY <1>5, <3>3
    <3> QED BY <3>2, <3>3
  <2>2. \A i \in 1 .. n : h[i].outgoing = h[i - 1].outgoing
    BY <2>1
  <2>3. h[n].outgoing = {}
    BY <1>5, <2>2, NoHistoryFacts
  <2>4. ASSUME n = 3 PROVE Sound(me, aged, h[3])
    <3>1. \A e \in Escrows : h[3].pending[e] = Unknown
      <4>1. ASSUME NEW e \in Escrows PROVE h[3].pending[e] = Unknown
        <5>1. /\ h[1].pending[e] = h[0].pending[e] /\ h[2].pending[e] = h[1].pending[e]
              /\ h[3].pending[e] = h[2].pending[e]
          BY <2>1, <2>4, 1 - 1 = 0, 2 - 1 = 1, 3 - 1 = 2
        <5> QED BY <1>5, <5>1, NoHistoryFacts
      <4> QED BY <4>1
    <3>2. /\ account[me].registered /\ account[me].spendable = Unblinded(Balance)
          /\ account[me].receiving = Zero
          /\ \A e \in Escrows : allowance[me][e] = 0
      BY <1>1, <1>8
    <3>3. ASSUME h[3].complete
          PROVE  /\ Indexer \/ Len(log) > aged
                 /\ h[3].spendable = Unblinded(Balance) /\ h[3].receiving = Zero
      <4>1. HasIn(l, aged, 3, 1)
        <5>1. /\ h[1].complete => h[0].complete \/ HasIn(l, aged, n, 1)
              /\ h[2].complete => h[1].complete
              /\ h[3].complete => h[2].complete
          BY <2>1, <2>4, 1 - 1 = 0, 2 - 1 = 1, 3 - 1 = 2
        <5> QED BY <1>5, <2>4, <3>3, <5>1, NoHistoryFacts
      <4>2. \A i \in 1 .. 3 : HasIn(l, aged, 3, i)
        <5>1. \A i \in 1 .. 3 : l[i].type \in EventTypes
          BY <1>4, EventTypeNames
        <5>2. \A i \in 1 .. 3 : HasIn(l, aged, 3, i) <=> i <= 3 /\ (i > aged \/ Indexer)
          BY <5>1, SuffixFetched
        <5> QED BY <4>1, <5>2
      <4>3. /\ h[1] = Replayed(me, h[0], 1, l[1]) /\ h[2] = Replayed(me, h[1], 2, l[2])
            /\ h[3] = Replayed(me, h[2], 3, l[3])
            /\ h[0] \in Hist /\ h[1] \in Hist /\ h[2] \in Hist
        BY <1>5, <1>6, <1>8, <2>4, <4>2, 1 - 1 = 0, 2 - 1 = 1, 3 - 1 = 2
      <4>4. /\ l[1] \in Event /\ l[1].from = me /\ l[1].to = me /\ l[1].type = "register"
            /\ l[2] \in Event /\ l[2].from = me /\ l[2].to = me /\ l[2].type = "deposit"
            /\ l[3] \in Event /\ l[3].from = me /\ l[3].to = me /\ l[3].type = "merge"
        BY <1>3, <1>4, <1>8
      <4>4a. Begun(h[0], l[1], h[1]) /\ Begun(h[1], l[2], h[2]) /\ Begun(h[2], l[3], h[3])
        BY <4>3, <4>4, OpeningReplayed DEF OpensFor
      <4>5. h[1].spendable = Zero /\ h[1].receiving = Zero
        BY <1>5, <4>3, <4>4, <4>4a, NoHistoryFacts DEF Begun
      <4>6. Plus(Zero, Zero) = Zero /\ Plus(Zero, Unblinded(Balance)) = Unblinded(Balance)
        <5>1. {} \cup {} = {} /\ 0 + 0 = 0 /\ 0 + Balance = Balance
          OBVIOUS
        <5>2. /\ Zero = [v |-> 0, r |-> {}] /\ Zero.v = 0 /\ Zero.r = {}
              /\ Unblinded(Balance) = [v |-> Balance, r |-> {}]
              /\ Unblinded(Balance).v = Balance /\ Unblinded(Balance).r = {}
          BY DEF Zero, Unblinded
        <5> QED BY <5>1, <5>2 DEF Plus
      <4>7. h[2].spendable = Zero /\ h[2].receiving = Unblinded(Balance)
        BY <1>4, <4>4, <4>4a, <4>5, <4>6 DEF Begun
      <4>8. h[3].spendable = Unblinded(Balance) /\ h[3].receiving = Zero
        BY <4>4, <4>4a, <4>6, <4>7 DEF Begun
      <4>9. Indexer \/ Len(log) > aged
        BY <1>3, <4>1 DEF HasIn
      <4> QED BY <4>8, <4>9
    <3> QED BY <3>1, <3>2, <3>3 DEF Sound
  <2> QED BY <1>3, <2>3, <2>4 DEF RowsTrue
<1> QED BY <1>7, <1>8

\* The owner's replay is a solution of its recursion.
LEMMA HistorySolves ==
  ASSUME TokenInv, NEW me \in Users, NEW r \in Reads
  PROVE  \E f \in [0 .. r[2] -> Hist] :
           IsHistory(f, log, me, r[1], r[2]) /\ History(me, r) = f[r[2]]
<1>1. PICK l, n, aged : l = log /\ n = r[2] /\ aged = r[1]
  OBVIOUS
<1>2. /\ l \in Seq(Event) /\ n \in 0 .. Len(l) /\ aged \in Nat /\ n \in Nat
      /\ \A i \in 1 .. n : l[i] \in Event /\ Named(l[i])
  BY <1>1 DEF Reads, TokenInv, TypeOK, EscrowNamed, Named
<1> DEFINE Step(v, i) == IF HasIn(l, aged, n, i) /\ ConcernsMe(me, l[i])
                         THEN Replayed(me, v, i, l[i]) ELSE v
           g == [i \in 1 .. n |-> [v \in Hist |-> Step(v, i)]]
           Body(f, i) == IF i = 0 THEN NoHistory
                         ELSE IF Has(r, i) /\ ConcernsMe(me, log[i])
                           THEN Apply(me, Infer(me, f[i - 1], i, log[i]), log[i])
                         ELSE f[i - 1]
           Solves(f) == f = [i \in 0 .. r[2] |-> Body(f, i)]
<1>3. ASSUME NEW i \in 1 .. n, NEW v \in Hist PROVE Step(v, i) \in Hist
  <2>1. l[i] \in Event /\ Named(l[i]) /\ i \in Nat
    BY <1>2
  <2>2. Inferred(me, v, i, l[i], Replayed(me, v, i, l[i]))
    BY <2>1, ReplayedOne
  <2> QED BY <2>2 DEF Inferred
<1>4. PICK f \in [0 .. n -> Hist] : f[0] = NoHistory /\ \A i \in 1 .. n : f[i] = g[i][f[i - 1]]
  <2>1. \A i \in 1 .. n : \A v \in Hist : g[i][v] \in Hist
    BY <1>3
  <2> HIDE DEF g
  <2>2. PrefixArguments(n, Hist, NoHistory, g)
    BY <1>2, <2>1, NoHistoryFacts DEF PrefixArguments
  <2> QED BY <2>2, PrefixFold DEF PrefixSpec
<1>5. \A i \in 1 .. n : f[i] = Step(f[i - 1], i)
  <2>1. \A i \in 1 .. n : f[i - 1] \in Hist
    BY <1>2, <1>4
  <2> QED BY <1>4, <2>1
<1>6. Solves(f)
  <2>1. \A i \in 0 .. n : f[i] = Body(f, i)
    BY <1>1, <1>2, <1>4, <1>5 DEF Has, HasIn, Replayed
  <2> QED BY <1>1, <1>4, <2>1
<1>7. PICK h : h = CHOOSE x : Solves(x)
  OBVIOUS
<1>8. Solves(h)
  <2> HIDE DEF Solves
  <2> QED BY <1>6, <1>7
<1>9. h[0] = NoHistory
  BY <1>1, <1>2, <1>8
<1>10. ASSUME NEW i \in 1 .. n PROVE h[i] = Step(h[i - 1], i)
  <2>1. i \in 0 .. r[2] /\ i # 0
    BY <1>1, <1>2
  <2>2. h[i] = Body(h, i)
    BY <1>8, <2>1
  <2> QED BY <1>1, <2>1, <2>2 DEF Has, HasIn, Replayed
<1> DEFINE P == {i \in Nat : i <= n => h[i] \in Hist}
<1>11. 0 \in P
  BY <1>9, NoHistoryFacts
<1>12. ASSUME NEW i \in Nat, i \in P PROVE i + 1 \in P
  <2>1. CASE i + 1 <= n
    <3>1. i + 1 \in 1 .. n /\ (i + 1) - 1 = i /\ h[i] \in Hist
      BY <1>2, <1>12, <2>1
    <3>2. h[i + 1] = Step(h[i], i + 1)
      BY <1>10, <3>1
    <3> HIDE DEF Step
    <3> QED BY <1>3, <3>1, <3>2
  <2> QED BY <2>1
<1>13. Nat \subseteq P
  <2> HIDE DEF P
  <2> QED BY <1>11, <1>12, NatSetInduction
<1>14. ASSUME NEW i \in 0 .. n PROVE h[i] \in Hist
  <2>1. i \in P
    BY <1>2, <1>13
  <2> QED BY <2>1
<1>15. h \in [0 .. n -> Hist]
  BY <1>1, <1>8, <1>14
<1>16. IsHistory(h, l, me, aged, n)
  BY <1>9, <1>10 DEF IsHistory
<1>17. History(me, r) = h[r[2]]
  BY <1>7 DEF History
<1> QED BY <1>1, <1>15, <1>16, <1>17

\* Where the events that a reader fetches have no gaps, no amount an owner is
\* shown is false.
THEOREM OwnerRowsAreTrue ==
  ASSUME GapFree PROVE Spec => []OwnerRowsTrue
<1>1. TokenInv /\ HistoryInv => OwnerRowsTrue
  <2> SUFFICES ASSUME TokenInv, HistoryInv, NEW me \in Users, NEW r \in Reads,
                      NEW row \in OwnerRows(me, r)
               PROVE  row[2] = log[row[1]].amount
    BY DEF OwnerRowsTrue
  <2>1. r[1] \in Nat /\ r[2] \in 0 .. Len(log)
    BY DEF Reads, TokenInv, TypeOK
  <2>2. PICK f \in [0 .. r[2] -> Hist] :
          IsHistory(f, log, me, r[1], r[2]) /\ History(me, r) = f[r[2]]
    BY HistorySolves
  <2>3. RowsTrue(f[r[2]], r[2])
    BY <2>1, <2>2 DEF HistoryInv
  <2>4. CASE row \in Published(me, History(me, r))
    BY <2>2, <2>3, <2>4 DEF Published, RowsTrue
  <2>5. CASE row \in Incoming(me, r)
    BY <2>5 DEF Incoming, Fetched, Credits, TokenInv, CreditsTrue
  <2>6. CASE row \in Opening(me, r, Published(me, History(me, r)))
    BY <2>6 DEF Opening, Fetched
  <2> QED BY <2>4, <2>5, <2>6 DEF OwnerRows
<1>2. Init => HistoryInv
  BY InitHistoryInv
<1>3. TokenInv /\ HistoryInv /\ [Next]_vars => HistoryInv'
  BY NextHistoryInv
<1> QED BY <1>1, <1>2, <1>3, Invariance, PTL DEF Spec
=============================================================================

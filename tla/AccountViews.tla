---------------------------- MODULE AccountViews ----------------------------
(***************************************************************************)
(* What two readers make of the token's events: the auditor, whose page    *)
(* decrypts the auditor channels with one secret and keeps a running       *)
(* balance of every account (packages/app/app/auditor/page.tsx, packages/  *)
(* sdk/src/auditor/decrypt.ts), and an owner, whose activity list infers   *)
(* the amounts of outgoing payments from successive checkpoints (state/    *)
(* engine.ts discloseHistoryAmounts, app/wallet/events-panel.tsx).  Keys   *)
(* of the registry are registered and rotated by its manager meanwhile.    *)
(***************************************************************************)
EXTENDS Commitments, Sequences

CONSTANTS
  Users,
  Escrows,     \* spenders
  AuditorIds,  \* ids of the auditor registry
  PageId,      \* the id of the deployment
  Keys,        \* auditor keys
  NoKey,
  PageKey,     \* the key whose secret the auditor's page holds
  Amounts,     \* bound: amounts of payments
  Indexer,     \* a Goldsky indexer is configured
  Served,      \* event types the indexer's pipeline selects
  Balance,     \* bound: what the first user has deposited and merged
  MaxEvents    \* bound: number of events

EventTypes == {"register", "deposit", "merge", "withdraw", "transfer",
               "set_spender", "revoke_spender", "spender_transfer"}

ASSUME ViewsAssumption ==
  /\ PageId \in AuditorIds /\ PageKey \in Keys /\ NoKey \notin Keys
  /\ Amounts \subseteq Nat \ {0}
  /\ Indexer \in BOOLEAN /\ Served \subseteq EventTypes
  /\ {Balance, MaxEvents} \subseteq Nat

VARIABLES
  account,    \* the token's accounts
  allowance,  \* what each user has delegated to each escrow, 0 if nothing
  keyOf,      \* the auditor registry
  log         \* the token's events

vars == <<account, allowance, keyOf, log>>

NoAccount == [registered |-> FALSE, auditor |-> 0, spendable |-> Zero, receiving |-> Zero]

\* `after` is the checkpoint of the owner's spendable balance, keyS and keyR
\* are the keys the two auditor channels are encrypted under.
Event == [type : EventTypes, from : Users, to : Users, with : Escrows \cup {NoKey},
          amount : Nat, after : Commitment, credit : Commitment,
          keyS : Keys \cup {NoKey}, keyR : Keys \cup {NoKey}]

Entry(type, u, v, after) ==
  [type |-> type, from |-> u, to |-> u, with |-> NoKey, amount |-> v, after |-> after,
   credit |-> IF type = "deposit" THEN Unblinded(v) ELSE Zero, keyS |-> NoKey, keyR |-> NoKey]

\* The deployment registers one key; somebody has opened an account, deposited
\* and merged.
Init ==
  \E u \in Users :
    /\ keyOf = [id \in AuditorIds |-> IF id = PageId THEN PageKey ELSE NoKey]
    /\ account = [w \in Users |-> IF w # u THEN NoAccount
                                  ELSE [registered |-> TRUE, auditor |-> PageId,
                                        spendable |-> Unblinded(Balance), receiving |-> Zero]]
    /\ allowance = [w \in Users |-> [e \in Escrows |-> 0]]
    /\ log = <<Entry("register", u, 0, Zero), Entry("deposit", u, Balance, Zero),
               Entry("merge", u, 0, Unblinded(Balance))>>

-----------------------------------------------------------------------------
(* The registry and the token.  Every event draws a salt of its own.       *)

\* register_key: an id is given a key once; rotate_key: it gets another.
SetKey(id, key) ==
  /\ keyOf[id] # key
  /\ keyOf' = [keyOf EXCEPT ![id] = key]
  /\ UNCHANGED <<account, allowance, log>>

Salt == Len(log) + 1
KeyOf(u) == keyOf[account[u].auditor]

\* The keys are those of the registry when the call is made.
Emit(type, from, to, with, v, credit) ==
  /\ Len(log) < MaxEvents
  /\ log' = Append(log,
       [type |-> type, from |-> from, to |-> to, with |-> with, amount |-> v,
        after |-> account'[from].spendable, credit |-> credit,
        keyS |-> IF type \in {"withdraw", "transfer", "spender_transfer"} THEN KeyOf(from) ELSE NoKey,
        keyR |-> IF type \in {"transfer", "spender_transfer"} THEN KeyOf(to) ELSE NoKey])
  /\ UNCHANGED keyOf

Register(u, id) ==
  /\ ~account[u].registered /\ keyOf[id] # NoKey
  /\ account' = [account EXCEPT ![u].registered = TRUE, ![u].auditor = id]
  /\ Emit("register", u, u, NoKey, 0, Zero)
  /\ UNCHANGED allowance

Deposit(u, v) ==
  /\ account[u].registered
  /\ account' = [account EXCEPT ![u].receiving = Plus(@, Unblinded(v))]
  /\ Emit("deposit", u, u, NoKey, v, Unblinded(v))
  /\ UNCHANGED allowance

Merge(u) ==
  /\ account[u].registered
  /\ account' = [account EXCEPT ![u].spendable = Plus(@, account[u].receiving),
                                ![u].receiving = Zero]
  /\ Emit("merge", u, u, NoKey, 0, Zero)
  /\ UNCHANGED allowance

\* The owner proves that it spends v.
Spent(u, v) == [account EXCEPT ![u].spendable = Committed(@.v - v, Salt)]

\* Mutated form of CanSpend: the balance is not compared.
CanSpendAny(u, v) == account[u].registered

CanSpend(u, v) == account[u].registered /\ account[u].spendable.v >= v

Withdraw(u, v) ==
  /\ CanSpend(u, v)
  /\ account' = Spent(u, v)
  /\ Emit("withdraw", u, u, NoKey, v, Zero)
  /\ UNCHANGED allowance

Transfer(from, to, v) ==
  /\ CanSpend(from, v) /\ account[to].registered
  /\ account' = [Spent(from, v) EXCEPT ![to].receiving = Plus(@, CommittedTx(v, {Salt}))]
  /\ Emit("transfer", from, to, NoKey, v, CommittedTx(v, {Salt}))
  /\ UNCHANGED allowance

SetSpender(u, e, v) ==
  /\ CanSpend(u, v) /\ allowance[u][e] = 0
  /\ account' = Spent(u, v)
  /\ allowance' = [allowance EXCEPT ![u][e] = v]
  /\ Emit("set_spender", u, u, e, v, Zero)

RevokeSpender(u, e) ==
  /\ allowance[u][e] > 0
  /\ account' = [account EXCEPT ![u].spendable = Committed(@.v + allowance[u][e], Salt)]
  /\ allowance' = [allowance EXCEPT ![u][e] = 0]
  /\ Emit("revoke_spender", u, u, e, allowance[u][e], Zero)

\* The escrow's release moves the complete allowance.
SpenderTransfer(u, e, to) ==
  LET credit == CommittedTx(allowance[u][e], {Salt})
  IN /\ allowance[u][e] > 0 /\ account[to].registered
     /\ account' = [account EXCEPT ![to].receiving = Plus(@, credit)]
     /\ allowance' = [allowance EXCEPT ![u][e] = 0]
     /\ Emit("spender_transfer", u, to, e, allowance[u][e], credit)

Next ==
  \/ \E id \in AuditorIds, key \in Keys : SetKey(id, key)
  \/ \E u \in Users :
       \/ \E id \in AuditorIds : Register(u, id)
       \/ Merge(u)
       \/ \E v \in Amounts : Deposit(u, v) \/ Withdraw(u, v)
       \/ \E to \in Users, v \in Amounts : Transfer(u, to, v)
       \/ \E e \in Escrows :
            \/ \E v \in Amounts : SetSpender(u, e, v)
            \/ RevokeSpender(u, e)
            \/ \E to \in Users : SpenderTransfer(u, e, to)

Spec == Init /\ [][Next]_vars

-----------------------------------------------------------------------------
(* hybridFetchEvents from the deployment's ledger.  A read is any pair     *)
(* <<aged, n>>: n events had happened, the first `aged` of them had left   *)
(* the RPC's window.                                                       *)

Reads == {r \in (0 .. Len(log)) \X (0 .. Len(log)) : r[1] <= r[2]}

\* What the RPC still has and, of the rest, what the indexer's pipeline selects.
\* A history from Umbra is fetched beside it where one is configured; the union
\* of the two is then a read of which nothing has left the window.
Has(r, i) == i <= r[2] /\ (i > r[1] \/ (Indexer /\ log[i].type \in Served))
Fetched(r) == {i \in DOMAIN log : Has(r, i)}

-----------------------------------------------------------------------------
(* The auditor's page, which decrypts with the secret of PageKey.          *)

Unknown == -1

\* Each channel has a mask of its own.  Under another key it decrypts to a value
\* that is neither what was encrypted nor what the other channel decrypts to.
Garbage == [sender |-> -2, recipient |-> -3]
Opened(channel, key, v) == IF key = PageKey THEN v ELSE Garbage[channel]

\* Of a transfer, a release or a withdrawal.
SenderAmount(ev) == Opened("sender", ev.keyS, ev.amount)
SenderBalance(ev) == Opened("sender", ev.keyS, ev.after.v)
RecipientAmount(ev) == Opened("recipient", ev.keyR, ev.amount)

\* Mutated form of ChannelsAgree: the recipient's amount is trusted if it is in range.
RecipientInRange(ev) == RecipientAmount(ev) >= 0

\* The two amounts are compared, whatever they decrypted to.
ChannelsAgree(ev) == SenderAmount(ev) = RecipientAmount(ev)

\* Mutated form of Folded: the receiving balance is not reset.
FoldedTwice(a) == [a EXCEPT !.spendable = IF @ >= 0 THEN @ + a.receiving ELSE @]

\* A merge, as far as the spendable balance is known.
Folded(a) ==
  [a EXCEPT !.spendable = IF @ >= 0 THEN @ + a.receiving ELSE @, !.receiving = 0]

\* One event of `replay`; set_spender and revoke_spender are not looked at.
Observe(view, ev) ==
  CASE ev.type = "register" -> [view EXCEPT ![ev.from].spendable = 0]
    [] ev.type = "deposit" -> [view EXCEPT ![ev.to].receiving = @ + ev.amount]
    [] ev.type = "merge" -> [view EXCEPT ![ev.from] = Folded(@)]
    [] ev.type = "withdraw" -> [view EXCEPT ![ev.from].spendable = SenderBalance(ev)]
    [] ev.type = "transfer" /\ ChannelsAgree(ev) ->
         [view EXCEPT ![ev.from].spendable = SenderBalance(ev),
                      ![ev.to].receiving = @ + SenderAmount(ev)]
    [] ev.type = "spender_transfer" /\ ChannelsAgree(ev) ->
         [view EXCEPT ![ev.to].receiving = @ + SenderAmount(ev)]
    [] OTHER -> view

AuditorView(r) ==
  LET view[i \in 0 .. r[2]] ==
        IF i = 0 THEN [u \in Users |-> [spendable |-> Unknown, receiving |-> 0]]
        ELSE IF Has(r, i) THEN Observe(view[i - 1], log[i]) ELSE view[i - 1]
  IN view[r[2]]

-----------------------------------------------------------------------------
(* The owner's activity list *)

Checkpoints == {"withdraw", "transfer", "set_spender", "revoke_spender"}
Credits == {"deposit", "transfer", "spender_transfer"}

Apply(me, s, ev) ==
  LET merges == ev.from = me /\ ev.type = "merge"
  IN [s EXCEPT
       !.spendable = IF merges THEN Plus(@, s.receiving)
                     ELSE IF ev.from = me /\ ev.type \in Checkpoints THEN ev.after
                     ELSE @,
       !.receiving = IF merges THEN Zero
                     ELSE IF ev.to = me /\ ev.type \in Credits THEN Plus(@, ev.credit)
                     ELSE @]

\* Mutated form of Counts: deltas count from the first event that was fetched.
CountsAlways(h) == TRUE

\* Deltas count once the account's register event has been seen.
Counts(h) == h.complete

\* Before the i-th event is applied: what its checkpoint tells about the amount.
Infer(me, h, i, ev) ==
  LET delta == h.spendable.v - ev.after.v
      counted == Counts(h) /\ ev.from = me /\ delta >= 0
  IN CASE ev.type = "register" /\ ev.from = me -> [h EXCEPT !.complete = TRUE]
       [] ev.type = "transfer" /\ counted -> [h EXCEPT !.outgoing = @ \cup {<<i, delta>>}]
       [] ev.type = "set_spender" /\ counted -> [h EXCEPT !.pending[ev.with] = delta]
       [] ev.type = "spender_transfer" /\ ev.from = me /\ h.pending[ev.with] # Unknown ->
            [h EXCEPT !.outgoing = @ \cup {<<i, h.pending[ev.with]>>}, !.pending[ev.with] = Unknown]
       [] ev.type = "revoke_spender" /\ ev.from = me -> [h EXCEPT !.pending[ev.with] = Unknown]
       [] OTHER -> h

NoHistory == [spendable |-> Zero, receiving |-> Zero, complete |-> FALSE,
              pending |-> [e \in Escrows |-> Unknown], outgoing |-> {}]
ConcernsMe(me, ev) == me \in {ev.from, ev.to}

History(me, r) ==
  LET h[i \in 0 .. r[2]] ==
        IF i = 0 THEN NoHistory
        ELSE IF Has(r, i) /\ ConcernsMe(me, log[i])
          THEN Apply(me, Infer(me, h[i - 1], i, log[i]), log[i])
        ELSE h[i - 1]
  IN h[r[2]]

\* Inferred amounts are published if the replay ends at the openings of the chain.
Published(me, h) ==
  IF /\ Counts(h)
     /\ h.spendable = account[me].spendable /\ h.receiving = account[me].receiving
  THEN h.outgoing ELSE {}

Incoming(me, r) ==
  {<<i, log[i].credit.v>> : i \in {j \in Fetched(r) :
     log[j].to = me /\ log[j].type \in {"transfer", "spender_transfer"}}}

\* transferAmount, where nothing was published: a sent transfer opens under
\* the auditor key of today, another key gives a value outside the range.
Opening(me, r, published) ==
  {<<i, log[i].amount>> : i \in {j \in Fetched(r) :
     /\ log[j].from = me /\ log[j].type = "transfer"
     /\ \A p \in published : p[1] # j
     /\ log[j].keyS = KeyOf(me)}}

OwnerRows(me, r) ==
  LET published == Published(me, History(me, r))
  IN Incoming(me, r) \cup published \cup Opening(me, r, published)

-----------------------------------------------------------------------------
(* Properties *)

TypeOK ==
  /\ \A u \in Users : /\ {account[u].spendable, account[u].receiving} \subseteq Commitment
                      /\ account[u].registered => account[u].auditor \in AuditorIds
  /\ allowance \in [Users -> [Escrows -> Nat]]
  /\ keyOf \in [AuditorIds -> Keys \cup {NoKey}]
  /\ log \in Seq(Event)

\* No amount of a payment that an owner is shown is false: not after a rotation,
\* between accounts of different auditors, over a history whose beginning is gone,
\* with delegations revoked and renewed in between, or when the balances are read
\* later than the events.
OwnerRowsTrue ==
  \A me \in Users, r \in Reads :
    \A row \in OwnerRows(me, r) : row[2] = log[row[1]].amount

\* Every event from place m on that concerns u is fetched and decrypts.
ReadableFrom(u, r, m) ==
  \A i \in DOMAIN log :
    i >= m /\ ConcernsMe(u, log[i]) =>
      /\ Has(r, i)
      /\ log[i].type = "withdraw" => log[i].keyS = PageKey
      /\ log[i].type \in {"transfer", "spender_transfer"} => ChannelsAgree(log[i])
Readable(u, r) == ReadableFrom(u, r, 1)

\* What u has moved into delegations, and taken back, since the last checkpoint
\* the auditor's page looks at.
Moved(u, sum, ev) ==
  IF ev.from # u THEN sum
  ELSE CASE ev.type \in {"withdraw", "transfer"} -> 0
         [] ev.type = "set_spender" -> sum + ev.amount
         [] ev.type = "revoke_spender" -> sum - ev.amount
         [] OTHER -> sum
Delegated(u) ==
  LET sum[i \in 0 .. Len(log)] == IF i = 0 THEN 0 ELSE Moved(u, sum[i - 1], log[i])
  IN sum[Len(log)]

\* The page's account differs from the token's by no more than the delegations.
DiffersByDelegations(u, r) ==
  LET view == AuditorView(r)[u]
  IN /\ view.receiving = account[u].receiving.v
     /\ view.spendable = account[u].spendable.v + Delegated(u)

\* As long as both channels of every payment agree and nothing has left the
\* services, the page's balances of a registered account are the token's but for
\* the delegations, which its replay does not look at: two channels that agree
\* can be trusted, although keys are registered and rotated between the events.
AuditorExact ==
  \A u \in Users, r \in Reads :
    account[u].registered /\ Readable(u, r) => DiffersByDelegations(u, r)

\* An outgoing payment of u that the page takes a balance from.
Checkpointed(u, ev) == ev.from = u /\ ev.type \in {"withdraw", "transfer"}

\* Whatever the page could not read before, or read as garbage, because it had
\* left the services or was sealed under another key: once it has read a merge of
\* the account, a payment by it, and all there was since the merge, its balances
\* are as good as if it had read everything.
AuditorRecovers ==
  \A u \in Users, r \in Reads, m \in DOMAIN log :
    /\ log[m].type = "merge" /\ log[m].from = u
    /\ \E c \in m .. Len(log) : Checkpointed(u, log[c])
    /\ ReadableFrom(u, r, m)
    => DiffersByDelegations(u, r)
=============================================================================

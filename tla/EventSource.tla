---------------------------- MODULE EventSource ----------------------------
(***************************************************************************)
(* The history one owner's wallet is rebuilt from.  The confidential token *)
(* emits one event per call; `Me` is the account that is followed, `Other` *)
(* everybody else.  Three services serve the events: Stellar RPC (closed   *)
(* ledgers inside its retention window), the Goldsky indexer (everything   *)
(* up to the ledger it has ingested, for the kinds its pipeline selects)   *)
(* and the Umbra account history (a prefix of the account's events).       *)
(***************************************************************************)
EXTENDS Commitments, Sequences

CONSTANTS
  Me, Other,
  Kinds,      \* bound: event types that happen
  Opened,     \* in ledger 2 Me has opened an account and merged one unit
  MaxHead,    \* bound: last ledger that closes
  MaxEvents,  \* bound: number of events
  Umbra,      \* an account history is configured
  Indexer,    \* a Goldsky indexer is configured
  Retention,  \* ledgers the RPC keeps (about seven days)
  MaxLag      \* ledgers the indexer and Umbra may be behind the head

EventTypes == {"register", "deposit", "merge", "withdraw", "transfer",
               "set_spender", "revoke_spender", "spender_transfer"}

ASSUME SourceAssumption ==
  /\ Me # Other
  /\ Kinds \subseteq EventTypes
  /\ {Umbra, Indexer, Opened} \subseteq BOOLEAN
  /\ {MaxHead, MaxEvents, MaxLag} \subseteq Nat
  /\ Opened => MaxHead >= 2 /\ MaxLag >= 1
  /\ Retention \in Nat \ {0}

VARIABLES
  account,   \* the contract's account of Me, the open ledger included
  log,       \* every event so far, in chain order
  truth,     \* truth[n]: the account when ledger n closed
  indexed,   \* last ledger the indexer has ingested
  recorded,  \* number of events Umbra has recorded
  salt       \* salts drawn so far

sourceVars == <<account, log, truth, indexed, recorded, salt>>

\* The owner's account and what its delegations hold.
Account == [registered : BOOLEAN, spendable : Commitment,
            receiving : Commitment, delegated : Nat]
NoAccount == [registered |-> FALSE, spendable |-> Zero, receiving |-> Zero, delegated |-> 0]

\* `checkpoint` is what the owner opens from b_tilde and sigma, `credit` what
\* the recipient opens from v_tilde and the shared secret.
Event == [ledger : Nat, type : EventTypes, from : {Me, Other}, to : {Me, Other},
          checkpoint : Commitment, credit : Commitment]

\* Ledger 1 is the one the deployment records before it deploys the token.
FromLedger == 1
Latest == Len(truth)
Oldest == IF Latest > Retention THEN Latest - Retention + 1 ELSE 1
InLedgers(first, last) == {i \in DOMAIN log : log[i].ledger \in first .. last}

Entry(ledger, type, from, to, after, credit) ==
  [ledger |-> ledger, type |-> type, from |-> from, to |-> to,
   checkpoint |-> after.spendable, credit |-> credit]

Registered == [NoAccount EXCEPT !.registered = TRUE]
Credited == [Registered EXCEPT !.receiving = Unblinded(1)]
Merged == [Registered EXCEPT !.spendable = Unblinded(1)]
OpeningLog == <<Entry(2, "register", Me, Me, Registered, Zero),
                Entry(2, "deposit", Other, Me, Credited, Unblinded(1)),
                Entry(2, "merge", Me, Me, Merged, Zero)>>

SourceInit ==
  /\ IF Opened THEN account = Merged /\ log = OpeningLog /\ truth = <<NoAccount, Merged>>
               ELSE account = NoAccount /\ log = <<>> /\ truth = <<NoAccount>>
  /\ indexed = 1 /\ recorded = 0 /\ salt = 0

-----------------------------------------------------------------------------
(* Token calls, in the open ledger *)

Emit(type, from, to, after, credit, s) ==
  /\ type \in Kinds /\ Len(log) < MaxEvents /\ Latest < MaxHead
  /\ account' = after
  /\ log' = Append(log, Entry(Latest + 1, type, from, to, after, credit))
  /\ salt' = s
  /\ UNCHANGED <<truth, indexed, recorded>>

RegisterMe ==
  /\ ~account.registered
  /\ Emit("register", Me, Me, [account EXCEPT !.registered = TRUE], Zero, salt)

DepositToMe ==
  /\ account.registered
  /\ Emit("deposit", Other, Me,
          [account EXCEPT !.receiving = Plus(@, Unblinded(1))], Unblinded(1), salt)

\* A transfer from another account, or the release of an escrow to Me.
CreditMe(type) ==
  LET credit == CommittedTx(1, {salt + 1})
  IN /\ account.registered
     /\ Emit(type, Other, Me, [account EXCEPT !.receiving = Plus(@, credit)], credit, salt + 1)

MergeMe ==
  /\ account.registered
  /\ Emit("merge", Me, Me,
          [account EXCEPT !.spendable = Plus(@, account.receiving), !.receiving = Zero],
          Zero, salt)

Spends == {"withdraw", "transfer", "set_spender"}

\* Me proves that it spends one unit; what stays is committed under salt s.
Spend(type, to, s, drawn) ==
  LET credit == IF type = "transfer" /\ to = Me THEN CommittedTx(1, {s}) ELSE Zero
  IN /\ account.registered /\ account.spendable.v >= 1
     /\ Emit(type, Me, to,
             [account EXCEPT !.spendable = Committed(@.v - 1, s),
                             !.receiving = Plus(@, credit),
                             !.delegated = IF type = "set_spender" THEN @ + 1 ELSE @],
             credit, drawn)

RevokeMine ==
  /\ account.delegated >= 1
  /\ Emit("revoke_spender", Me, Other,
          [account EXCEPT !.spendable = Committed(@.v + 1, salt + 1), !.delegated = @ - 1],
          Zero, salt + 1)

\* An escrow Me has funded pays somebody else.
ReleaseMine ==
  /\ account.delegated >= 1
  /\ Emit("spender_transfer", Me, Other, [account EXCEPT !.delegated = @ - 1], Zero, salt)

\* Calls made anywhere but in the tabs: by other accounts, by the owner's
\* other browsers and scripts, and those that leave the local state alone.
Elsewhere ==
  \/ RegisterMe \/ DepositToMe \/ MergeMe \/ RevokeMine \/ ReleaseMine
  \/ \E type \in {"transfer", "spender_transfer"} : CreditMe(type)
  \/ \E type \in Spends, to \in {Me, Other} : Spend(type, to, salt + 1, salt + 1)

-----------------------------------------------------------------------------
(* Ledgers and services *)

RecordedLedger ==
  IF recorded = Len(log) THEN Latest ELSE log[recorded + 1].ledger - 1

CloseLedger ==
  /\ Latest < MaxHead
  /\ Indexer => Latest + 1 <= indexed + MaxLag
  /\ Umbra => Latest + 1 <= RecordedLedger + MaxLag
  /\ truth' = Append(truth, account)
  /\ UNCHANGED <<account, log, indexed, recorded, salt>>

\* The pipeline mirrors whole ledgers into Postgres, behind the head.
Ingest ==
  /\ Indexer /\ indexed < Latest
  /\ indexed' = indexed + 1
  /\ UNCHANGED <<account, log, truth, recorded, salt>>

\* Umbra records one event of a closed ledger.
Record ==
  /\ Umbra /\ recorded < Len(log) /\ log[recorded + 1].ledger <= Latest
  /\ recorded' = recorded + 1
  /\ UNCHANGED <<account, log, truth, indexed, salt>>

SourceTypeOK ==
  /\ account \in Account
  /\ log \in Seq(Event)
  /\ truth \in Seq(Account)
  /\ indexed \in 1 .. Latest
  /\ recorded \in 0 .. Len(log)
  /\ salt \in Nat
=============================================================================

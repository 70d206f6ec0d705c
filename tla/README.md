# Formal model of the confidential escrow

TLA+ modules, TLC configurations and TLAPS proofs for the private-escrow proof of
concept in this repository. Paths are relative to the repository root; module names are
in *italics*.

## 1. The system

A payer locks a private amount for a receiver; an approver releases it. Amounts exist
on chain only as Pedersen commitments, so every spend is a zero-knowledge proof about
the commitment a contract stores at that moment, and every wallet has to rebuild the
*openings* of its own commitments from encrypted events. The system stands on two legs:

1. **On chain**: the escrow contract moves a delegation held by the confidential token;
   circuits say what a proof means.
2. **Off chain**: a browser wallet follows the events of one account through three
   services, caches what it finds, checks it against the chain and spends from it.

| Part | Where | State | Operations | Talks to |
| --- | --- | --- | --- | --- |
| Escrow contract | `contracts/escrow` | one record: parties, token, status | `initialize`, `fund`, `approve_and_release`, `get_escrow` | nested calls into the token |
| Confidential token | `contracts/token` (OpenZeppelin library, external) | public balance, spendable and receiving commitment, delegations | `register`, `deposit`, `merge`, `withdraw`, `confidential_transfer`, `set_spender`, `revoke_spender`, `confidential_transfer_from` | verifier, auditor registry, asset; emits events |
| Circuits | `circuits/*`, `packages/disclosure/circuits/*` | none | constraints of `set_spender`, full release, disclosure | their public inputs are read from contract storage |
| Witness builders, prover | `packages/sdk/src/witness`, `proving` | proving worker | build the statement, prove for seconds to minutes | chain reads before, a transaction after |
| Event source | `packages/sdk/src/chain/{events,event-source,indexer,umbra-history}.ts` | none | fetch a range of ledgers from RPC, indexer, Umbra | HTTP; every answer is an await |
| State engine | `packages/sdk/src/state` | cached openings, RPC cursor, cache version | `sync`, `setSpendable`, `verifyAgainstChain`, `discloseHistoryAmounts` | event source, `localStorage` |
| Wallet | `packages/app/lib/wallet.ts`, `escrow.ts` | keys, provers | register, deposit, merge, transfer, withdraw, fundEscrow, release, history | all of the above |
| Chain client | `packages/sdk/src/chain/client.ts` | none | simulate, `invoke` (send and poll) | RPC |
| Goldsky pipeline, worker | `packages/indexer` | Postgres rows | ingest, page | chain, HTTP |
| Factory | `contracts/factory` | wasm hashes | deploy tokens, policies, escrows | deploys contracts |
| Compliance token, policies | `contracts/token_with_compliance`, `contracts/policies` | frozen accounts, lists | freeze, allow, block, hooks | token |
| Verifier, auditor registries | `contracts/verifier`, `contracts/auditor` | keys by id | set, rotate | token, SDK |
| Disclosure | `packages/sdk/src/disclosure` | none (a request has a nonce) | request, prove, verify | one pinned event |
| Auditor replay | `packages/sdk/src/auditor`, `app/auditor` | per-account values | decrypt, replay | events |
| Directory | `packages/app/lib/active-deployment.tsx` | deployments and escrows in `localStorage` | add, select, toggle, upgrade | pages |
| Pages | `packages/app/app/{escrow,advanced,admin,auditor,verify,wallet}` | what is shown, calls under way | connect, create, resume, fund, release, deploy, freeze, list, disclose | all of the above |

What is hard here, and what makes each part correct:

* **Proof latency.** A proof is about a commitment that may have changed when it arrives;
  it can be sent twice, or through the escrow or the token. *Correct*: value is conserved,
  and nobody but the payer can disturb a funded allowance.
* **Two records of one fact.** The escrow's status and the token's delegation change in
  nested calls. *Correct*: they never disagree about what is locked and what was paid.
* **No time-out in the contract.** The delegation expires, the record does not.
  *Correct*: a possible release is not starved by anything else.
* **Awaits.** Ledgers close, leave the RPC's window and are ingested between two answers
  of one sync; tabs share a cache; pages reload; transactions land after polling has
  given up. *Correct*: what a sync stores are the openings of the commitments the
  contract held at the stored cursor. Everything the owner does depends on that.
* **Order and multiplicity.** A merge does not commute with the deposit before it; the
  same event comes from two services under two names. *Correct*: each once, in order.
* **Histories without a beginning.** The admin page, the auditor's page and the activity
  list replay events that the services may have forgotten in part, under keys that were
  rotated meanwhile. *Correct*: what is missing may be missing on the page too, but no list
  and no amount of the owner's activity is false, and the auditor's balances are the token's,
  but for delegations, over what was readable and again after what was not.
* **Pages that are left.** A call goes on after its page, its deployment or the selected
  escrow has changed, or stops between the two transactions that make an escrow. *Correct*:
  an escrow with roles stays reachable, under the token and with the key it needs, unless
  the deployment of its token was cleared or replaced.
* **Pasted evidence.** A verifier puts a bundle, an event, two accounts and its own request
  together, read at different moments. *Correct*: what it shows is an amount of that event,
  sealed for that request.

The hazards, each with its line and the properties that would catch it, are listed in
`PROJECT.json`; those nothing covers carry a note that says why.

## 2. Modules

The system is cut where its parts meet only through public state: the escrow never reads
a cache, a wallet sees the contracts only through events, the admin page sees two sets only
through their histories. Each part has a specification of its own; what it needs of the
others is in it as events, as answers or as transactions that land or do not.
*Commitments* is shared.

### Escrow over the token

| Module | Models |
| --- | --- |
| *Commitments* | a commitment as the record of what it binds: value and the set of random salts its blinding sums up |
| *ConfidentialToken* | token state, circuits as predicates on proofs, one operator per entry point |
| *Escrow* | escrow instances, provers, every transaction, fairness, properties |
| *EscrowPayment* | what one escrow promises, without proofs, accounts or time |
| *Escrow_proofs*, *Conservation_proofs* | the theorems |
| *DataInduction* | lemmas: induction and recursion over finite sets, sums |
| *MCEscrow* | instances for TLC |

State and code: `escrow[e]` is `StorageKey::Escrow` of `contracts/escrow/src/lib.rs:26-34`
("Absent" before `initialize`); `delegation[u][e]` is the token's `SpenderDelegation`;
`spendable` and `receiving` are the commitments that `parseAccount` reads. `proofs` is not
contract state: it holds every proof built so far, so a later transaction may carry any of
them. `locked` and `paid` are history variables no action reads.

A Soroban transaction is atomic: a guard that fails anywhere, the nested call included,
undoes it, so each transaction is one action and an action that is not enabled is a failed
transaction. `Fund`, for example, is the guards of `lib.rs:140-145`, the authorization of
the payer, the whole nested `set_spender` and the status write. The public inputs that the
contract takes from storage appear as guards (`SpendsCurrent`, `SpendsAllowance`), the
constraints of the circuits as `Accepted`. The provers may prove any statement a circuit
accepts for their keys, not only those the SDK builds.

Authorization is modelled by who an action is for (`escrow[e].payer` etc.); signatures are
assumed sound, and so are proofs: no proof of a false statement exists.

### The wallet's view of the chain

| Module | Models |
| --- | --- |
| *EventSource* | one account's events, closed ledgers, what RPC, indexer and Umbra hold |
| *StateEngine* | tabs that sync, verify, prove, submit and confirm over one shared cache |
| *StateEngine_proofs* | the theorems |
| *MCStateEngine* | instances for TLC |

`log` is the sequence of events in chain order, `truth[n]` the contract's account when
ledger *n* closed; `indexed` and `recorded` are how far indexer and Umbra have come. The
window of the RPC is `Oldest .. Latest`. `cache` is `localStorage`, `tab[t]` the local
variables of the operation running in tab *t*, and `tab[t].pc` the await it stands at:

| `pc` | await | next |
| --- | --- | --- |
| `history` | `fetchAccountHistory` (engine.ts:216) | `FetchHistory` |
| `health` | `getHealth` (event-source.ts:107) | `ReadHealth` |
| `backfill` | a page of `indexer.fetchEvents` (event-source.ts:155) | `BackfillPage` |
| `tail` | `getEvents` pages (events.ts:371) | `FetchTail` |
| `fetched` | `hybridFetchEvents` has returned | `RecoverReleases`, `SyncSave` |
| `verify` | `confidentialBalance` (engine.ts:288) | `Verify`, `Refuse` |
| `prove` | the prover, then simulation and send (client.ts:213-222) | `Submit` |
| `poll` | `getTransaction` (client.ts:229) | `Confirm`, `GiveUp` |

`SyncFails` is an answer that never comes or an HTTP error; `Reload` throws the operation
away anywhere else. A load, modify and save of `localStorage` between two network awaits
runs without another tab in between: the store's promises resolve in the same task. So
does the load of `verifyAgainstChain` after `sync` has saved, which is why `Verify` uses
the state that was just stored. A tab stands for any concurrent flow over the cache: a
refresh started by the page while a spend is proving is a second "tab".

Event payloads are abstracted to the opening their reader recovers: `checkpoint` (from
`b_tilde`, `sigma`) and `credit` (from `v_tilde` and the shared secret). Amounts are one
unit. Events of other accounts are left out, since `apply` ignores them. `syncedLedger` is
left out: it is only displayed.

The backfill is keyset paging: `PageCursor` is the place of the last row received, a page
holds the next `PageSize` rows that are ingested when it is served and below the seam, and
rows arrive between two pages (`BackfillPage`, `packages/indexer/handler/src/db/queries.ts`).

### The admin page over the compliance contracts

| Module | Models |
| --- | --- |
| *Compliance* | a compliant token and its policy, other clients of their owners, the admin page |
| *Compliance_proofs* | the theorems |
| *MCCompliance* | the instance for TLC |

`frozen`, `members`, `registered`, `owner` and `policy` are contract storage
(`contracts/token_with_compliance`, `contracts/policies/*`); `Authorized` is what the hooks
of the token ask of every account, `PolicyAuthorizes` the answer of the two policies. `log`
holds the events of both contracts and `aged` how many of them no service returns any more.
`page` is `app/admin/page.tsx`: its `pc` is `token` or `policy` while `loadLists` awaits one
history after the other (page.tsx:169) and `sent` while `runAction` polls (page.tsx:219).
The services answer in the log's order, so a fetched history is the set of its places in the log,
which `ReplaySet`, the `replaySet` of page.tsx:73, folds from the earliest to the latest.
`GiveUp` is the end of polling: the page forgets its transaction, which lands late or never. For
the contracts that is a call of the owner like those of other clients, so it is one of the
calls of `Elsewhere`, which may come at any moment.
`Remount` is the reset effect (page.tsx:143-167) at any moment, for instance by the toggle of
the top bar and back: it cancels the read of the owner only, so `pc` stays where it is and the
answers of the load or the transaction that is awaited come to the reset page. Connecting is
disabled until the last of them (`busy`), so loads never overlap. The module follows one
deployment; lists of another one that is replaced under its load are not modelled.

### Selective disclosure

| Module | Models |
| --- | --- |
| *Disclosure* | transfers, holders that prove, the verifying page and the browser's storage |
| *Disclosure_proofs* | the theorems |
| *MCDisclosure* | the instance for TLC |

`Accepts` is the two circuits of `packages/disclosure/circuits`. Ciphertexts and proofs are
the record of what went into them, so a proof verifies exactly against the inputs it was
made with; holders make any proof the circuits accept, and the page is given any
combination of circuit, reference, proof and sealed value that exists (`Bundles`).
`PublicInputs` is what `packages/sdk/src/disclosure/verify.ts` assembles; `page.run` holds
what the handler of `app/verify/page.tsx` closed over when the button was pressed, and its
`pc` the await: `resolve` (the event of the reference) or `proof` (the accounts, then the
backend). `identity` and `stored` are `localStorage`; a new request, leaving the page and
switching the deployment may happen at any of them.

### Two readers of the token's events

| Module | Models |
| --- | --- |
| *AccountViews* | token and auditor registry, the auditor's page, an owner's activity list |
| *AccountViews_proofs* | the theorems |
| *MCAccountViews* | instances for TLC |

The actions are the token's calls and `SetKey` (`register_key`, `rotate_key` of
`contracts/auditor`); each event records the keys its two channels were encrypted under.
Both readers are operators over a read `<<aged, n>>`: *n* events had happened and the first
`aged` of them had left the RPC's window. The invariants quantify over all reads of every
state. `AuditorView` is `replay` of `app/auditor/page.tsx`, `ChannelsAgree` the comparison
of the two decrypted amounts in `sdk/src/auditor/decrypt.ts:115,141`, `History` and `Published` are `discloseHistoryAmounts`
(`state/engine.ts`), `Opening` is `transferAmount` (`app/lib/wallet.ts`). Each channel
has a mask of its own, so under another key `Opened` gives the channel's `Garbage`: a value
that is neither what was sealed nor what the other channel decrypts to (an equal value would be
a coincidence of two hashes in the field). The history from Umbra that `fetchAllEvents` merges
into the list (`wallet.ts:371-378`) gives, under the assumption on Umbra below, the read of
which nothing is missing (`aged = 0`), so it needs no reads of its own.

### The browser that drives the escrows

| Module | Models |
| --- | --- |
| *Workflow* | directory, tabs, pages, calls, transactions, the factory; the contracts as roles and status |
| *Workflow_proofs* | the theorems |
| *MCWorkflow* | the instance for TLC |

`store` is `localStorage`, with the directory of the first version (`legacy`) that `Restored`
upgrades; `tab[t]` is the memory of a tab: its deployment toggle, its copy of the directory,
the page, the connected controller or wallet (`agent`) and the escrow state it shows.
`calls` are the asynchronous handlers under way: each keeps the token, account and form
of its click. A call outlives its page (`live` is then false) and vanishes with its tab; its
transaction in `txs` lands whatever became of it. `Deployed` is the `onDeployed` callback of
`SingletonEscrow.create` and what follows it (`app/lib/escrow.ts:64-93`); `Rendered` is the
effects of the escrow pages, which drop the controller of an escrow that is not selected any
more and read the state of the one that is.

## 3. Runs

Each bound is a CONSTANT named in a guard (`MaxSalt`, `MaxLedger`, `MaxHead`, `MaxEvents`,
`MaxDelay`, `MaxLog`, `MaxMade`, `MaxDraws`, `MaxTxs`, `MaxCalls`). They are the smallest at
which the hazards occur: two different splits of a balance, a stale and a current proof, an
expired and a live delegation, a page boundary inside a ledger, a truncated history.

| Run | Question | Bounds |
| --- | --- | --- |
| `escrow` | Can any order of proofs and transactions create value, disturb a funded allowance, release part of it, or starve a release? | one escrow, all circuits, two owner salts, ledgers 0-2 with expiry 1, role assignments that `initialize` must refuse among the proper one |
| `redelegate` | Do two escrows over one token keep the promise of *EscrowPayment* when a proof of one allowance, escrow or receiver meets another? | two escrows with equal or crossed parties, three salts: fund, revoke, delegate again |
| `sync_rpc` | Is the cache exact after each sync, and never ahead of the chain by anything but a confirmed spend? | all eight event types, up to five events, three ledgers |
| `sync_indexer` | Do cold starts, aged-out cursors, pages and a moving window lose or double an event? Does the cache catch up? | six ledgers, window of three, pages of two rows, indexer up to two behind, margin one |
| `sync_umbra` | Is the overlap of Umbra and the RPC tail applied once, with two tabs that spend? | two tabs, one ledger of delay |
| `sync_migrate` | Does the one-time recovery add exactly the ignored releases? | four events, caches of the old version |
| `compliance` | Are the lists of the admin page what the contracts hold, and does its table say what the hooks will do? | one account, two owners, three events, all kinds of deployment, with and without indexer |
| `disclosure` | Is every amount the verifier shows true, and is an honest answer accepted? | two users, two tokens, amounts 1-2, up to two transfers and three transfers and proofs together, an identity and two nonces |
| `views` | Is any amount of the owner's list false, does the auditor's balance drift by more than the delegations, and does it recover after a gap or garbage? | two users, one escrow, two auditor ids and keys, seven events, every read of every history |
| `workflow` | Does an escrow stay reachable, with the right roles and key, through two transactions, timeouts, reloads and switches? | one tab, two escrow addresses, one new token, three transactions, two calls, two ledgers |

All ten hold. In `compliance` one account is enough, since no operation relates two; two
owners, because the page's signer, the token's owner and the policy's owner may differ.

Two more runs check one documented statement each and find it violated:

| Run | Statement | What the code does |
| --- | --- | --- |
| `two_tabs_rpc` | `packages/sdk/src/state/engine.ts:271-272`: a later sync reconciles | the other tab's cursor is past the spend, so the overwritten opening stays |
| `history_gaps` | `engine.ts:133-134`: no inferred amounts from partial history | the pipeline selects no spender events; without a `set_spender` the next checkpoint makes the replay end at the chain's openings all the same, and the transfer is shown with the delegation added |

`two_tabs_rpc` checks the property of the passing sync runs without their assumption of one
flow. No funds are lost in it: `verifyAgainstChain` refuses to spend from such a cache, but
without Umbra the wallet stays refused. `history_gaps` is `views` with the indexer switched on.

Other disagreements with a document need no run to be seen, or lie outside the assumptions
below: `initialize` does not look whether the parties are registered
(`docs/contract-spec.md:67`); a delegation that the payer renews on the token itself after a
revocation is released by the escrow (`docs/contract-spec.md:216`); a second tab stores the
directory it read when it was opened over what the first has added, so that an escrow is not
listed any more (`docs/current-implementation-runbook.md:20`, `active-deployment.tsx:132`;
*Workflow* with two tabs shows it for `EscrowsReachable`); the rows of a ledger come in the
order of ids that are not chain order (`queries.ts:40-41`, `queries.ts:75`); the ledger an indexer
has reached is not compared with the seam (`event-source.ts:46-47`).

**Abandoned tokens.** The browser remembers one advanced deployment. `RedeploySection` clears
it, and a deployment that the wizard saves overwrites it (`active-deployment.tsx:98-118`); from
then on no tab can be switched to the old token, and its escrows, with whatever they hold, are
offered nowhere, although the directory still names them. The comment at
`admin/page.tsx:86-92` says so of the token ("abandoned"), so `EscrowsReachable` excepts the
escrows of such a token (`Abandoned`). The run reaches both cases: an escrow under the saved
token that is offered once a tab is switched to it, and an escrow under a cleared one that is
not. The contract still releases it to an approver who comes by another way.

**Garbage balances.** `withdraw` has one auditor channel, so nothing tells the auditor's page
that it was sealed under another key: the account's balance is garbage until a later payment
opens. `AuditorRecovers` says when the page can be relied on again in any case, a payment it
skipped included: when it has read a merge of the account, a payment after it and the rest.

**Properties.** Each is stated in words where it is defined and has a mutant in
`PROJECT.json`: a plausible bug of the code that breaks it.

| Part | Properties |
| --- | --- |
| Escrow | `ValueConserved`, `InitializedIffRegistered`, `FundedAllowanceIntact`, `ReleasePaysAll`, `ImplementsPayment` (refinement), `ReleaseServed` (liveness) |
| Wallet | `SyncReconciles`, `OptimismIsConfirmed`, `CatchesUp` (liveness) |
| Admin page | `ListsExact`: the lists are the contracts' sets but for accounts whose last change is forgotten; `StatusTellsGate`: with the full history a row says what the hooks will do |
| Disclosure | `DisclosureSound`: a shown amount is that of a real transfer, disclosed by a party of it for this request; `HonestAccepted` |
| Readers | `OwnerRowsTrue`: no false amount; `AuditorExact`: when all was readable and the two channels of every payment agreed, the auditor's balances are the token's plus what is delegated; `AuditorRecovers`: whatever was not readable, they are so again after a merge and a later payment of the account |
| Workflow | `EscrowsReachable`, `ControllerFollows`, `ApproverHoldsKey`, `AskedRoles`, `ColdStartCovers` |

**Assumptions of the passing runs** (constants or guards of the modules, unless a sentence says otherwise):
* the indexer is never so far behind that its last ledger is below the seam
  (`MaxLag` against `Retention` and `SeamMargin`; 60 ledgers are about five minutes);
* it returns the events of a ledger in chain order, and its pipeline selects every type that
  happens (`Served`; the checked-in pipeline selects `register`, `deposit`, `merge`,
  `withdraw`, `transfer` of the types modelled here, so the indexer run has only those);
* Umbra holds a prefix of the account's events and is not behind by a whole window;
* the RPC resumes a cursor as long as the ledger after it is in the window;
* without Umbra there is one flow over the cache, and the directory is used from one tab;
* writes to `localStorage` succeed: the code ignores one that fails
  (`active-deployment.tsx:88-147`), and what was only in memory is then gone with the tab;
* the policy in the token's configuration is the one the deployment names (`StatusTellsGate`
  says so in its premise).

**Fairness.** `Escrow!FairSpec`: the approver, while the escrow is funded, keeps proving
and submitting (weak fairness: nothing the others do disables it, which is the point of
the property). `StateEngine!FairSpec`: ledgers close and are ingested (weak); the owner
keeps refreshing (weak); each service, asked again and again, answers eventually, page by
page, and the browser is not reloaded at each answer (strong, since a failure throws the
whole sync away). Nothing is assumed of submitted transactions, reloads or failures.

**Deadlock.** `escrow`, `redelegate`, `disclosure`, `views` and `history_gaps` switch the
check off: at the bounds of salts, ledgers, events or proofs nothing is left to do. The
sync, compliance and workflow runs check it: a tab can always sync, be opened or be closed.

## 4. Proofs

*Escrow_proofs* proves, for every set of users, escrows and expiries and for every bound:

| Theorem | Statement |
| --- | --- |
| `Invariance` | `Spec => []IInv` |
| `TypeCorrect` | no balance or allowance leaves the naturals |
| `InitializeIsAtomic` | record and token account exist together |
| `AllowanceProtected` | only the payer's revocation takes a funded allowance away |
| `FullReleaseOnly` | a release moves the complete delegation to the configured receiver |
| `Refinement` | each escrow implements *EscrowPayment* |

They rest on the named assumptions of *ConfidentialToken* and *Escrow* (which TLC evaluates
on every run): users and escrows are different addresses, bounds are naturals.

The inductive invariant `IInv` is `TypeOK` and the two state invariants strengthened by
four facts none of which holds alone: delegations exist only between registered accounts
and are empty otherwise (so that `Initialize` finds nothing to release and `TypeOK` of
sums holds), the parties of an initialized escrow are different users (so that the
release moves to somebody else's balance), every proof in flight satisfies its circuit
(so that the rest of a subtraction is a natural number, and of a release zero), and nothing
is paid before the release. One lemma per action proves its preservation; `NextStep`
combines them. The refinement maps the phase to the status, `held` to the value of the
payer's delegation for the escrow and `paid` to the history variable; each action is a
step of *EscrowPayment* or a stutter.

*Disclosure_proofs* proves, for every set of users, tokens and amounts, with or without an
indexer, and for every bound on transfers, proofs and draws:

| Theorem | Statement |
| --- | --- |
| `TypeCorrect` | a page that verifies holds the request and the bundle it was given |
| `ShownIsTrue` | `Spec => []DisclosureSound` |
| `HonestNeverRejected` | `HonestAccepted`: no rejection of an honest answer that is still served |

from `DisclosureAssumption`: amounts and bounds are naturals. `DisclosureSound` is not
inductive: it speaks of the moment after the last of three awaits. What carries it there is
in `IInv`: every proof seals the amount of its own ciphertext (`SealsHold`, from the
circuits), the ciphertext of an event is for the event's recipient (`EventsHold`, from the
token), a run past the resolution names a transfer of the token the button was pressed under
(`CheckedHolds`; the log only grows, so it stays one although others follow and the page is
switched), and a shown result names an event (`ShownExists`). `HonestNeverRejected` follows
from the same facts: an honest proof's inputs are the ones `PublicInputs` assembles, the
recipient named by a sender's proof included.

*Conservation_proofs* proves `Conservation`: `Spec => []ValueConserved` of *Escrow*. The
invariant adds up every balance and delegation, so its step needs sums over sets that the
provers know nothing of. *DataInduction* supplies them. The library's induction theorems
take an operator, which the provers cannot instantiate; stated over a *set* the same
principles can be used: a set that contains zero and every successor contains every number,
a collection that contains a finite set as soon as it contains all the sets with one element
less contains every subset. From these follow that a recursion over the subsets of a finite
set has a solution, what `SumFunctionOnSet` computes, that any element may be taken out
first, and that changing one value changes the sum by as much (`SumUpdate`). The proof then
has one case per operation of the token: what one account loses another one, a delegation
or the outside gains. The strengthening is that only escrows are spenders
(`SpendersAreEscrows`), since the sum counts no other delegations. Users and escrows are
assumed to be finite sets, as accounts of a ledger are.

*Compliance_proofs* proves, for every set of accounts and owners and logs of any length:

| Theorem | Statement |
| --- | --- |
| `TypeCorrect` | the lists of the page hold accounts; what it sends is an owner's |
| `ListsTellTheFlags` | `ListsExact`: a list that was just read holds the flagged accounts whose last change is served |
| `StatusIsTheGate` | `StatusTellsGate`: after a quiet load the table says what the hooks will do |

`ReplayIsMarked` shows what the fold of `replaySet` computes, by induction over the places of
the log: the accounts whose last change is an addition. `TruncatedReplay` then says what
replaying the rest of a truncated log gives. The state those two act on is in `IInv`: the
contracts' sets are what the whole log says (`FlagsLogged`; a change is never silent), the
page's transaction is an owner's (`SentSigned`), and while the policy's events are awaited
the frozen list is still the token's set unless the log has grown or the page was reset and
lists nobody (`FrozenAsRead`, which is what makes the two reads of a load one picture).

*Workflow_proofs* proves, for any number of users, tokens, escrows, tabs and calls:

| Theorem | Statement |
| --- | --- |
| `TypeCorrect` | storage, tabs, calls and transactions keep their shape |
| `ControllersFollow` | `ControllerFollows`: no late answer leaves a controller of another escrow |
| `ApproversHoldKeys` | `ApproverHoldsKey`: a connected approver derives the key the escrow was registered with |
| `InitializationsKept` | `AskedRoles`: competing initializations give each escrow the roles of its page |
| `ColdStartsCover` | `ColdStartCovers`: the recorded ledger is not later than the token's |
| `NoEscrowLost` | with one tab, `EscrowsReachable`: abandoned tokens excepted, a tab opened now can be switched to the escrow's token and offers it |

Few of these are inductive. An approver's controller is made from the directory, the
directory is filled by calls, calls take their escrow from transactions, so the reason why a
controller holds the right key lies in all of them. What carries it is a notion of home:
an escrow is at home under a token when it was deployed by a transaction for that token or its
roles are bound to it, and `OneHome` says that it has one home. Around it, wherever an escrow
is named it is named with its home: by an initialization that was sent (`TxsSound`), by a
call (`CallsSound`), by the stored directory and that of the first version (`StoreSound`), by
the copy and the agent of a tab (`TabsSound`). `RolesDeployed` adds that only deployed
contracts have roles, and `CallsSound` and `StoreSound` that a recorded ledger is not after
the deployment it precedes. `NoEscrowLost` needs more, `ReachInv`: the open tab's copy of the
directory is the stored one, so that writing it back loses nothing, and whatever a call, an
agent or an initialization works on is filed already, under an abandoned token too
(`EscrowsFiled`); `FiledIsOffered` turns that into what a tab can be switched to. Its hypothesis `OneTabOnly` is the
assumption of the run; with two tabs the statement is false, as section 3 says.

*AccountViews_proofs* proves, for every set of users, escrows, auditors and keys, and for
histories and truncations of any length:

| Theorem | Statement |
| --- | --- |
| `Invariance` | the token's bookkeeping `TokenInv` |
| `TypeCorrect` | commitments, delegations, registry and events keep their types |
| `AuditorIsExact` | `AuditorExact`: the page's balances differ from the token's by the delegations only |
| `AuditorsRecover` | `AuditorRecovers`: they do again after whatever could not be read |
| `OwnerRowsAreTrue` | `OwnerRowsTrue`: no amount in an owner's list is false, if nothing fetched has gaps |

Both readers replay the log from its beginning whenever they are asked, whereas the token
extends it by one event at a time. The proofs turn one into the other: `NextTold` reduces
the nine actions to what an event tells of the step that emitted it (`TokenStep`), and the
inductive invariants `AuditorInv` and `HistoryInv` quantify over *all* solutions of a
reader's recursion over the log and over all truncations, so that a step of the token is one
more step of the replay. That the recursions have solutions, which the operators then choose,
is `PrefixFold` of *DataInduction*. `RecoverInv` is the same for a read that is clear from a
merge on only: then the page's receiving balance is the token's, since the merge reset it, and
from the first payment after it on the spendable balance is too, since a checkpoint forgets
what was known before (`CheckpointForgets`) and delegations are counted from it anew.
`AuditorExact` alone is not inductive: `Exact` adds
that an account nobody opened is empty for the page too, and that a balance the page knows
is never negative (or a merge would be dropped). `Sound` says what makes an owner's
inferred amounts right: from the register event on, the replayed balances are the account's
and the pending amount of an escrow is the delegation it holds; before, nothing is pending.
The hypothesis `GapFree` of `OwnerRowsAreTrue`, that there is no indexer or its pipeline
selects every kind of event, is needed: with the pipeline as it is checked in the statement
is false, which is the run `history_gaps`. The proof also shows that without gaps the check
of the final balances in `Published` is not what keeps the rows true.

*StateEngine_proofs* proves, for any number of ledgers, events, pages and tabs:

| Theorem | Statement |
| --- | --- |
| `TypeCorrect` | cache, tabs and transactions keep their types; an uncovered amount never reaches a witness |
| `SyncIsExact` | `Reliable => (Spec => SyncReconciles)`: a sync that completes stores the chain's openings |
| `CacheIsOfTheChain` | `Reliable /\ Single => (Spec => []OptimismIsConfirmed)`: what the cache holds has happened |

`Reliable` says in constants what the runs assume: no cache of the version that ignored
releases; services that cover the history between them (`Covered`: an indexer that selects
every kind and whose lag and the seam's margin fit in the window; or an account history whose
lag and delay are shorter than the window; or a window that holds the whole chain); and a
cache that one tab writes (`Single`) or that no sync reads (Umbra). `sync_rpc`, `sync_indexer`
and `sync_umbra` are instances of its three cases and `two_tabs_rpc` shows that `Single` is needed.

The invariant `SyncInv` refers to a history `f` of the log: `f[k]` is what a replay of its
first *k* events gives, and `ChainFollows` that the contract's account, now and when each
ledger closed, is the `f` of its place. `TabFollows` says at every await which places a tab
stands for. Its openings are those of a place `b` (`BaseAt`): the ledgers up to the cursor, or
what Umbra has answered. What it has fetched is a run of places with no gap after `b`
(`FetchedRun`), which ends, page by page, below the seam and finally with the ledger that will
be the cursor. That the tail begins inside the window is where `Covered` enters
(`WindowCovers`): the indexer is at most `MaxLag` behind, and what Umbra has not recorded is
recent as long as the sync is timely (`OnTime`, `RestIsRecent`). `RunReplay` then shows
that skipping the places already applied leaves the replay of the whole log up to the cursor.
The openings of a cache need not be those of any place: a confirmed spend overwrites the
spendable one. `Near` is what remains true of it: it is the checkpoint of a later spend in the
log, so a replay that passes that spend ends exact all the same. That a confirmed transaction
did land after the cache's ledger (`LandsLater`) follows from its salt, which no earlier event
can have (`LogDrawn`), and is what a second tab over the same cache breaks.

**Assumptions on constants.** Every proof rests only on the named assumptions of the modules,
which TLC evaluates on the instances of the runs: bounds are naturals, users and escrows are
different addresses and finitely many, `None` and `NoOwner` stand for nothing, there is a
form with a third user for the approver of the escrow that existed before.

An account that is open from the beginning (`Opened`) takes two ledgers, and the services
are allowed to be one behind.

**Only model-checked**: liveness under fairness (`ReleaseServed`, `CatchesUp`), which is out
of this prover's reach, and `SyncReconciles` for a cache the version without releases wrote
(`sync_migrate`), which `Reliable` leaves out.

## 5. Not modelled

* Cryptography: fields, curves, hashes, encryption. Commitments are binding and hiding
  by construction of *Commitments*; two commitments are equal if value and salts are.
* Decoding of rows, XDR and errors; the derivation and storage of keys; the worker of the
  prover, which keeps no state between proofs.
* Storage rent and TTL extension: they change no value a contract reads.
* Rotation of verification keys: the idealized proofs have none.
* The gated operations of the compliant token other than `register`: the gate is the same,
  and the operations are those of *ConfidentialToken*.
* Layout and texts of the pages, the receiver's page (a wallet page without state of its
  own) and the command-line scripts (straight-line programs).

## 6. Plan

Done, in this order: the escrow core, the wallet's state engine, paging, the workflow of
the pages with its two-transaction creation, the two readers, compliance, disclosure. What
would come next:

1. `SyncIsExact` for caches of the version without releases: their openings are those of a
   replay that skips the releases, to which the recovery adds them. It holds as long as
   nothing was merged in between, so the invariant needs the kinds of events as a premise.
2. Rotation of verification keys between a proof and its transaction.
3. The order of rows within a ledger and a stalled indexer as constants of *EventSource*,
   once the code gives them a guard that could be checked.

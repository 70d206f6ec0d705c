----------------------------- MODULE Compliance -----------------------------
(***************************************************************************)
(* A compliant token and its policy (contracts/token_with_compliance,      *)
(* contracts/policies) under the admin page that manages them              *)
(* (packages/app/app/admin/page.tsx, sdk/src/chain/admin.ts).  The         *)
(* contracts keep sets; the page knows them only by replaying events, which *)
(* leave the RPC's window unless an indexer keeps them, and by one read of *)
(* the owner.  Other clients of the owner act at the same time.            *)
(***************************************************************************)
EXTENDS Integers, Sequences, FiniteSetsExt

CONSTANTS
  Accounts,   \* accounts that register and are listed
  Deployer,   \* the account that deploys both contracts and owns them first
  Owners,     \* accounts that may come to own the contracts
  NoOwner,    \* no account: a read that failed, nobody connected
  Kinds,      \* bound: kinds of deployment
  Indexed,    \* bound: whether an indexer is configured
  SacDenied,  \* accounts the underlying asset contract does not authorize
  MaxLog      \* bound: events of both contracts

ASSUME ComplianceAssumption ==
  /\ NoOwner \notin Owners /\ Deployer \in Owners
  /\ Kinds \subseteq {"compliance", "allowlist", "blocklist"}
  /\ Indexed \subseteq BOOLEAN
  /\ SacDenied \subseteq Accounts
  /\ MaxLog \in Nat

VARIABLES
  kind,        \* the kind deployed
  indexer,     \* an indexer is configured
  owner,       \* owner of each contract
  policy,      \* the deployed policy is the one in the token's configuration
  registered,  \* accounts open on the token
  frozen,      \* accounts flagged on the token
  members,     \* accounts listed by the policy
  log,         \* events of the two contracts, in chain order
  aged,        \* how many of them the services have forgotten
  page         \* the admin page

contractVars == <<kind, indexer, owner, policy, registered, frozen, members, log>>
vars == <<contractVars, aged, page>>

Contracts == {"token", "policy"}
Ops == {"freeze", "unfreeze", "add", "remove"}
Event == [contract : Contracts, type : {"register"} \cup Ops, account : Accounts]
Tx == [op : Ops, account : Accounts, signer : Owners]

HasPolicy == kind # "compliance"
On(op) == IF op \in {"freeze", "unfreeze"} THEN "token" ELSE "policy"

\* The page before anything is read; `loaded` is the length of the log when
\* the token's events were read, while the policy's are awaited.
NoTx == [op |-> "freeze", account |-> NoOwner, signer |-> NoOwner]
BlankPage == [pc |-> "idle", known |-> FALSE, owner |-> NoOwner, signer |-> NoOwner,
              registered |-> {}, frozen |-> {}, members |-> {}, loaded |-> 0, tx |-> NoTx]

\* The deployer owns both contracts; the configuration names the policy.
Init ==
  /\ kind \in Kinds /\ indexer \in Indexed
  /\ owner = [c \in Contracts |-> Deployer]
  /\ policy = HasPolicy
  /\ registered = {} /\ frozen = {} /\ members = {}
  /\ log = <<>> /\ aged = 0
  /\ page = BlankPage

-----------------------------------------------------------------------------
(* The contracts *)

\* Mutated form of PolicyAuthorizes: the blocklist answers like the allowlist.
AuthorizesListed(a) == a \in members

\* Policy::is_authorized of the two policies.
PolicyAuthorizes(a) == IF kind = "allowlist" THEN a \in members ELSE a \notin members

\* ComplianceHooks: what every operation of an account is gated by.
Authorized(a) ==
  /\ a \notin frozen
  /\ policy => PolicyAuthorizes(a)
  /\ a \notin SacDenied

Emit(contract, type, a) ==
  log' = Append(log, [contract |-> contract, type |-> type, account |-> a])

Register(a) ==
  /\ Len(log) < MaxLog
  /\ a \notin registered /\ Authorized(a)
  /\ registered' = registered \cup {a}
  /\ Emit("token", "register", a)
  /\ UNCHANGED <<kind, indexer, owner, policy, frozen, members>>

\* A flag is set or cleared.  The lists of the policies are idempotent and
\* silent about a change that is none; the library's freeze may repeat itself.
Flag(op, a) ==
  LET adds == op \in {"freeze", "add"}
      set == IF On(op) = "token" THEN frozen ELSE members
      changes == adds # (a \in set)
  IN /\ Len(log) < MaxLog
     /\ frozen' = IF op = "freeze" THEN frozen \cup {a}
                  ELSE IF op = "unfreeze" THEN frozen \ {a} ELSE frozen
     /\ members' = IF op = "add" THEN members \cup {a}
                   ELSE IF op = "remove" THEN members \ {a} ELSE members
     /\ \/ Emit(On(op), op, a) /\ (changes \/ On(op) = "token")
        \/ ~changes /\ UNCHANGED log
     /\ UNCHANGED <<kind, indexer, owner, policy, registered>>

\* #[only_owner], of the contract that is called.
OwnerOnly(tx) == tx.signer = owner[On(tx.op)]

Call(tx) ==
  /\ On(tx.op) = "policy" => HasPolicy
  /\ OwnerOnly(tx)
  /\ Flag(tx.op, tx.account)

\* The owner to whom ownership was offered accepts it.
AcceptOwnership(c, o) ==
  /\ o # owner[c]
  /\ owner' = [owner EXCEPT ![c] = o]
  /\ UNCHANGED <<kind, indexer, policy, registered, frozen, members, log>>

\* set_compliance_config, with the deployed policy or without one.
Configure ==
  /\ HasPolicy /\ policy' = ~policy
  /\ UNCHANGED <<kind, indexer, owner, registered, frozen, members, log>>

\* Without an indexer an event is lost when it leaves the window.
AgeOut ==
  /\ ~indexer /\ aged < Len(log) /\ aged' = aged + 1
  /\ UNCHANGED <<contractVars, page>>

-----------------------------------------------------------------------------
(* The page: `pc` is the await it stands at *)

Becomes(p) == page' = p /\ UNCHANGED <<contractVars, aged>>
IsAdmin(p) == p.signer # NoOwner /\ p.owner = p.signer
\* The effect that loads the lists once an admin is connected.
Loading(p) == IF IsAdmin(p) THEN [p EXCEPT !.pc = "token"] ELSE p

\* get_owner of the token; a failed read is a token without an owner.
ReadOwner ==
  /\ ~page.known
  /\ \E o \in {owner["token"], NoOwner} :
       Becomes(Loading([page EXCEPT !.known = TRUE, !.owner = o]))

Connect(s) ==
  /\ page.pc = "idle" /\ ~IsAdmin(page)
  /\ Becomes(Loading([page EXCEPT !.signer = s]))

\* Mutated form of ReplaySet: removals are not applied.
ReplayAdds(ids, add, remove) == {log[i].account : i \in {i \in ids : log[i].type = add}}

\* One event applied to the set that is rebuilt.
Applied(e, s, add, remove) ==
  IF e.type = add THEN s \cup {e.account}
  ELSE IF e.type = remove THEN s \ {e.account} ELSE s

\* replaySet of the events at the places `ids` of the log, the latest last.
ReplaySet(ids, add, remove) ==
  MapThenFoldSet(LAMBDA e, s : Applied(e, s, add, remove), {},
                 LAMBDA i : log[i], LAMBDA S : Max(S), ids)

\* hybridFetchEvents from the deployment: everything with an indexer, what is
\* left in the window without.  The answer as the places of the events in the
\* log; the services return them in the log's order.
Fetched(contract) == {i \in DOMAIN log : i > aged /\ log[i].contract = contract}

\* Mutated form of RegisteredAccounts: the list holds the events.
RegisterEvents(ids) == {log[i] : i \in {i \in ids : log[i].type = "register"}}

\* registeredAccounts: every account of a register event.
RegisteredAccounts(ids) == {log[i].account : i \in {i \in ids : log[i].type = "register"}}

LoadToken ==
  LET ids == Fetched("token")
  IN /\ page.pc = "token"
     /\ Becomes([page EXCEPT !.pc = IF HasPolicy THEN "policy" ELSE "idle",
          !.registered = RegisteredAccounts(ids),
          !.frozen = ReplaySet(ids, "freeze", "unfreeze"),
          !.loaded = IF HasPolicy THEN Len(log) ELSE 0])

LoadPolicy ==
  /\ page.pc = "policy"
  /\ Becomes([page EXCEPT !.pc = "idle", !.loaded = 0,
       !.members = ReplaySet(Fetched("policy"), "add", "remove")])

\* Either read fails: the error is shown over the lists read before.
LoadFails ==
  /\ page.pc \in {"token", "policy"}
  /\ Becomes([page EXCEPT !.pc = "idle", !.loaded = 0])

Reload == page.pc = "idle" /\ IsAdmin(page) /\ Becomes([page EXCEPT !.pc = "token"])

\* Accounts are added by address, and removed by the button of their row.
Submit(op, a) ==
  /\ page.pc = "idle" /\ IsAdmin(page)
  /\ On(op) = "policy" => HasPolicy
  /\ op = "unfreeze" => a \in page.frozen
  /\ op = "remove" => a \in page.members
  /\ Becomes([page EXCEPT !.pc = "sent", !.tx = [op |-> op, account |-> a, signer |-> page.signer]])

\* runAction: the lists are loaded again after a success only.
Confirmed ==
  /\ page.pc = "sent" /\ Call(page.tx)
  /\ page' = [page EXCEPT !.pc = "token", !.tx = NoTx]
  /\ UNCHANGED aged

Refused == page.pc = "sent" /\ ~OwnerOnly(page.tx) /\ Becomes([page EXCEPT !.pc = "idle", !.tx = NoTx])

\* Polling times out.  The transaction may still land, at any time and once: for the
\* contracts it is then a call of its owner like the others of Elsewhere.
GiveUp == page.pc = "sent" /\ Becomes([page EXCEPT !.pc = "idle", !.tx = NoTx])

\* The toggle of the top bar, away from this deployment and back: lists, owner and
\* signer go.  A load or a transaction that is awaited is not cancelled, its answers
\* come to the reset page, and Connect stays disabled until the last of them.  (The
\* lists of a deployment that was replaced under its load are not modelled.)
Remount == Becomes([BlankPage EXCEPT !.pc = page.pc, !.loaded = page.loaded, !.tx = page.tx])

\* Calls of other clients, and of this page after polling gave up on them.
Elsewhere ==
  /\ \/ \E a \in Accounts : Register(a)
     \/ \E c \in Contracts, o \in Owners : AcceptOwnership(c, o)
     \/ \E a \in Accounts, op \in Ops, o \in Owners :
          Call([op |-> op, account |-> a, signer |-> o])
     \/ Configure
  /\ UNCHANGED <<aged, page>>

Next ==
  \/ Elsewhere \/ AgeOut
  \/ ReadOwner \/ \E s \in Owners : Connect(s)
  \/ LoadToken \/ LoadPolicy \/ LoadFails \/ Reload
  \/ \E op \in Ops, a \in Accounts : Submit(op, a)
  \/ Confirmed \/ Refused \/ GiveUp
  \/ Remount

Spec == Init /\ [][Next]_vars

-----------------------------------------------------------------------------
(* Properties *)

Page == [pc : {"idle", "token", "policy", "sent"}, known : BOOLEAN,
         owner : Owners \cup {NoOwner}, signer : Owners \cup {NoOwner},
         registered : SUBSET Accounts, frozen : SUBSET Accounts, members : SUBSET Accounts,
         loaded : 0 .. MaxLog, tx : Tx \cup {NoTx}]
TypeOK ==
  /\ kind \in Kinds /\ indexer \in BOOLEAN /\ policy \in BOOLEAN
  /\ owner \in [Contracts -> Owners]
  /\ {registered, frozen, members} \subseteq SUBSET Accounts
  /\ log \in Seq(Event) /\ aged \in 0 .. Len(log)
  /\ page \in Page

\* The flag of `a` can be told from the events that are still served.
Told(contract, types, a) ==
  \E i \in DOMAIN log : /\ i > aged
                        /\ log[i].contract = contract /\ log[i].type \in types
                        /\ log[i].account = a

\* The frozen list and the membership list are, when they are read, exactly
\* the contract's sets but for accounts whose last change the services have
\* forgotten: a truncated history never lists an account that is not flagged,
\* nor an order of repeated changes, confirmed, late or made elsewhere.
ListsExact ==
  [][/\ LoadToken => page'.frozen = {a \in frozen : Told("token", {"freeze", "unfreeze"}, a)}
     /\ LoadPolicy => page'.members = {a \in members : Told("policy", {"add", "remove"}, a)}]_vars

\* What the table says of a registered account (page.tsx:378-392).
Status(a) ==
  IF a \in page.frozen THEN "frozen"
  ELSE IF kind = "allowlist" THEN IF a \in page.members THEN "active" ELSE "refused"
  ELSE IF kind = "blocklist" THEN IF a \in page.members THEN "refused" ELSE "active"
  ELSE "active"

\* With the full history, with the deployed policy in force and with nothing
\* changed between the two reads, the table says of each registered account
\* what the hooks of the token will do with its next operation.
QuietLoad ==
  /\ (LoadToken /\ ~HasPolicy) \/ (LoadPolicy /\ page.loaded = Len(log))
  /\ aged = 0 /\ policy = HasPolicy
StatusTellsGate ==
  [][QuietLoad => \A a \in page'.registered \ SacDenied :
                    (Status(a)' = "active") <=> Authorized(a)]_vars
=============================================================================

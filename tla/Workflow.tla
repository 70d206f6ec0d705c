------------------------------ MODULE Workflow ------------------------------
(***************************************************************************)
(* The browser that drives the escrows: the directory of deployments and   *)
(* escrows kept in localStorage (active-deployment.tsx), the pages of the  *)
(* approver and of the payer, the token wizard, and the two transactions   *)
(* that create an escrow (lib/escrow.ts), submitted through the factory    *)
(* and polled by the chain client.  A call keeps running when its page is  *)
(* left and vanishes when its tab closes; its transaction lands anyway.    *)
(* The contracts are reduced to the roles and the status of each escrow:   *)
(* module Escrow has the rest.                                             *)
(***************************************************************************)
EXTENDS Naturals, Sequences, FiniteSets

CONSTANTS
  Users,
  Forms,        \* the <<payer, receiver>> pairs a user types into the form of the approver page
  Default,      \* the token of DEFAULT_DEPLOYMENT
  Fresh,        \* addresses of the tokens the factory can deploy
  Ids,          \* addresses of escrows
  Configured,   \* the escrow of DEFAULT_DEPLOYMENT, or None
  Tabs,
  None,
  MaxTxs,       \* bound: transactions submitted
  MaxCalls,     \* bound: calls of one tab that run at once, left pages' included
  MaxLedger     \* bound: ledgers

VARIABLES
  ledger,   \* the last closed ledger
  born,     \* the ledger each fresh token was deployed in, 0 before
  escrows,  \* what get_escrow answers for each address, None without roles
  deployed, \* escrow contracts that exist
  txs,      \* the transactions, in the order they were sent
  store,    \* localStorage
  tab,      \* the tabs
  calls     \* what the pages started and nobody has awaited to the end

chainVars == <<ledger, born, escrows, deployed>>
vars == <<chainVars, txs, store, tab, calls>>

Tokens == Fresh \cup {Default}
Statuses == {"Initialized", "Funded", "Released"}
Record == [payer : Users, receiver : Users, approver : Users, token : Tokens, status : Statuses]
Deployment == [token : Fresh, since : Nat]
Directory == [known : [Tokens -> SUBSET Ids], selected : [Tokens -> Ids \cup {None}]]
Which == {"default", "advanced"}
Store == [advanced : Deployment \cup {None}, which : Which, directory : Directory,
          legacy : [Tokens -> Ids \cup {None}]]
\* A connected controller or wallet: an account, its deployment and, for the approver, its escrow.
Agent == [user : Users, token : Tokens, escrow : Ids \cup {None}]
Roles == [payer : Users \cup {None}, receiver : Users \cup {None}]
Ops == {"connect", "create", "initialize", "fund", "release", "token"}
Tx == [op : {"deploy_escrow", "deploy_token", "initialize", "fund", "release"},
       user : Users, token : Tokens \cup {None}, escrow : Ids \cup {None}, roles : Roles,
       status : {"sent", "ok"}]
Tab == [open : BOOLEAN, advanced : Deployment \cup {None}, which : Which, directory : Directory,
        page : {"home", "approver", "payer"}, agent : Agent \cup {None},
        shown : Record \cup {None}, reading : SUBSET Ids]
\* A call waits for its transaction, or for Freighter to name an account.
Call == [tab : Tabs, live : BOOLEAN, op : Ops, user : Users \cup {None}, token : Tokens,
         escrow : Ids \cup {None}, roles : Roles, since : Nat, tx : 0 .. MaxTxs]

ASSUME WorkflowAssumption ==
  /\ Forms \subseteq Users \X Users
  /\ Configured \in Ids \cup {None}
  /\ Forms # {} /\ \A f \in Forms : \E w \in Users : w \notin {f[1], f[2]}
  /\ None \notin Users \cup Fresh \cup Ids \cup {Default}
  /\ None \notin Record
  /\ {MaxTxs, MaxCalls} \subseteq Nat /\ MaxLedger \in Nat \ {0}

NoRoles == [payer |-> None, receiver |-> None]
Closed == [open |-> FALSE, advanced |-> None, which |-> "default",
           directory |-> [known |-> [k \in Tokens |-> {}], selected |-> [k \in Tokens |-> None]],
           page |-> "home", agent |-> None, shown |-> None, reading |-> {}]

-----------------------------------------------------------------------------
\* The directory.

\* The token of the deployment a tab serves.
Active(w) == IF w.which = "advanced" /\ w.advanced # None THEN w.advanced.token ELSE Default

\* The escrows the selector of the top bar offers under a token.
TokenEscrows(w, k) ==
  w.directory.known[k] \cup (IF k = Default THEN {Configured} \ {None} ELSE {})

\* The escrow every page works on; a token with known escrows has a selected one.
Selected(w) ==
  LET k == Active(w)
  IN IF w.directory.selected[k] # None THEN w.directory.selected[k]
     ELSE IF k = Default THEN Configured ELSE None

\* A bug: a token the first version knew no escrow of gets an empty one.
UpgradedBlindly(s) ==
  [known    |-> [k \in Tokens |-> s.directory.known[k] \cup {s.legacy[k]}],
   selected |-> [k \in Tokens |-> IF s.directory.selected[k] = None THEN s.legacy[k]
                                  ELSE s.directory.selected[k]]]

\* The directory of the first version named one escrow per token.
Upgraded(s) ==
  [known    |-> [k \in Tokens |-> s.directory.known[k] \cup ({s.legacy[k]} \ {None})],
   selected |-> [k \in Tokens |-> IF s.directory.selected[k] = None THEN s.legacy[k]
                                  ELSE s.directory.selected[k]]]

\* A tab whose provider has read localStorage.
Restored(s) ==
  [Closed EXCEPT !.open = TRUE, !.advanced = s.advanced,
                 !.which = IF s.advanced = None THEN "default" ELSE s.which,
                 !.directory = Upgraded(s)]

\* A bug: the new escrow takes the place of those known before.
Replaced(d, k, e) ==
  [known |-> [d.known EXCEPT ![k] = {e}], selected |-> [d.selected EXCEPT ![k] = e]]

\* An escrow is appended to those of a token, and selected.
Appended(d, k, e) ==
  [known |-> [d.known EXCEPT ![k] = @ \cup {e}], selected |-> [d.selected EXCEPT ![k] = e]]

\* A bug: that of the page when the deployment is confirmed.
FiledUnderShown(c, w) == Active(w)

\* The token an escrow created by a call is filed under: that of the page when it was clicked.
FiledUnder(c, w) == c.token

-----------------------------------------------------------------------------
\* What a page does when it renders: it drops the controller of another escrow and reads the state
\* of the one it now works on.  What it showed stays until the answer comes.

\* A bug: only a controller of another token is dropped.
DropsForeign(w) == w.page = "approver" /\ w.agent # None /\ w.agent.token # Active(w)

DropsController(w) == w.page = "approver" /\ w.agent # None /\ w.agent.escrow # Selected(w)

Rendered(old, new) ==
  LET moved == <<old.page, Active(old), Selected(old)>> # <<new.page, Active(new), Selected(new)>>
      gone == Selected(new) = None
  IN [new EXCEPT !.agent = IF DropsController(new) THEN None ELSE @,
                 !.reading = IF moved /\ new.page # "home" /\ ~gone THEN @ \cup {Selected(new)} ELSE @,
                 !.shown = IF moved /\ gone THEN None ELSE @]

Change(t, new) == tab' = [tab EXCEPT ![t] = Rendered(@, new)]

\* A page is left: of the calls it started, those matter that still have something to store.
Left(t) ==
  LET lasting(c) == c.op = "token" \/ (c.op = "create" /\ c.escrow = None)
  IN {[c EXCEPT !.live = FALSE] : c \in {o \in calls : o.tab = t /\ lasting(o)}}
     \cup {c \in calls : c.tab # t}

\* The buttons of a page are disabled while a call it started runs.
Idle(t) == tab[t].open /\ \A c \in calls : ~(c.tab = t /\ c.live)

-----------------------------------------------------------------------------
\* What somebody made of the escrow that was there before.
OldRecord ==
  LET f == CHOOSE f \in Forms : TRUE
      w == CHOOSE w \in Users : w \notin {f[1], f[2]}
  IN [payer |-> f[1], receiver |-> f[2], approver |-> w, token |-> Default, status |-> "Initialized"]

Init ==
  /\ ledger = 1
  /\ born = [k \in Fresh |-> 0]
  /\ \E old \in Ids :   \* the escrow of the configuration, or of the first version
       /\ Configured \in {old, None}
       /\ deployed = {old}
       /\ escrows = [e \in Ids |-> IF e = old THEN OldRecord ELSE None]
       /\ \E legacy \in {old, None} \ (IF Configured = None THEN {None} ELSE {}) :
            store = [advanced |-> None, which |-> "default", directory |-> Closed.directory,
                     legacy |-> [k \in Tokens |-> IF k = Default THEN legacy ELSE None]]
  /\ txs = <<>>
  /\ tab = [t \in Tabs |-> Closed]
  /\ calls = {}

\* A tab is opened or reloaded: it restores the directory and writes it back upgraded.
Open(t) ==
  /\ ~tab[t].open
  /\ tab' = [tab EXCEPT ![t] = Restored(store)]
  /\ store' = [store EXCEPT !.directory = Upgraded(store)]
  /\ UNCHANGED <<chainVars, txs, calls>>

Close(t) ==
  /\ tab[t].open
  /\ tab' = [tab EXCEPT ![t] = Closed]
  /\ calls' = {c \in calls : c.tab # t}
  /\ UNCHANGED <<chainVars, txs, store>>

\* The user goes to another page: what the old one held is lost, the calls it started run on.
Navigate(t) ==
  /\ tab[t].open
  /\ \E p \in {"home", "approver", "payer"} \ {tab[t].page} :
       tab' = [tab EXCEPT ![t] = Rendered(@, [@ EXCEPT !.page = p, !.agent = None, !.shown = None,
                                                       !.reading = {}])]
  /\ calls' = Left(t)
  /\ UNCHANGED <<chainVars, txs, store>>

\* The toggle of the top bar.
SetWhich(t) ==
  /\ tab[t].open
  /\ \E w \in Which \ {tab[t].which} :
       /\ w = "advanced" => tab[t].advanced # None
       /\ Change(t, [tab[t] EXCEPT !.which = w])
       /\ store' = [store EXCEPT !.which = w]
  /\ UNCHANGED <<chainVars, txs, calls>>

\* The admin page forgets the advanced deployment; it is shown for no other.
ClearAdvanced(t) ==
  /\ tab[t].open /\ tab[t].page = "home"
  /\ Active(tab[t]) # Default
  /\ Change(t, [tab[t] EXCEPT !.advanced = None, !.which = "default"])
  /\ store' = [store EXCEPT !.advanced = None, !.which = "default"]
  /\ UNCHANGED <<chainVars, txs, calls>>

\* Every write stores the whole directory of the tab.  (A write that localStorage refuses is ignored
\* by the code; here every write succeeds.)
SetActiveEscrow(t, k, e) ==
  LET d == Appended(tab[t].directory, k, e)
  IN /\ Change(t, [tab[t] EXCEPT !.directory = d])
     /\ store' = [store EXCEPT !.directory = d]

\* The selector of the top bar, on the escrow pages.
SelectEscrow(t) ==
  /\ tab[t].open /\ tab[t].page # "home"
  /\ \E e \in TokenEscrows(tab[t], Active(tab[t])) :
       SetActiveEscrow(t, Active(tab[t]), e)
  /\ UNCHANGED <<chainVars, txs, calls>>

\* An answer of escrowState is shown whenever it comes; an error reads as "not initialized".
ShowState(t) ==
  /\ \E e \in tab[t].reading : \E r \in {escrows[e], None} :
       tab' = [tab EXCEPT ![t].shown = r, ![t].reading = @ \ {e}]
  /\ UNCHANGED <<chainVars, txs, store, calls>>

-----------------------------------------------------------------------------
\* What the contracts check.

Distinct(x) == Cardinality({x.user, x.roles.payer, x.roles.receiver}) = 3

\* A bug: an escrow can be initialized until it is funded.
NotFunded(x) ==
  /\ x.escrow \in deployed
  /\ escrows[x.escrow] # None => escrows[x.escrow].status = "Initialized"

NotInitialized(x) == x.escrow \in deployed /\ escrows[x.escrow] = None

HasStatus(x, status) ==
  escrows[x.escrow] # None /\ escrows[x.escrow].status = status /\ escrows[x.escrow].token = x.token

Accepts(x) ==
  CASE x.op \in {"deploy_escrow", "deploy_token"} -> TRUE
    [] x.op = "initialize" -> NotInitialized(x) /\ Distinct(x)
    [] x.op = "fund" -> HasStatus(x, "Initialized") /\ escrows[x.escrow].payer = x.user
    [] x.op = "release" -> HasStatus(x, "Funded") /\ escrows[x.escrow].approver = x.user

Tx0(op, c) == [op |-> op, user |-> c.user, token |-> c.token, escrow |-> c.escrow,
               roles |-> c.roles, status |-> "sent"]

\* Bound: no more deployments than addresses are left.
Addresses(x) ==
  LET waiting == Cardinality({i \in DOMAIN txs : txs[i].op = x.op /\ txs[i].status = "sent"})
  IN /\ x.op = "deploy_escrow" => waiting < Cardinality(Ids \ deployed)
     /\ x.op = "deploy_token" => waiting < Cardinality({k \in Fresh : born[k] = 0})

\* A transaction is simulated, signed and sent.  One that the user declines, that cannot be sent or
\* that fails on the chain is one that never lands: what the contracts refuse, they refuse for good.
Send(x) == Len(txs) < MaxTxs /\ Addresses(x) /\ Accepts(x) /\ txs' = Append(txs, x)

-----------------------------------------------------------------------------
\* What the user clicks.  The call keeps the deployment, the agent and the form of that moment.

NewCall(t, op) ==
  [tab |-> t, live |-> TRUE, op |-> op, user |-> None, token |-> Active(tab[t]), escrow |-> None,
   roles |-> NoRoles, since |-> 0, tx |-> 0]

Starts(t, c) ==
  /\ Idle(t)
  /\ Cardinality({o \in calls : o.tab = t}) < MaxCalls
  /\ calls' = calls \cup {c}
  /\ UNCHANGED <<chainVars, store, tab>>

Sends(t, op, c) == Send(Tx0(op, c)) /\ Starts(t, [c EXCEPT !.tx = Len(txs) + 1])

\* The agent acts on an escrow.
Act(t, op, e, roles) ==
  Sends(t, op, [NewCall(t, op) EXCEPT !.user = tab[t].agent.user, !.token = tab[t].agent.token,
                                      !.escrow = e, !.roles = roles])

On(t, page) == tab[t].open /\ tab[t].page = page

\* Roles the form of the approver page lets pass (roleError).
FormRoles(w) ==
  {[payer |-> f[1], receiver |-> f[2]] : f \in
     {f \in Forms : f[1] # f[2] /\ (w.agent # None => w.agent.user \notin {f[1], f[2]})}}

ClickConnect(t) ==
  /\ tab[t].open /\ tab[t].page # "home"
  /\ tab[t].agent = None /\ Selected(tab[t]) # None
  /\ Starts(t, [NewCall(t, "connect") EXCEPT !.escrow = Selected(tab[t])])
  /\ UNCHANGED txs

\* The form is offered when no state is shown, and by a button when one is.
ClickCreate(t) ==
  /\ On(t, "approver")
  /\ \E r \in FormRoles(tab[t]) : \E u \in Users \ {r.payer, r.receiver} :
       Sends(t, "deploy_escrow", [NewCall(t, "create") EXCEPT !.user = u, !.roles = r])

\* "Finish initialization" of an escrow that reads as not initialized.
ClickResume(t) ==
  /\ On(t, "approver")
  /\ Selected(tab[t]) # None /\ tab[t].shown = None /\ tab[t].agent # None
  /\ \E r \in FormRoles(tab[t]) : Act(t, "initialize", tab[t].agent.escrow, r)

ClickRelease(t) ==
  /\ On(t, "approver")
  /\ tab[t].shown # None /\ tab[t].agent # None
  /\ tab[t].shown.status = "Funded" /\ tab[t].shown.approver = tab[t].agent.user
  /\ Act(t, "release", tab[t].agent.escrow, NoRoles)

ClickFund(t) ==
  /\ On(t, "payer")
  /\ tab[t].shown # None /\ tab[t].agent # None /\ Selected(tab[t]) # None
  /\ tab[t].shown.status = "Initialized" /\ tab[t].shown.payer = tab[t].agent.user
  /\ Act(t, "fund", Selected(tab[t]), NoRoles)

\* The wizard reads the head, then deploys with the factory of the default deployment.
ClickDeploy(t) ==
  /\ On(t, "home")
  /\ \E u \in Users :
       Sends(t, "deploy_token", [NewCall(t, "token") EXCEPT !.user = u, !.token = Default,
                                                            !.since = ledger])

-----------------------------------------------------------------------------
\* A transaction reaches a ledger, whether or not anyone still polls for it.

Becomes(i, r) ==
  /\ escrows' = [escrows EXCEPT ![txs[i].escrow] = r]
  /\ txs' = [txs EXCEPT ![i].status = "ok"]
  /\ UNCHANGED <<ledger, born, deployed, store, tab, calls>>

Lands(i, op) == txs[i].op = op /\ txs[i].status = "sent" /\ Accepts(txs[i])

\* The factory deploys at an address of its own for every salt.
LandEscrow(i) ==
  /\ Lands(i, "deploy_escrow")
  /\ \E e \in Ids \ deployed :
       /\ deployed' = deployed \cup {e}
       /\ txs' = [txs EXCEPT ![i].status = "ok", ![i].escrow = e]
  /\ UNCHANGED <<ledger, born, escrows, store, tab, calls>>

LandToken(i) ==
  /\ Lands(i, "deploy_token")
  /\ \E k \in {f \in Fresh : born[f] = 0} :
       /\ born' = [born EXCEPT ![k] = ledger]
       /\ txs' = [txs EXCEPT ![i].status = "ok", ![i].token = k]
  /\ UNCHANGED <<ledger, escrows, deployed, store, tab, calls>>

LandInitialize(i) ==
  /\ Lands(i, "initialize")
  /\ Becomes(i, [payer |-> txs[i].roles.payer, receiver |-> txs[i].roles.receiver,
                 approver |-> txs[i].user, token |-> txs[i].token, status |-> "Initialized"])

LandFund(i) ==
  /\ Lands(i, "fund")
  /\ Becomes(i, [escrows[txs[i].escrow] EXCEPT !.status = "Funded"])

LandRelease(i) ==
  /\ Lands(i, "release")
  /\ Becomes(i, [escrows[txs[i].escrow] EXCEPT !.status = "Released"])

CloseLedger ==
  /\ ledger < MaxLedger
  /\ ledger' = ledger + 1
  /\ UNCHANGED <<born, escrows, deployed, txs, store, tab, calls>>

-----------------------------------------------------------------------------
\* How a call goes on.

Confirmed(c) == c.tx # 0 /\ txs[c.tx].status = "ok"

\* The page, if it is still there, takes over what a call brings.
Delivers(c, new) == IF c.live THEN Change(c.tab, new) ELSE UNCHANGED tab

\* Freighter names the account it has selected.
Connected(c) ==
  /\ c.op = "connect"
  /\ \E u \in Users :
       Delivers(c, [tab[c.tab] EXCEPT !.agent = [user |-> u, token |-> c.token, escrow |-> c.escrow]])
  /\ calls' = calls \ {c}
  /\ UNCHANGED <<chainVars, txs, store>>

\* The deployment of an escrow is confirmed: it is filed, and its initialization is sent.
Deployed(c) ==
  LET d == [c EXCEPT !.escrow = txs[c.tx].escrow, !.tx = Len(txs) + 1]
  IN /\ c.op = "create" /\ c.escrow = None /\ Confirmed(c)
     /\ SetActiveEscrow(c.tab, FiledUnder(c, tab[c.tab]), d.escrow)
     /\ \/ /\ Send(Tx0("initialize", d))
           /\ calls' = (calls \ {c}) \cup (IF c.live THEN {d} ELSE {})
        \/ calls' = calls \ {c} /\ UNCHANGED txs   \* the second request is declined
     /\ UNCHANGED chainVars

\* The last transaction of a call is confirmed: the page reads the escrow again, and a page that
\* created it takes its controller, even if another escrow was selected meanwhile.
Finish(c) ==
  LET read == [tab[c.tab] EXCEPT !.reading = @ \cup {c.escrow}]
  IN /\ c.op \in {"create", "initialize", "fund", "release"} /\ c.escrow # None /\ Confirmed(c)
     /\ Delivers(c, IF c.op = "create"
                    THEN [read EXCEPT !.agent = [user |-> c.user, token |-> c.token, escrow |-> c.escrow]]
                    ELSE read)
     /\ calls' = calls \ {c}
     /\ UNCHANGED <<chainVars, txs, store>>

\* A bug: the head is read when the deployment is saved.
HeadWhenSaved(c) == ledger

\* The first ledger whose events a wallet of the new token reads.
FirstLedger(c) == c.since

\* The wizard saves the token it deployed over the previous one and opens its page.
SaveAdvanced(c) ==
  LET d == [token |-> txs[c.tx].token, since |-> FirstLedger(c)]
  IN /\ c.op = "token" /\ Confirmed(c)
     /\ Change(c.tab, [tab[c.tab] EXCEPT !.advanced = d, !.which = "advanced", !.page = "home",
                         !.agent = None, !.shown = None, !.reading = {}])
     /\ store' = [store EXCEPT !.advanced = d, !.which = "advanced"]
     /\ calls' = Left(c.tab) \ {[c EXCEPT !.live = FALSE]}
     /\ UNCHANGED <<chainVars, txs>>

\* The user declines in Freighter, a service fails, the transaction failed or its confirmation timed
\* out: the page reports the error and forgets the call.
Fail(c) == calls' = calls \ {c} /\ UNCHANGED <<chainVars, txs, store, tab>>

Next ==
  \/ CloseLedger
  \/ \E t \in Tabs :
       \/ Open(t) \/ Close(t) \/ Navigate(t) \/ SetWhich(t) \/ ClearAdvanced(t) \/ SelectEscrow(t)
       \/ ShowState(t)
       \/ ClickConnect(t) \/ ClickCreate(t) \/ ClickResume(t) \/ ClickRelease(t)
       \/ ClickFund(t) \/ ClickDeploy(t)
  \/ \E c \in calls : Connected(c) \/ Deployed(c) \/ Finish(c) \/ SaveAdvanced(c) \/ Fail(c)
  \/ \E i \in DOMAIN txs :
       LandEscrow(i) \/ LandToken(i) \/ LandInitialize(i) \/ LandFund(i) \/ LandRelease(i)

Spec == Init /\ [][Next]_vars

-----------------------------------------------------------------------------
\* The variables hold what their declarations say.
TypeOK ==
  /\ ledger \in 1 .. MaxLedger
  /\ born \in [Fresh -> 0 .. MaxLedger]
  /\ escrows \in [Ids -> Record \cup {None}]
  /\ deployed \subseteq Ids
  /\ txs \in Seq(Tx)
  /\ store \in Store
  /\ calls \subseteq Call
  /\ tab \in [Tabs -> Tab]

\* The deployments a tab can be switched to.
Switched(w) == {[w EXCEPT !.which = x] : x \in {"default"} \cup (IF w.advanced = None THEN {} ELSE Which)}

\* A token of the wizard whose deployment was cleared, or replaced by a later one: the single slot
\* names it no more, and no tab opened now can be switched to it.
Abandoned(k) == k # Default /\ (store.advanced = None \/ store.advanced.token # k)

\* Whatever was switched, left, closed or timed out meanwhile, an escrow that has roles, and may hold
\* money, is offered by a tab opened now once it is switched to the token its roles are bound to:
\* otherwise nobody could select it to release it (active-deployment.tsx setActiveEscrow, escrow.ts
\* create).  Escrows of a token that was abandoned are lost to the app, money and all, and excepted.
EscrowsReachable ==
  \A e \in Ids : escrows[e] # None /\ ~Abandoned(escrows[e].token) =>
    \E w \in Switched(Restored(store)) :
      Active(w) = escrows[e].token /\ e \in TokenEscrows(w, Active(w))

\* "Switching instances disconnects any controller associated with the previous escrow": no answer
\* that comes late leaves the approver page with a controller of an escrow that is not selected.
ControllerFollows ==
  \A t \in Tabs : On(t, "approver") /\ tab[t].agent # None =>
    tab[t].agent.escrow = Selected(tab[t])

\* A connected approver derives the spender key the escrow was registered with, which binds the
\* token of the deployment: with any other token the release could never be proved.
ApproverHoldsKey ==
  \A t \in Tabs : On(t, "approver") /\ tab[t].agent # None =>
    LET r == escrows[tab[t].agent.escrow]
    IN r # None /\ r.approver = tab[t].agent.user => r.token = tab[t].agent.token

\* An initialization that was confirmed gave the escrow the roles its own page asked for, though a
\* creation left running and a resumed one compete for the same contract.
AskedRoles ==
  \A i \in DOMAIN txs : txs[i].op = "initialize" /\ txs[i].status = "ok" =>
    LET r == escrows[txs[i].escrow]
    IN <<r.payer, r.receiver, r.approver, r.token>>
         = <<txs[i].roles.payer, txs[i].roles.receiver, txs[i].user, txs[i].token>>

\* The first sync of a saved deployment starts no later than the ledger its token appeared in, however
\* long the transaction took: it misses no event of it.
ColdStartCovers ==
  store.advanced # None => store.advanced.since <= born[store.advanced.token]
=============================================================================

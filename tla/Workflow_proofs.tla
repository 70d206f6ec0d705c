--------------------------- MODULE Workflow_proofs ---------------------------
(***************************************************************************)
(* Safety of Workflow for any number of tabs, users, tokens, escrows and   *)
(* transactions.                                                           *)
(***************************************************************************)
EXTENDS Workflow, SequenceTheorems, TLAPS

-----------------------------------------------------------------------------
(* The inductive invariant.  What the directories, the agents and the calls *)
(* say of an escrow goes back to the transaction that deployed it: it has   *)
(* one token, its home, for ever.                                           *)

\* The factory deployed e for token k, or e has roles that are bound to k.
Deploys(i, e, k) ==
  /\ txs[i].op = "deploy_escrow" /\ txs[i].status = "ok"
  /\ txs[i].escrow = e /\ txs[i].token = k
Home(e, k) ==
  \/ \E i \in DOMAIN txs : Deploys(i, e, k)
  \/ escrows[e] # None /\ escrows[e].token = k

OneHome ==
  \A e \in Ids : \A k, l \in Tokens : Home(e, k) /\ Home(e, l) => k = l

\* Only what exists has roles.
RolesDeployed == \A e \in Ids : escrows[e] # None => e \in deployed

\* The forms of the page name two users.
FullRoles == [payer : Users, receiver : Users]

\* What a transaction that was sent says, and what one that landed has done.
TxSound(x) ==
  /\ x.op = "deploy_escrow" =>
       /\ x.token \in Tokens
       /\ x.status = "ok" => x.escrow \in deployed
  /\ x.op = "deploy_token" /\ x.status = "ok" => x.token \in Fresh /\ born[x.token] # 0
  /\ x.op = "initialize" =>
       /\ x.escrow \in Ids /\ x.token \in Tokens /\ x.roles \in FullRoles
       /\ Home(x.escrow, x.token)
       /\ x.status = "ok" => escrows[x.escrow] # None
  /\ x.op \in {"fund", "release"} => x.escrow \in Ids
TxsSound == \A i \in DOMAIN txs : TxSound(txs[i])

\* A call knows its transaction.
CallSound(c) ==
  /\ tab[c.tab].open
  /\ c.tx <= Len(txs)
  /\ c.op = "connect" => c.escrow \in Ids /\ Home(c.escrow, c.token)
  /\ c.op = "create" =>
       /\ c.user \in Users /\ c.roles \in FullRoles
       /\ c.escrow = None /\ c.tx # 0
            => txs[c.tx].op = "deploy_escrow" /\ txs[c.tx].token = c.token
       /\ c.escrow # None => Home(c.escrow, c.token)
  /\ c.op = "token" =>
       /\ c.since \in 1 .. ledger
       /\ c.tx # 0 =>
            /\ txs[c.tx].op = "deploy_token"
            /\ txs[c.tx].status = "ok" => c.since <= born[txs[c.tx].token]
CallsSound == \A c \in calls : CallSound(c)

\* The escrows filed under a token are at home there.
AtHome(d) ==
  \A k \in Tokens, e \in Ids : e \in d.known[k] \/ d.selected[k] = e => Home(e, k)

StoreSound ==
  /\ AtHome(store.directory)
  /\ \A k \in Tokens : store.legacy[k] \in Ids => Home(store.legacy[k], k)
  /\ Configured \in Ids => Home(Configured, Default)
  /\ store.advanced # None =>
       store.advanced.since \in 1 .. born[store.advanced.token]

TabSound(w) ==
  /\ AtHome(w.directory)
  /\ w.agent # None => w.agent.escrow \in Ids /\ Home(w.agent.escrow, w.agent.token)
  /\ w.page = "approver" /\ w.agent # None => w.agent.escrow = Selected(w)
TabsSound == \A t \in Tabs : TabSound(tab[t])

IInv ==
  /\ TypeOK
  /\ OneHome
  /\ RolesDeployed
  /\ TxsSound
  /\ AskedRoles
  /\ CallsSound
  /\ StoreSound
  /\ TabsSound

-----------------------------------------------------------------------------
(* The directory *)

LEMMA NoneFacts ==
  /\ None \notin Ids /\ None \notin Users /\ None \notin Tokens /\ None \notin Fresh
  /\ None \notin Record /\ Configured \in Ids \cup {None}
BY WorkflowAssumption DEF Tokens

LEMMA ActiveType ==
  ASSUME NEW w, w.advanced \in Deployment \cup {None} PROVE Active(w) \in Tokens
BY DEF Active, Tokens, Deployment

LEMMA SelectedType ==
  ASSUME NEW w \in Tab
  PROVE  Active(w) \in Tokens /\ Selected(w) \in Ids \cup {None}
<1>1. Active(w) \in Tokens
  BY ActiveType DEF Tab
<1> QED BY <1>1, NoneFacts DEF Selected, Tab, Directory

\* The selected escrow is at home under the token the tab serves.
LEMMA SelectedHome ==
  ASSUME NEW w \in Tab, AtHome(w.directory), Configured \in Ids => Home(Configured, Default),
         Selected(w) # None
  PROVE  Selected(w) \in Ids /\ Home(Selected(w), Active(w))
<1>1. Active(w) \in Tokens /\ Selected(w) \in Ids
  BY SelectedType
<1> QED BY <1>1, NoneFacts DEF Selected, AtHome

\* Rendering changes neither the deployment nor the directory of a tab.
LEMMA RenderedFields ==
  ASSUME NEW old, NEW w \in Tab
  PROVE  /\ Rendered(old, w) \in Tab
         /\ Rendered(old, w).open = w.open
         /\ Rendered(old, w).directory = w.directory
         /\ Rendered(old, w).page = w.page
         /\ Rendered(old, w).agent = IF DropsController(w) THEN None ELSE w.agent
         /\ Active(Rendered(old, w)) = Active(w)
         /\ Selected(Rendered(old, w)) = Selected(w)
<1>1. Selected(w) \in Ids \cup {None}
  BY SelectedType
<1>2. /\ Rendered(old, w) \in Tab
      /\ Rendered(old, w).open = w.open
      /\ Rendered(old, w).advanced = w.advanced
      /\ Rendered(old, w).which = w.which
      /\ Rendered(old, w).directory = w.directory
      /\ Rendered(old, w).page = w.page
      /\ Rendered(old, w).agent = IF DropsController(w) THEN None ELSE w.agent
  BY <1>1 DEF Rendered, Tab
<1> QED BY <1>2 DEF Active, Selected

LEMMA RenderedSound ==
  ASSUME NEW old, NEW w \in Tab, AtHome(w.directory),
         w.agent # None => w.agent.escrow \in Ids /\ Home(w.agent.escrow, w.agent.token)
  PROVE  Rendered(old, w) \in Tab /\ TabSound(Rendered(old, w))
BY RenderedFields DEF TabSound, DropsController

-----------------------------------------------------------------------------
(* Steps of a browser that send nothing *)

\* The chain and the transactions stay, and with them the home of every escrow.
LEMMA QuietChain ==
  ASSUME IInv, UNCHANGED <<chainVars, txs>>
  PROVE  /\ OneHome' /\ RolesDeployed' /\ TxsSound' /\ AskedRoles'
         /\ \A e, k : Home(e, k)' <=> Home(e, k)
<1>1. \A e, k : Home(e, k)' <=> Home(e, k)
  BY DEF Home, Deploys, chainVars
<1>2. OneHome' /\ RolesDeployed' /\ AskedRoles'
  BY <1>1 DEF IInv, OneHome, RolesDeployed, AskedRoles, chainVars
<1>3. TxsSound'
  BY <1>1 DEF IInv, TxsSound, TxSound, chainVars
<1> QED BY <1>1, <1>2, <1>3

\* A call survives as long as its tab, with or without its page.
LEMMA CallKept ==
  ASSUME IInv, UNCHANGED <<chainVars, txs>>, NEW o \in calls, tab'[o.tab].open
  PROVE  CallSound(o)' /\ CallSound([o EXCEPT !.live = FALSE])'
<1> DEFINE q == [o EXCEPT !.live = FALSE]
<1>1. o \in Call /\ CallSound(o)
  BY DEF IInv, TypeOK, CallsSound
<1>2. /\ q.tab = o.tab /\ q.op = o.op /\ q.user = o.user /\ q.token = o.token
      /\ q.escrow = o.escrow /\ q.roles = o.roles /\ q.since = o.since /\ q.tx = o.tx
  BY <1>1 DEF Call
<1>3. CallSound(o)'
  BY <1>1, QuietChain DEF CallSound, chainVars
<1> HIDE DEF q
<1>4. CallSound(q)'
  BY <1>2, <1>3 DEF CallSound
<1> QED BY <1>3, <1>4 DEF q

LEMMA LeftCalls ==
  ASSUME TypeOK, NEW t \in Tabs, NEW c \in Left(t)
  PROVE  /\ c \in Call
         /\ \/ c \in calls /\ c.tab # t
            \/ \E o \in calls : o.tab = t /\ c = [o EXCEPT !.live = FALSE]
BY DEF Left, TypeOK, Call

\* What is left to show of such a step.
LEMMA QuietStep ==
  ASSUME IInv, UNCHANGED <<chainVars, txs>>,
         store' \in Store, tab' \in [Tabs -> Tab], calls' \subseteq Call,
         StoreSound', \A t \in Tabs : TabSound(tab[t])', \A c \in calls' : CallSound(c)'
  PROVE  IInv'
<1>1. TypeOK'
  BY DEF IInv, TypeOK, chainVars
<1>2. CallsSound' /\ TabsSound'
  BY DEF CallsSound, TabsSound
<1> QED BY <1>1, <1>2, QuietChain DEF IInv

\* One tab changes in such a step, the others keep what they know.
LEMMA OneTab ==
  ASSUME IInv, UNCHANGED <<chainVars, txs>>, NEW t \in Tabs, NEW w \in Tab,
         tab' = [tab EXCEPT ![t] = w], TabSound(w)
  PROVE  tab' \in [Tabs -> Tab] /\ \A s \in Tabs : TabSound(tab[s])'
<1>1. tab' \in [Tabs -> Tab] /\ \A s \in Tabs : tab'[s] = w \/ tab'[s] = tab[s]
  BY DEF IInv, TypeOK
<1>2. \A s \in Tabs : TabSound(tab'[s])
  BY <1>1 DEF IInv, TabsSound
<1>3. ASSUME NEW s \in Tabs PROVE TabSound(tab[s])'
  BY <1>2, QuietChain DEF TabSound, AtHome, Selected, Active
<1> QED BY <1>1, <1>3

LEMMA OpenStep ==
  ASSUME IInv, NEW t \in Tabs, Open(t) PROVE IInv'
<1> USE DEF Open
<1> DEFINE w == Restored(store)
<1>1. store \in Store /\ StoreSound
  BY DEF IInv, TypeOK
<1>2. Upgraded(store) \in Directory /\ AtHome(Upgraded(store))
  <2>1. Upgraded(store) \in Directory
    BY <1>1 DEF Upgraded, Store, Directory
  <2>2. AtHome(Upgraded(store))
    BY <1>1, NoneFacts DEF Upgraded, AtHome, StoreSound, Store, Directory
  <2> QED BY <2>1, <2>2
<1>3. w \in Tab /\ TabSound(w)
  BY <1>1, <1>2 DEF Restored, Closed, Tab, Store, TabSound, Which
<1>4. store' \in Store /\ StoreSound'
  BY <1>1, <1>2, QuietChain DEF Store, StoreSound, AtHome, chainVars
<1>5. tab' \in [Tabs -> Tab] /\ \A s \in Tabs : TabSound(tab[s])'
  <2>1. tab' = [tab EXCEPT ![t] = w]
    OBVIOUS
  <2> HIDE DEF w
  <2> QED BY <1>3, <2>1, OneTab
<1>6. \A c \in calls' : c \in Call /\ CallSound(c)'
  <2> SUFFICES ASSUME NEW c \in calls PROVE c \in Call /\ CallSound(c)'
    OBVIOUS
  <2>1. c \in Call /\ tab[c.tab].open /\ c.tab \in Tabs
    BY DEF IInv, TypeOK, CallsSound, CallSound, Call
  <2>2. tab'[c.tab].open
    BY <2>1 DEF IInv, TypeOK
  <2> QED BY <2>1, <2>2, CallKept
<1> QED BY <1>4, <1>5, <1>6, QuietStep

LEMMA ClosedSound == Closed \in Tab /\ TabSound(Closed)
BY NoneFacts DEF Closed, Tab, Directory, Which, TabSound, AtHome

\* The store stays, or stores something else about the deployment.
LEMMA StoreKept ==
  ASSUME IInv, UNCHANGED <<chainVars, txs>>, store' \in Store,
         store'.directory = store.directory, store'.legacy = store.legacy,
         store'.advanced = store.advanced \/ store'.advanced = None
  PROVE  StoreSound'
BY QuietChain DEF IInv, StoreSound, AtHome, chainVars

LEMMA CloseStep ==
  ASSUME IInv, NEW t \in Tabs, Close(t) PROVE IInv'
<1> USE DEF Close
<1>1. store' \in Store /\ StoreSound'
  BY StoreKept DEF IInv, TypeOK
<1>2. tab' \in [Tabs -> Tab] /\ \A s \in Tabs : TabSound(tab[s])'
  BY ClosedSound, OneTab
<1>3. ASSUME NEW c \in calls' PROVE c \in Call /\ CallSound(c)'
  <2>1. c \in calls /\ c \in Call /\ tab[c.tab].open /\ c.tab \in Tabs /\ c.tab # t
    BY DEF IInv, TypeOK, CallsSound, CallSound, Call
  <2>2. tab'[c.tab].open
    BY <2>1 DEF IInv, TypeOK
  <2> QED BY <2>1, <2>2, CallKept
<1> QED BY <1>1, <1>2, <1>3, QuietStep

\* What a tab may become: it renders something it knows.
Knows(w) ==
  /\ w \in Tab /\ w.open
  /\ AtHome(w.directory)
  /\ w.agent # None => w.agent.escrow \in Ids /\ Home(w.agent.escrow, w.agent.token)

\* A tab that renders something it knows; its calls run on or are left.
LEMMA ChangeStep ==
  ASSUME IInv, UNCHANGED <<chainVars, txs>>, NEW t \in Tabs, NEW w, Knows(w),
         tab' = [tab EXCEPT ![t] = Rendered(@, w)], store' \in Store, StoreSound',
         \A c \in calls' : c \in calls \/ c \in Left(t)
  PROVE  IInv'
<1>1. /\ Rendered(tab[t], w) \in Tab /\ TabSound(Rendered(tab[t], w))
      /\ Rendered(tab[t], w).open
  BY RenderedFields, RenderedSound DEF Knows
<1>2. tab' = [tab EXCEPT ![t] = Rendered(tab[t], w)]
  OBVIOUS
<1>3. tab' \in [Tabs -> Tab] /\ \A s \in Tabs : TabSound(tab[s])'
  BY <1>1, <1>2, OneTab
<1>4. \A s \in Tabs : tab[s].open => tab'[s].open
  BY <1>1, <1>2 DEF IInv, TypeOK
<1>5. ASSUME NEW c \in calls' PROVE c \in Call /\ CallSound(c)'
  <2>1. TypeOK /\ \A o \in calls : o \in Call /\ o.tab \in Tabs /\ tab'[o.tab].open
    BY <1>4 DEF IInv, TypeOK, CallsSound, CallSound, Call
  <2>2. CASE c \in calls
    BY <2>1, <2>2, CallKept
  <2>3. CASE c \notin calls /\ c \in Left(t)
    <3>1. c \in Call
      BY <2>1, <2>3, LeftCalls
    <3>2. PICK o \in calls : c = [o EXCEPT !.live = FALSE]
      BY <2>1, <2>3, LeftCalls
    <3>3. CallSound([o EXCEPT !.live = FALSE])'
      BY <2>1, CallKept
    <3> QED BY <3>1, <3>2, <3>3
  <2> QED BY <2>2, <2>3
<1>6. calls' \subseteq Call
  BY <1>5
<1> QED BY <1>3, <1>5, <1>6, QuietStep

\* What a tab shows and what it reads is anything of the right type.
LEMMA TabKnows ==
  ASSUME IInv, NEW t \in Tabs, tab[t].open PROVE Knows(tab[t])
BY DEF IInv, TypeOK, TabsSound, TabSound, Knows

LEMMA NavigateStep ==
  ASSUME IInv, NEW t \in Tabs, Navigate(t) PROVE IInv'
<1> USE DEF Navigate
<1>1. PICK p \in {"home", "approver", "payer"} :
        tab' = [tab EXCEPT ![t] = Rendered(@, [@ EXCEPT !.page = p, !.agent = None, !.shown = None,
                                                         !.reading = {}])]
  OBVIOUS
<1> DEFINE w == [tab[t] EXCEPT !.page = p, !.agent = None, !.shown = None, !.reading = {}]
<1>2. tab[t] \in Tab /\ Knows(tab[t])
  BY TabKnows DEF Knows
<1>3. Knows(w)
  BY <1>2 DEF Knows, Tab
<1>4. tab' = [tab EXCEPT ![t] = Rendered(@, w)]
  BY <1>1
<1>5. store' \in Store /\ StoreSound'
  BY StoreKept DEF IInv, TypeOK
<1> HIDE DEF w
<1> QED BY <1>3, <1>4, <1>5, ChangeStep

LEMMA SetWhichStep ==
  ASSUME IInv, NEW t \in Tabs, SetWhich(t) PROVE IInv'
<1> USE DEF SetWhich
<1>1. PICK v \in Which : /\ Change(t, [tab[t] EXCEPT !.which = v])
                         /\ store' = [store EXCEPT !.which = v]
  OBVIOUS
<1> DEFINE w == [tab[t] EXCEPT !.which = v]
<1>2. tab[t] \in Tab /\ Knows(tab[t])
  BY TabKnows DEF Knows
<1>3. Knows(w)
  BY <1>2 DEF Knows, Tab
<1>4. tab' = [tab EXCEPT ![t] = Rendered(@, w)]
  BY <1>1 DEF Change
<1>5. store \in Store
  BY DEF IInv, TypeOK
<1>6. store' \in Store /\ StoreSound'
  BY <1>1, <1>5, StoreKept DEF Store
<1> HIDE DEF w
<1> QED BY <1>3, <1>4, <1>6, ChangeStep

LEMMA ClearAdvancedStep ==
  ASSUME IInv, NEW t \in Tabs, ClearAdvanced(t) PROVE IInv'
<1> USE DEF ClearAdvanced
<1> DEFINE w == [tab[t] EXCEPT !.advanced = None, !.which = "default"]
<1>2. tab[t] \in Tab /\ Knows(tab[t])
  BY TabKnows DEF Knows
<1>3. Knows(w)
  BY <1>2 DEF Knows, Tab, Which
<1>4. tab' = [tab EXCEPT ![t] = Rendered(@, w)]
  BY DEF Change
<1>5. store \in Store
  BY DEF IInv, TypeOK
<1>6. store' \in Store /\ StoreSound'
  BY <1>5, StoreKept DEF Store, Which
<1> HIDE DEF w
<1> QED BY <1>3, <1>4, <1>6, ChangeStep

LEMMA AppendedHome ==
  ASSUME NEW d \in Directory, AtHome(d), NEW k \in Tokens, NEW e \in Ids, Home(e, k)
  PROVE  Appended(d, k, e) \in Directory /\ AtHome(Appended(d, k, e))
<1>1. Appended(d, k, e) \in Directory
  BY DEF Appended, Directory
<1>2. \A l \in Tokens, f \in Ids :
        f \in Appended(d, k, e).known[l] \/ Appended(d, k, e).selected[l] = f
          => f \in d.known[l] \/ d.selected[l] = f \/ (f = e /\ l = k)
  BY DEF Appended, Directory
<1> QED BY <1>1, <1>2 DEF AtHome

LEMMA SelectEscrowStep ==
  ASSUME IInv, NEW t \in Tabs, SelectEscrow(t) PROVE IInv'
<1> USE DEF SelectEscrow
<1> DEFINE k == Active(tab[t])
<1>1. PICK e \in TokenEscrows(tab[t], k) : SetActiveEscrow(t, k, e)
  OBVIOUS
<1>2. /\ Knows(tab[t]) /\ tab[t] \in Tab /\ tab[t].directory \in Directory
      /\ AtHome(tab[t].directory) /\ k \in Tokens
  BY TabKnows, SelectedType DEF Knows, Tab
<1>3. e \in Ids /\ Home(e, k)
  <2>1. CASE e \in tab[t].directory.known[k]
    BY <1>2, <2>1 DEF AtHome, Directory
  <2>2. CASE e = Configured /\ Configured # None /\ k = Default
    BY <2>2, NoneFacts DEF IInv, StoreSound
  <2> QED BY <1>1, <2>1, <2>2 DEF TokenEscrows
<1> DEFINE d == Appended(tab[t].directory, k, e)
           w == [tab[t] EXCEPT !.directory = d]
<1>4. d \in Directory /\ AtHome(d)
  <2> HIDE DEF k
  <2> QED BY <1>2, <1>3, AppendedHome
<1>5. Knows(w)
  <2> HIDE DEF d
  <2> QED BY <1>2, <1>4 DEF Knows, Tab
<1>6. /\ tab' = [tab EXCEPT ![t] = Rendered(@, w)]
      /\ store' = [store EXCEPT !.directory = d]
  BY <1>1 DEF SetActiveEscrow, Change
<1>7. store' \in Store /\ StoreSound'
  <2> HIDE DEF d
  <2>1. store \in Store /\ StoreSound
    BY DEF IInv, TypeOK
  <2> QED BY <1>4, <1>6, <2>1, QuietChain DEF Store, StoreSound, AtHome, chainVars
<1> HIDE DEF w
<1> QED BY <1>5, <1>6, <1>7, ChangeStep

LEMMA ShowStateStep ==
  ASSUME IInv, NEW t \in Tabs, ShowState(t) PROVE IInv'
<1> USE DEF ShowState
<1>1. PICK e \in tab[t].reading : \E r \in {escrows[e], None} :
        tab' = [tab EXCEPT ![t].shown = r, ![t].reading = @ \ {e}]
  OBVIOUS
<1>2. PICK r \in {escrows[e], None} : tab' = [tab EXCEPT ![t].shown = r, ![t].reading = @ \ {e}]
  BY <1>1
<1>3. tab \in [Tabs -> Tab] /\ tab[t] \in Tab /\ TabSound(tab[t]) /\ r \in Record \cup {None}
  BY <1>2 DEF IInv, TypeOK, TabsSound, Tab
<1> DEFINE w == [tab[t] EXCEPT !.shown = r, !.reading = @ \ {e}]
<1>4. w \in Tab /\ TabSound(w) /\ w.open = tab[t].open
  BY <1>3 DEF Tab, TabSound, Selected, Active
<1>5. tab' = [tab EXCEPT ![t] = w]
  BY <1>2, <1>3
<1>6. tab' \in [Tabs -> Tab] /\ \A s \in Tabs : TabSound(tab[s])'
  <2> HIDE DEF w
  <2> QED BY <1>4, <1>5, OneTab
<1>7. \A c \in calls' : c \in Call /\ CallSound(c)'
  <2> SUFFICES ASSUME NEW c \in calls PROVE c \in Call /\ CallSound(c)'
    OBVIOUS
  <2>1. c \in Call /\ tab[c.tab].open /\ c.tab \in Tabs
    BY DEF IInv, TypeOK, CallsSound, CallSound, Call
  <2>2. tab'[c.tab].open
    BY <1>3, <1>4, <1>5, <2>1
  <2> QED BY <2>1, <2>2, CallKept
<1>8. store' \in Store /\ StoreSound'
  BY StoreKept DEF IInv, TypeOK
<1> QED BY <1>6, <1>7, <1>8, QuietStep

\* The page, if it is still there, takes over something it may know.
LEMMA DeliverStep ==
  ASSUME IInv, UNCHANGED <<chainVars, txs, store>>, NEW c \in calls, NEW w, Knows(w),
         Delivers(c, w), calls' \subseteq calls
  PROVE  IInv'
<1>1. store' \in Store /\ StoreSound'
  BY StoreKept DEF IInv, TypeOK
<1>2. c.tab \in Tabs
  BY DEF IInv, TypeOK, Call
<1>3. CASE c.live
  <2>1. tab' = [tab EXCEPT ![c.tab] = Rendered(@, w)]
    BY <1>3 DEF Delivers, Change
  <2> QED BY <1>1, <1>2, <2>1, ChangeStep
<1>4. CASE tab' = tab
  <2>1. tab' \in [Tabs -> Tab] /\ \A s \in Tabs : TabSound(tab[s])'
    BY <1>4, QuietChain DEF IInv, TypeOK, TabsSound, TabSound, AtHome, Selected, Active
  <2>2. ASSUME NEW o \in calls' PROVE o \in Call /\ CallSound(o)'
    <3>1. o \in Call /\ tab'[o.tab].open
      BY <1>4 DEF IInv, TypeOK, CallsSound, CallSound
    <3> QED BY <3>1, CallKept
  <2> QED BY <1>1, <2>1, <2>2, QuietStep
<1> QED BY <1>3, <1>4 DEF Delivers

LEMMA FailStep ==
  ASSUME IInv, NEW c \in calls, Fail(c) PROVE IInv'
<1>1. UNCHANGED <<chainVars, txs, store, tab>> /\ calls' \subseteq calls
  BY DEF Fail
<1>2. store' \in Store /\ StoreSound'
  BY <1>1, StoreKept DEF IInv, TypeOK
<1>3. tab' \in [Tabs -> Tab] /\ \A s \in Tabs : TabSound(tab[s])'
  BY <1>1, QuietChain DEF IInv, TypeOK, TabsSound, TabSound, AtHome, Selected, Active
<1>4. ASSUME NEW o \in calls' PROVE o \in Call /\ CallSound(o)'
  <2>1. o \in Call /\ tab'[o.tab].open
    BY <1>1 DEF IInv, TypeOK, CallsSound, CallSound
  <2> QED BY <1>1, <2>1, CallKept
<1> QED BY <1>1, <1>2, <1>3, <1>4, QuietStep

LEMMA ConnectedStep ==
  ASSUME IInv, NEW c \in calls, Connected(c) PROVE IInv'
<1> USE DEF Connected
<1>1. PICK u \in Users :
        Delivers(c, [tab[c.tab] EXCEPT !.agent = [user |-> u, token |-> c.token, escrow |-> c.escrow]])
  OBVIOUS
<1> DEFINE a == [user |-> u, token |-> c.token, escrow |-> c.escrow]
           w == [tab[c.tab] EXCEPT !.agent = a]
<1>2. /\ c \in Call /\ c.tab \in Tabs /\ tab[c.tab].open
      /\ c.escrow \in Ids /\ Home(c.escrow, c.token)
  BY DEF IInv, TypeOK, CallsSound, CallSound, Call
<1>3. tab[c.tab] \in Tab /\ Knows(tab[c.tab])
  BY <1>2, TabKnows DEF Knows
<1>4. a \in Agent /\ a.escrow \in Ids /\ Home(a.escrow, a.token)
  BY <1>2 DEF Agent, Call
<1>5. Knows(w)
  <2> HIDE DEF a
  <2> QED BY <1>3, <1>4 DEF Knows, Tab
<1>6. Delivers(c, w)
  BY <1>1
<1> HIDE DEF w
<1> QED BY <1>5, <1>6, DeliverStep

LEMMA FinishStep ==
  ASSUME IInv, NEW c \in calls, Finish(c) PROVE IInv'
<1> USE DEF Finish
<1> DEFINE a == [user |-> c.user, token |-> c.token, escrow |-> c.escrow]
           read == [tab[c.tab] EXCEPT !.reading = @ \cup {c.escrow}]
           w == IF c.op = "create" THEN [read EXCEPT !.agent = a] ELSE read
<1>1. /\ c \in Call /\ c.tab \in Tabs /\ tab[c.tab].open /\ c.escrow \in Ids
      /\ c.op = "create" => c.user \in Users /\ Home(c.escrow, c.token)
  BY DEF IInv, TypeOK, CallsSound, CallSound, Call
<1>2. tab[c.tab] \in Tab /\ Knows(tab[c.tab])
  BY <1>1, TabKnows DEF Knows
<1>3. read \in Tab /\ Knows(read)
  BY <1>1, <1>2 DEF Knows, Tab
<1>4. c.op = "create" => a \in Agent /\ a.escrow \in Ids /\ Home(a.escrow, a.token)
  BY <1>1 DEF Agent, Call
<1>5. Knows(w)
  <2> HIDE DEF a, read
  <2> QED BY <1>3, <1>4 DEF Knows, Tab
<1>6. Delivers(c, w) /\ calls' \subseteq calls /\ UNCHANGED <<chainVars, txs, store>>
  OBVIOUS
<1> HIDE DEF w
<1> QED BY <1>5, <1>6, DeliverStep

LEMMA SaveAdvancedStep ==
  ASSUME IInv, NEW c \in calls, SaveAdvanced(c) PROVE IInv'
<1> USE DEF SaveAdvanced
<1> DEFINE d == [token |-> txs[c.tx].token, since |-> FirstLedger(c)]
           w == [tab[c.tab] EXCEPT !.advanced = d, !.which = "advanced", !.page = "home",
                         !.agent = None, !.shown = None, !.reading = {}]
<1>1. /\ c \in Call /\ c.tab \in Tabs /\ tab[c.tab].open /\ CallSound(c)
  BY DEF IInv, TypeOK, CallsSound, CallSound, Call
<1>2. /\ c.tx \in DOMAIN txs /\ txs[c.tx].op = "deploy_token" /\ txs[c.tx].status = "ok"
      /\ c.since \in Nat /\ 1 <= c.since /\ c.since <= born[txs[c.tx].token]
  BY <1>1 DEF CallSound, Confirmed, Call, IInv, TypeOK
<1>3. d.token \in Fresh /\ d.since \in 1 .. born[d.token] /\ d \in Deployment
  BY <1>2 DEF IInv, TypeOK, TxsSound, TxSound, FirstLedger, Deployment
<1>4. tab[c.tab] \in Tab /\ Knows(tab[c.tab])
  BY <1>1, TabKnows DEF Knows
<1>5. Knows(w)
  <2> HIDE DEF d
  <2> QED BY <1>3, <1>4 DEF Knows, Tab, Which
<1>6. /\ tab' = [tab EXCEPT ![c.tab] = Rendered(@, w)]
      /\ store' = [store EXCEPT !.advanced = d, !.which = "advanced"]
      /\ \A o \in calls' : o \in Left(c.tab)
  BY DEF Change
<1>7. store' \in Store /\ StoreSound'
  <2> HIDE DEF d
  <2>1. store \in Store /\ StoreSound
    BY DEF IInv, TypeOK
  <2> QED BY <1>3, <1>6, <2>1, QuietChain DEF Store, StoreSound, AtHome, chainVars, Which
<1> HIDE DEF w
<1> QED BY <1>1, <1>5, <1>6, <1>7, ChangeStep

-----------------------------------------------------------------------------
(* Steps that send a transaction *)

\* Homes stay, and so does the ledger of a token that was deployed.
Settles ==
  /\ \A e \in Ids : \A k : Home(e, k) => Home(e, k)'
  /\ \A k \in Fresh : born[k] # 0 => born'[k] = born[k]

\* What the browser knows stays true whatever happens on the chain.
LEMMA BrowserKept ==
  ASSUME IInv, Settles, UNCHANGED <<store, tab>>
  PROVE  StoreSound' /\ TabsSound'
<1>1. StoreSound'
  <2>1. store.advanced # None =>
          /\ store.advanced.token \in Fresh /\ born[store.advanced.token] # 0
          /\ store.advanced.since \in 1 .. born[store.advanced.token]
    BY DEF IInv, TypeOK, Store, Deployment, StoreSound
  <2>2. store.advanced # None => store.advanced.since \in 1 .. born'[store.advanced.token]
    BY <2>1 DEF Settles
  <2> QED BY <2>2 DEF IInv, StoreSound, AtHome, Settles
<1>2. TabsSound'
  BY DEF IInv, TabsSound, TabSound, AtHome, Settles, Selected, Active
<1> QED BY <1>1, <1>2

\* What a transaction must say when it is sent.
NewSound(x) ==
  /\ x \in Tx /\ x.status = "sent"
  /\ x.op = "deploy_escrow" => x.token \in Tokens
  /\ x.op = "initialize" =>
       /\ x.escrow \in Ids /\ x.token \in Tokens /\ x.roles \in FullRoles
       /\ Home(x.escrow, x.token)
  /\ x.op \in {"fund", "release"} => x.escrow \in Ids

LEMMA SendGrows ==
  ASSUME IInv, NEW x, NewSound(x), Send(x), UNCHANGED chainVars
  PROVE  /\ txs' \in Seq(Tx) /\ Len(txs') = Len(txs) + 1 /\ Len(txs) \in Nat /\ Len(txs) < MaxTxs
         /\ DOMAIN txs = 1 .. Len(txs) /\ DOMAIN txs' = 1 .. Len(txs) + 1
         /\ txs'[Len(txs) + 1] = x
         /\ \A i \in DOMAIN txs : txs'[i] = txs[i]
         /\ OneHome' /\ RolesDeployed' /\ TxsSound' /\ AskedRoles' /\ Settles
<1>1. /\ txs' \in Seq(Tx) /\ Len(txs') = Len(txs) + 1 /\ Len(txs) \in Nat /\ Len(txs) < MaxTxs
      /\ DOMAIN txs = 1 .. Len(txs) /\ DOMAIN txs' = 1 .. Len(txs) + 1
      /\ txs'[Len(txs) + 1] = x
      /\ \A i \in DOMAIN txs : txs'[i] = txs[i]
  BY DEF IInv, TypeOK, NewSound, Send
<1>2. \A e, k : Home(e, k)' <=> Home(e, k)
  BY <1>1 DEF Home, Deploys, NewSound, chainVars
<1>3. OneHome' /\ RolesDeployed'
  BY <1>2 DEF IInv, OneHome, RolesDeployed, chainVars
<1>4. TxsSound'
  <2>1. ASSUME NEW i \in DOMAIN txs' PROVE TxSound(txs[i])'
    <3>1. CASE i \in DOMAIN txs
      BY <1>1, <1>2, <3>1 DEF IInv, TxsSound, TxSound, chainVars
    <3>2. CASE i = Len(txs) + 1
      BY <1>1, <1>2, <3>2 DEF TxSound, NewSound
    <3> QED BY <1>1, <3>1, <3>2
  <2> QED BY <2>1 DEF TxsSound
<1>5. AskedRoles'
  BY <1>1 DEF IInv, AskedRoles, NewSound, chainVars
<1>6. Settles
  BY <1>2 DEF Settles, chainVars
<1> QED BY <1>1, <1>3, <1>4, <1>5, <1>6

\* The calls that run already know a transaction that was sent before.
LEMMA CallWaits ==
  ASSUME IInv, NEW x, NewSound(x), Send(x), UNCHANGED chainVars,
         NEW o \in calls, tab'[o.tab].open
  PROVE  CallSound(o)'
<1>1. o \in Call /\ CallSound(o)
  BY DEF IInv, TypeOK, CallsSound
<1>2. o.tx # 0 => o.tx \in DOMAIN txs
  BY <1>1 DEF IInv, TypeOK, Call, CallSound
<1> QED BY <1>1, <1>2, SendGrows DEF CallSound, Settles, Call, chainVars

\* A click sends a transaction and starts the call that waits for it.
LEMMA ClickStep ==
  ASSUME IInv, NEW t \in Tabs, NEW x, NEW n, NewSound(x), Send(x), Starts(t, n),
         n \in Call, n.tab = t, CallSound(n)'
  PROVE  IInv'
<1>1. UNCHANGED <<chainVars, store, tab>> /\ calls' = calls \cup {n}
  BY DEF Starts
<1>2. /\ txs' \in Seq(Tx) /\ OneHome' /\ RolesDeployed' /\ TxsSound' /\ AskedRoles' /\ Settles
  BY <1>1, SendGrows
<1>3. TypeOK'
  BY <1>1, <1>2 DEF IInv, TypeOK, chainVars
<1>4. StoreSound' /\ TabsSound'
  BY <1>1, <1>2, BrowserKept
<1>5. CallsSound'
  <2>1. ASSUME NEW o \in calls PROVE CallSound(o)'
    <3>1. tab'[o.tab].open
      BY <1>1 DEF IInv, CallsSound, CallSound
    <3> QED BY <1>1, <3>1, CallWaits
  <2> QED BY <1>1, <2>1 DEF CallsSound
<1> QED BY <1>2, <1>3, <1>4, <1>5 DEF IInv

\* The call a click starts, and the transaction it sends.
LEMMA NewTx ==
  ASSUME NEW op, NEW c \in Call, NEW x, x = Tx0(op, c), NEW n, NEW k \in 1 .. MaxTxs,
         n = [c EXCEPT !.tx = k],
         op \in {"deploy_escrow", "deploy_token", "initialize", "fund", "release"}, c.user \in Users
  PROVE  /\ x \in Tx /\ x.op = op /\ x.status = "sent" /\ x.user = c.user /\ x.token = c.token
         /\ x.escrow = c.escrow /\ x.roles = c.roles
         /\ n \in Call /\ n.tab = c.tab /\ n.op = c.op /\ n.user = c.user /\ n.token = c.token
         /\ n.escrow = c.escrow /\ n.roles = c.roles /\ n.since = c.since /\ n.tx = k
         /\ n.live = c.live
<1>1. x \in Tx /\ x.op = op /\ x.status = "sent" /\ x.user = c.user /\ x.token = c.token
      /\ x.escrow = c.escrow /\ x.roles = c.roles
  BY DEF Tx0, Call, Tx
<1>2. k \in 0 .. MaxTxs
  BY WorkflowAssumption
<1>3. n \in Call /\ n.tab = c.tab /\ n.op = c.op /\ n.user = c.user /\ n.token = c.token
      /\ n.escrow = c.escrow /\ n.roles = c.roles /\ n.since = c.since /\ n.tx = k
      /\ n.live = c.live
  BY <1>2 DEF Call
<1> QED BY <1>1, <1>3

\* There is room for a transaction that is sent.
LEMMA SendRoom ==
  ASSUME TypeOK, NEW x, Send(x)
  PROVE  Len(txs) + 1 \in 1 .. MaxTxs
BY WorkflowAssumption DEF TypeOK, Send

\* What a click must start and send.
Clicked(t, x, n) == Send(x) /\ Starts(t, n) /\ NewSound(x) /\ n \in Call /\ n.tab = t

\* The agent acts on an escrow: the transaction says which, and under which token.
LEMMA ActSends ==
  ASSUME IInv, NEW t \in Tabs, tab[t].open, tab[t].agent # None,
         NEW op \in {"initialize", "fund", "release"}, NEW e \in Ids,
         NEW roles \in Roles, Act(t, op, e, roles),
         op = "initialize" => roles \in FullRoles /\ Home(e, tab[t].agent.token)
  PROVE  \E x, n : /\ Clicked(t, x, n) /\ CallSound(n)' /\ n.op = op
                   /\ x.op = op /\ x.escrow = e /\ x.token = tab[t].agent.token
<1>c. PICK c : c = [NewCall(t, op) EXCEPT !.user = tab[t].agent.user, !.token = tab[t].agent.token,
                                        !.escrow = e, !.roles = roles]
  OBVIOUS
<1>k. PICK k : k = Len(txs) + 1
  OBVIOUS
<1>x. PICK x : x = Tx0(op, c)
  OBVIOUS
<1>n. PICK n : n = [c EXCEPT !.tx = k]
  OBVIOUS
<1>1. tab[t].agent \in Agent
  BY DEF IInv, TypeOK, Tab
<1>2. c = [tab |-> t, live |-> TRUE, op |-> op, user |-> tab[t].agent.user,
           token |-> tab[t].agent.token, escrow |-> e, roles |-> roles, since |-> 0, tx |-> 0]
  BY <1>c DEF NewCall
<1>3. /\ c \in Call /\ c.tab = t /\ c.op = op /\ c.user \in Users /\ c.escrow = e
      /\ c.token = tab[t].agent.token /\ c.token \in Tokens /\ c.roles = roles
  BY <1>1, <1>2, WorkflowAssumption DEF Call, Agent, Ops
<1>4. Send(x) /\ Starts(t, n)
  BY <1>c, <1>k, <1>x, <1>n DEF Act, Sends
<1>5. k \in 1 .. MaxTxs
  BY <1>4, <1>k, SendRoom DEF IInv
<1>6. /\ x \in Tx /\ x.op = op /\ x.status = "sent" /\ x.token = c.token
      /\ x.escrow = c.escrow /\ x.roles = c.roles
      /\ n \in Call /\ n.tab = t /\ n.op = op /\ n.tx = k
  BY <1>3, <1>5, <1>x, <1>n, NewTx
<1>7. NewSound(x)
  BY <1>3, <1>6 DEF NewSound
<1>8. CallSound(n)'
  BY <1>4, <1>6, <1>7, <1>k, SendGrows DEF CallSound, Starts
<1>9. Clicked(t, x, n)
  BY <1>4, <1>6, <1>7 DEF Clicked
<1> QED BY <1>3, <1>6, <1>8, <1>9

LEMMA NoRolesType == NoRoles \in Roles
BY DEF NoRoles, Roles

LEMMA ClickResumeSends ==
  ASSUME IInv, NEW t \in Tabs, ClickResume(t)
  PROVE  \E x, n : /\ Clicked(t, x, n) /\ CallSound(n)' /\ n.op = "initialize"
                   /\ x.escrow = tab[t].agent.escrow /\ x.token = tab[t].agent.token
                   /\ tab[t].open /\ tab[t].agent # None
<1>1. tab[t].open /\ tab[t].agent # None
  BY DEF ClickResume, On
<1>2. PICK r \in FormRoles(tab[t]) : Act(t, "initialize", tab[t].agent.escrow, r)
  BY DEF ClickResume
<1>3. r \in FullRoles /\ r \in Roles
  BY WorkflowAssumption DEF FormRoles, FullRoles, Roles
<1>4. tab[t].agent.escrow \in Ids /\ Home(tab[t].agent.escrow, tab[t].agent.token)
  BY <1>1 DEF IInv, TabsSound, TabSound
<1> QED BY <1>1, <1>2, <1>3, <1>4, ActSends

LEMMA ClickReleaseSends ==
  ASSUME IInv, NEW t \in Tabs, ClickRelease(t)
  PROVE  \E x, n : Clicked(t, x, n) /\ CallSound(n)' /\ n.op = "release" /\ x.op = "release"
<1>1. tab[t].open /\ tab[t].agent # None /\ Act(t, "release", tab[t].agent.escrow, NoRoles)
  BY DEF ClickRelease, On
<1>2. tab[t].agent.escrow \in Ids
  BY <1>1 DEF IInv, TabsSound, TabSound
<1> QED BY <1>1, <1>2, NoRolesType, ActSends

LEMMA ClickFundSends ==
  ASSUME IInv, NEW t \in Tabs, ClickFund(t)
  PROVE  \E x, n : Clicked(t, x, n) /\ CallSound(n)' /\ n.op = "fund" /\ x.op = "fund"
<1>1. /\ tab[t].open /\ tab[t].agent # None /\ Selected(tab[t]) # None
      /\ Act(t, "fund", Selected(tab[t]), NoRoles)
  BY DEF ClickFund, On
<1>2. Selected(tab[t]) \in Ids
  BY <1>1, SelectedType DEF IInv, TypeOK
<1> QED BY <1>1, <1>2, NoRolesType, ActSends

LEMMA ClickCreateSends ==
  ASSUME IInv, NEW t \in Tabs, ClickCreate(t)
  PROVE  \E x, n : /\ Clicked(t, x, n) /\ CallSound(n)' /\ n.op = "create" /\ n.escrow = None
                   /\ x.op = "deploy_escrow"
<1>1. PICK r \in FormRoles(tab[t]), u \in Users :
        Sends(t, "deploy_escrow", [NewCall(t, "create") EXCEPT !.user = u, !.roles = r])
  BY DEF ClickCreate
<1>c. PICK c : c = [NewCall(t, "create") EXCEPT !.user = u, !.roles = r]
  OBVIOUS
<1>k. PICK k : k = Len(txs) + 1
  OBVIOUS
<1>x. PICK x : x = Tx0("deploy_escrow", c)
  OBVIOUS
<1>n. PICK n : n = [c EXCEPT !.tx = k]
  OBVIOUS
<1>2. c = [tab |-> t, live |-> TRUE, op |-> "create", user |-> u, token |-> Active(tab[t]),
           escrow |-> None, roles |-> r, since |-> 0, tx |-> 0]
  BY <1>c DEF NewCall
<1>3. r \in FullRoles /\ r \in Roles /\ Active(tab[t]) \in Tokens
  BY WorkflowAssumption, SelectedType DEF FormRoles, FullRoles, Roles, IInv, TypeOK
<1>4. /\ c \in Call /\ c.tab = t /\ c.op = "create" /\ c.user \in Users /\ c.escrow = None
      /\ c.token \in Tokens /\ c.roles = r
  BY <1>2, <1>3, WorkflowAssumption DEF Call, Ops
<1>5. Send(x) /\ Starts(t, n) /\ tab[t].open
  BY <1>1, <1>c, <1>k, <1>x, <1>n DEF Sends, ClickCreate, On
<1>6. k \in 1 .. MaxTxs
  BY <1>5, <1>k, SendRoom DEF IInv
<1>7. /\ x \in Tx /\ x.op = "deploy_escrow" /\ x.status = "sent" /\ x.token = c.token
      /\ n \in Call /\ n.tab = t /\ n.op = "create" /\ n.tx = k /\ n.token = c.token
      /\ n.escrow = None /\ n.user \in Users /\ n.roles = r
  BY <1>4, <1>6, <1>x, <1>n, NewTx
<1>8. NewSound(x)
  BY <1>4, <1>7 DEF NewSound
<1>9. CallSound(n)'
  BY <1>3, <1>5, <1>7, <1>8, <1>k, SendGrows DEF CallSound, Starts
<1>10. Clicked(t, x, n)
  BY <1>5, <1>7, <1>8 DEF Clicked
<1> QED BY <1>7, <1>9, <1>10

LEMMA ClickDeploySends ==
  ASSUME IInv, NEW t \in Tabs, ClickDeploy(t)
  PROVE  \E x, n : /\ Clicked(t, x, n) /\ CallSound(n)' /\ n.op = "token" /\ x.op = "deploy_token"
<1>1. PICK u \in Users :
        Sends(t, "deploy_token", [NewCall(t, "token") EXCEPT !.user = u, !.token = Default,
                                                             !.since = ledger])
  BY DEF ClickDeploy
<1>c. PICK c : c = [NewCall(t, "token") EXCEPT !.user = u, !.token = Default, !.since = ledger]
  OBVIOUS
<1>k. PICK k : k = Len(txs) + 1
  OBVIOUS
<1>x. PICK x : x = Tx0("deploy_token", c)
  OBVIOUS
<1>n. PICK n : n = [c EXCEPT !.tx = k]
  OBVIOUS
<1>2. c = [tab |-> t, live |-> TRUE, op |-> "token", user |-> u, token |-> Default,
           escrow |-> None, roles |-> NoRoles, since |-> ledger, tx |-> 0]
  BY <1>c DEF NewCall
<1>3. ledger \in Nat /\ ledger \in 1 .. ledger
  BY WorkflowAssumption DEF IInv, TypeOK
<1>4. /\ c \in Call /\ c.tab = t /\ c.op = "token" /\ c.user \in Users /\ c.since = ledger
      /\ c.token \in Tokens
  BY <1>2, <1>3, NoRolesType, WorkflowAssumption DEF Call, Ops, Tokens
<1>5. Send(x) /\ Starts(t, n) /\ tab[t].open
  BY <1>1, <1>c, <1>k, <1>x, <1>n DEF Sends, ClickDeploy, On
<1>6. k \in 1 .. MaxTxs
  BY <1>5, <1>k, SendRoom DEF IInv
<1>7. /\ x \in Tx /\ x.op = "deploy_token" /\ x.status = "sent"
      /\ n \in Call /\ n.tab = t /\ n.op = "token" /\ n.tx = k /\ n.since = ledger
  BY <1>4, <1>6, <1>x, <1>n, NewTx
<1>8. NewSound(x)
  BY <1>7 DEF NewSound
<1>9. CallSound(n)'
  BY <1>3, <1>5, <1>7, <1>8, <1>k, SendGrows DEF CallSound, Starts, chainVars
<1>10. Clicked(t, x, n)
  BY <1>5, <1>7, <1>8 DEF Clicked
<1> QED BY <1>7, <1>9, <1>10

\* The buttons that send a transaction.
Sending(t) ==
  ClickCreate(t) \/ ClickResume(t) \/ ClickRelease(t) \/ ClickFund(t) \/ ClickDeploy(t)

LEMMA SendingStep ==
  ASSUME IInv, NEW t \in Tabs, Sending(t) PROVE IInv'
<1>1. PICK x, n : Clicked(t, x, n) /\ CallSound(n)'
  BY ClickCreateSends, ClickResumeSends, ClickReleaseSends, ClickFundSends, ClickDeploySends
     DEF Sending
<1>2. tab[t].open
  BY DEF Sending, ClickCreate, ClickResume, ClickRelease, ClickFund, ClickDeploy, On
<1> QED BY <1>1, <1>2, ClickStep DEF Clicked

LEMMA ClickConnectStep ==
  ASSUME IInv, NEW t \in Tabs, ClickConnect(t) PROVE IInv'
<1>n. PICK n : n = [NewCall(t, "connect") EXCEPT !.escrow = Selected(tab[t])]
  OBVIOUS
<1>1. /\ tab[t].open /\ Selected(tab[t]) # None /\ UNCHANGED <<chainVars, txs, store, tab>>
      /\ calls' = calls \cup {n}
  BY <1>n DEF ClickConnect, Starts
<1>2. n = [tab |-> t, live |-> TRUE, op |-> "connect", user |-> None, token |-> Active(tab[t]),
           escrow |-> Selected(tab[t]), roles |-> NoRoles, since |-> 0, tx |-> 0]
  BY <1>n DEF NewCall
<1>3. /\ Selected(tab[t]) \in Ids /\ Active(tab[t]) \in Tokens
      /\ Home(Selected(tab[t]), Active(tab[t]))
  <2>1. /\ tab[t] \in Tab /\ AtHome(tab[t].directory)
        /\ Configured \in Ids => Home(Configured, Default)
    BY DEF IInv, TypeOK, TabsSound, TabSound, StoreSound
  <2> QED BY <1>1, <2>1, SelectedHome, SelectedType
<1>4. n.tab = t /\ n.op = "connect" /\ n.tx = 0 /\ n.escrow \in Ids /\ Home(n.escrow, n.token)
  BY <1>2, <1>3
<1>5. n \in Call
  BY <1>2, <1>3, NoRolesType, WorkflowAssumption DEF Call, Ops
<1>6. CallSound(n)
  BY <1>1, <1>4 DEF CallSound, IInv, TypeOK
<1>7. CallSound(n)'
  BY <1>1, <1>4, <1>6, QuietChain DEF CallSound
<1>8. store' \in Store /\ StoreSound'
  BY <1>1, StoreKept DEF IInv, TypeOK
<1>9. tab' \in [Tabs -> Tab] /\ \A s \in Tabs : TabSound(tab[s])'
  BY <1>1, QuietChain DEF IInv, TypeOK, TabsSound, TabSound, AtHome, Selected, Active
<1>10. ASSUME NEW o \in calls' PROVE o \in Call /\ CallSound(o)'
  <2>1. o \in calls => o \in Call /\ tab'[o.tab].open
    BY <1>1 DEF IInv, TypeOK, CallsSound, CallSound
  <2> QED BY <1>1, <1>5, <1>7, <2>1, CallKept
<1> QED BY <1>1, <1>8, <1>9, <1>10, QuietStep

\* What a tab and the browser take over is as true as before.
LEMMA TabSettles ==
  ASSUME IInv, Settles, NEW t \in Tabs, NEW w \in Tab, TabSound(w), tab' = [tab EXCEPT ![t] = w]
  PROVE  tab' \in [Tabs -> Tab] /\ TabsSound'
<1>1. tab' \in [Tabs -> Tab] /\ \A s \in Tabs : tab'[s] = w \/ tab'[s] = tab[s]
  BY DEF IInv, TypeOK
<1>2. \A s \in Tabs : TabSound(tab'[s])
  BY <1>1 DEF IInv, TabsSound
<1>3. ASSUME NEW s \in Tabs PROVE TabSound(tab[s])'
  BY <1>2 DEF TabSound, AtHome, Selected, Active, Settles
<1> QED BY <1>1, <1>3 DEF TabsSound

LEMMA DirectorySettles ==
  ASSUME IInv, Settles, NEW d \in Directory, AtHome(d), store' = [store EXCEPT !.directory = d]
  PROVE  store' \in Store /\ StoreSound'
<1>1. store \in Store
  BY DEF IInv, TypeOK
<1>2. /\ store' \in Store /\ store'.directory = d /\ store'.legacy = store.legacy
      /\ store'.advanced = store.advanced
  BY <1>1 DEF Store
<1>3. AtHome(d)'
  BY DEF AtHome, Settles
<1>4. store.advanced # None =>
        /\ store.advanced.token \in Fresh /\ born[store.advanced.token] # 0
        /\ store.advanced.since \in 1 .. born[store.advanced.token]
  BY <1>1 DEF IInv, TypeOK, Store, Deployment, StoreSound
<1>5. store.advanced # None => store.advanced.since \in 1 .. born'[store.advanced.token]
  BY <1>4 DEF Settles
<1>6. (\A k \in Tokens : store.legacy[k] \in Ids => Home(store.legacy[k], k)')
      /\ (Configured \in Ids => Home(Configured, Default)')
  BY DEF IInv, StoreSound, Settles
<1> QED BY <1>2, <1>3, <1>5, <1>6 DEF StoreSound, AtHome

\* The escrow is filed under the token it was deployed for, and its initialization is sent.
LEMMA DeployedFiles ==
  ASSUME IInv, NEW c \in calls, Deployed(c)
  PROVE  \E e, n, x :
           /\ e \in Ids /\ Home(e, c.token) /\ SetActiveEscrow(c.tab, c.token, e)
           /\ n.tab = c.tab /\ n.op = "create" /\ n.user \in Users /\ n.roles \in FullRoles
           /\ n.token = c.token /\ n.escrow = e /\ n.tx = Len(txs) + 1
           /\ Len(txs) + 1 \in 1 .. MaxTxs => n \in Call
           /\ x = Tx0("initialize", n)
           /\ UNCHANGED chainVars
           /\ \/ Send(x) /\ \A o \in calls' : o \in calls \/ o = n
              \/ calls' = calls \ {c} /\ UNCHANGED txs
<1>e. PICK e : e = txs[c.tx].escrow
  OBVIOUS
<1>n. PICK n : n = [c EXCEPT !.escrow = txs[c.tx].escrow, !.tx = Len(txs) + 1]
  OBVIOUS
<1>k. PICK k : k = Len(txs) + 1
  OBVIOUS
<1>m. PICK m : m = [c EXCEPT !.escrow = e]
  OBVIOUS
<1>x. PICK x : x = Tx0("initialize", n)
  OBVIOUS
<1>1. /\ c \in Call /\ CallSound(c) /\ c.op = "create" /\ c.escrow = None
      /\ c.tx \in DOMAIN txs /\ txs[c.tx].status = "ok"
  BY DEF IInv, TypeOK, CallsSound, CallSound, Call, Deployed, Confirmed
<1>2. /\ c.user \in Users /\ c.roles \in FullRoles
      /\ txs[c.tx].op = "deploy_escrow" /\ txs[c.tx].token = c.token
  BY <1>1 DEF CallSound, Call, IInv, TypeOK
<1>3. e \in Ids /\ Home(e, c.token)
  BY <1>1, <1>2, <1>e DEF IInv, TypeOK, TxsSound, TxSound, Home, Deploys
<1>4. /\ n.tab = c.tab /\ n.op = "create" /\ n.user = c.user /\ n.roles = c.roles
      /\ n.token = c.token /\ n.escrow = e /\ n.tx = k
      /\ k \in 1 .. MaxTxs => n \in Call
  <2>1. n = [m EXCEPT !.tx = k]
    BY <1>e, <1>k, <1>m, <1>n
  <2>2. /\ m \in Call /\ m.tab = c.tab /\ m.op = "create" /\ m.user = c.user /\ m.roles = c.roles
        /\ m.token = c.token /\ m.escrow = e
    BY <1>1, <1>3, <1>m DEF Call
  <2>3. k \in 1 .. MaxTxs => k \in 0 .. MaxTxs
    BY WorkflowAssumption
  <2> QED BY <2>1, <2>2, <2>3 DEF Call
<1>5. SetActiveEscrow(c.tab, c.token, e)
  BY <1>4, <1>n DEF Deployed, FiledUnder
<1>6. /\ UNCHANGED chainVars
      /\ \/ Send(x) /\ \A o \in calls' : o \in calls \/ o = n
         \/ calls' = calls \ {c} /\ UNCHANGED txs
  BY <1>n, <1>x DEF Deployed
<1> QED BY <1>2, <1>3, <1>4, <1>5, <1>6, <1>k, <1>x

LEMMA DeployedStep ==
  ASSUME IInv, NEW c \in calls, Deployed(c) PROVE IInv'
<1>2. PICK e, n, x :
        /\ e \in Ids /\ Home(e, c.token) /\ SetActiveEscrow(c.tab, c.token, e)
        /\ n.tab = c.tab /\ n.op = "create" /\ n.user \in Users /\ n.roles \in FullRoles
        /\ n.token = c.token /\ n.escrow = e /\ n.tx = Len(txs) + 1
        /\ Len(txs) + 1 \in 1 .. MaxTxs => n \in Call
        /\ x = Tx0("initialize", n)
        /\ UNCHANGED chainVars
        /\ \/ Send(x) /\ \A o \in calls' : o \in calls \/ o = n
           \/ calls' = calls \ {c} /\ UNCHANGED txs
  BY DeployedFiles
<1>1. c \in Call /\ c.tab \in Tabs /\ tab[c.tab].open /\ c.token \in Tokens
  BY DEF IInv, TypeOK, CallsSound, CallSound, Call
<1>d. PICK d : d = Appended(tab[c.tab].directory, c.token, e)
  OBVIOUS
<1>w. PICK w : w = [tab[c.tab] EXCEPT !.directory = d]
  OBVIOUS
<1>7. tab[c.tab] \in Tab /\ Knows(tab[c.tab]) /\ tab[c.tab].directory \in Directory
  BY <1>1, TabKnows DEF Knows, Tab
<1>8. d \in Directory /\ AtHome(d)
  BY <1>1, <1>2, <1>7, <1>d, AppendedHome DEF Knows
<1>9. Knows(w)
  BY <1>7, <1>8, <1>w DEF Knows, Tab
<1>10. /\ tab' = [tab EXCEPT ![c.tab] = Rendered(@, w)]
       /\ store' = [store EXCEPT !.directory = d]
  BY <1>2, <1>d, <1>w DEF SetActiveEscrow, Change
<1>11. CASE calls' = calls \ {c} /\ UNCHANGED txs
  <2>1. UNCHANGED <<chainVars, txs>>
    BY <1>2, <1>11
  <2>2. Settles
    BY <2>1, QuietChain DEF Settles, chainVars
  <2>3. store' \in Store /\ StoreSound'
    BY <1>8, <1>10, <2>2, DirectorySettles
  <2> QED BY <1>1, <1>9, <1>10, <1>11, <2>1, <2>3, ChangeStep
<1>12. CASE Send(x) /\ \A o \in calls' : o \in calls \/ o = n
  <2>1. Len(txs) + 1 \in 1 .. MaxTxs
    BY <1>12, SendRoom DEF IInv
  <2>2. n \in Call
    BY <1>2, <2>1
  <2>3. x \in Tx /\ NewSound(x)
    <3>1. /\ x.op = "initialize" /\ x.status = "sent" /\ x.user = n.user /\ x.token = n.token
          /\ x.escrow = n.escrow /\ x.roles = n.roles /\ x \in Tx
      BY <1>2, <2>2 DEF Tx0, Tx, Call
    <3> QED BY <1>1, <1>2, <3>1 DEF NewSound
  <2>4. /\ txs' \in Seq(Tx) /\ Len(txs') = Len(txs) + 1 /\ Settles
        /\ OneHome' /\ RolesDeployed' /\ TxsSound' /\ AskedRoles'
    BY <1>2, <1>12, <2>3, SendGrows
  <2>r. PICK r : r = Rendered(tab[c.tab], w)
    OBVIOUS
  <2>5. r \in Tab /\ TabSound(r) /\ r.open
    BY <1>9, <2>r, RenderedFields, RenderedSound DEF Knows
  <2>6. tab' = [tab EXCEPT ![c.tab] = r]
    BY <1>10, <2>r
  <2>7. tab' \in [Tabs -> Tab] /\ TabsSound'
    BY <1>1, <2>4, <2>5, <2>6, TabSettles
  <2>8. store' \in Store /\ StoreSound'
    BY <1>8, <1>10, <2>4, DirectorySettles
  <2>9. \A s \in Tabs : tab[s].open => tab'[s].open
    BY <2>5, <2>6 DEF IInv, TypeOK
  <2>10. ASSUME NEW o \in calls PROVE o \in Call /\ CallSound(o)'
    <3>1. o \in Call /\ tab'[o.tab].open
      BY <2>9 DEF IInv, TypeOK, CallsSound, CallSound, Call
    <3> QED BY <1>2, <1>12, <2>3, <3>1, CallWaits
  <2>11. CallSound(n)'
    <3>1. tab'[n.tab].open
      BY <1>1, <1>2, <2>9
    <3>2. n.tx <= Len(txs')
      BY <1>2, <2>4 DEF IInv, TypeOK
    <3>3. Home(n.escrow, n.token)'
      BY <1>2, <2>4 DEF Settles
    <3>4. n.op = "create" /\ n.escrow # None /\ n.user \in Users /\ n.roles \in FullRoles
      BY <1>2, NoneFacts
    <3> QED BY <3>1, <3>2, <3>3, <3>4 DEF CallSound
  <2>12. calls' \subseteq Call /\ CallsSound'
    BY <1>12, <2>2, <2>10, <2>11 DEF CallsSound
  <2>13. TypeOK'
    BY <1>2, <2>4, <2>7, <2>8, <2>12 DEF IInv, TypeOK, chainVars
  <2> QED BY <2>4, <2>7, <2>8, <2>12, <2>13 DEF IInv
<1> QED BY <1>2, <1>11, <1>12

-----------------------------------------------------------------------------
(* Steps of the chain *)

\* The browser has not noticed a transaction that lands.
LEMMA LandKeeps ==
  ASSUME IInv, Settles, NEW i \in DOMAIN txs, NEW y \in Tx, y.op = txs[i].op, y.status = "ok",
         txs' = [txs EXCEPT ![i] = y], UNCHANGED <<ledger, store, tab, calls>>,
         y.op = "deploy_escrow" => y.token = txs[i].token,
         y.op = "deploy_token" => y.token \in Fresh /\ born'[y.token] = ledger
  PROVE  /\ txs' \in Seq(Tx) /\ DOMAIN txs' = DOMAIN txs
         /\ \A j \in DOMAIN txs : txs'[j] = IF j = i THEN y ELSE txs[j]
         /\ StoreSound' /\ TabsSound' /\ CallsSound'
<1>1. txs \in Seq(Tx)
  BY DEF IInv, TypeOK
<1>2. /\ txs' \in Seq(Tx) /\ DOMAIN txs' = DOMAIN txs /\ Len(txs') = Len(txs)
  BY <1>1, ExceptSeq
<1>3. \A j \in DOMAIN txs : txs'[j] = IF j = i THEN y ELSE txs[j]
  OBVIOUS
<1>4. StoreSound' /\ TabsSound'
  BY BrowserKept
<1>5. ASSUME NEW c \in calls PROVE CallSound(c)'
  <2>1. c \in Call /\ CallSound(c) /\ tab'[c.tab].open
    BY DEF IInv, TypeOK, CallsSound, CallSound
  <2>2. c.tx # 0 => c.tx \in DOMAIN txs
    BY <1>1, <2>1 DEF CallSound, Call
  <2>3. c.escrow \in Ids /\ Home(c.escrow, c.token) => Home(c.escrow, c.token)'
    BY DEF Settles
  <2>4. c.op = "create" /\ c.escrow = None /\ c.tx # 0 =>
          txs'[c.tx].op = "deploy_escrow" /\ txs'[c.tx].token = c.token
    BY <1>3, <2>1, <2>2 DEF CallSound
  <2>5. c.op = "token" /\ c.tx # 0 =>
          /\ txs'[c.tx].op = "deploy_token"
          /\ txs'[c.tx].status = "ok" => c.since <= born'[txs'[c.tx].token]
    <3>1. CASE c.tx = i
      BY <1>3, <2>1, <2>2, <3>1 DEF CallSound
    <3>2. CASE c.tx # i /\ c.tx # 0
      <4>1. txs'[c.tx] = txs[c.tx] /\ TxSound(txs[c.tx])
        BY <1>3, <2>2, <3>2 DEF IInv, TxsSound
      <4> QED BY <2>1, <3>2, <4>1 DEF CallSound, TxSound, Settles
    <3> QED BY <3>1, <3>2
  <2>6. c.escrow \in Ids \cup {None}
    BY <2>1 DEF Call
  <2> QED BY <1>2, <2>1, <2>3, <2>4, <2>5, <2>6 DEF CallSound
<1> QED BY <1>2, <1>3, <1>4, <1>5 DEF CallsSound

\* The contract of an escrow takes or keeps roles.
LEMMA BecomesStep ==
  ASSUME IInv, NEW i \in DOMAIN txs, txs[i].op \in {"initialize", "fund", "release"},
         NEW r \in Record, Becomes(i, r), txs[i].escrow \in deployed,
         Home(txs[i].escrow, r.token),
         LET s == escrows[txs[i].escrow]
         IN s # None => <<s.payer, s.receiver, s.approver, s.token>>
                          = <<r.payer, r.receiver, r.approver, r.token>>,
         txs[i].op = "initialize" =>
           /\ escrows[txs[i].escrow] = None
           /\ <<r.payer, r.receiver, r.approver, r.token>>
                = <<txs[i].roles.payer, txs[i].roles.receiver, txs[i].user, txs[i].token>>
  PROVE  IInv'
<1>e. PICK e : e = txs[i].escrow
  OBVIOUS
<1>y. PICK y : y = [txs[i] EXCEPT !.status = "ok"]
  OBVIOUS
<1>1. txs[i] \in Tx /\ TxSound(txs[i]) /\ e \in Ids /\ r # None
  BY <1>e, NoneFacts DEF IInv, TypeOK, TxsSound, TxSound
<1>2. /\ y \in Tx /\ y.op = txs[i].op /\ y.status = "ok" /\ y.token = txs[i].token
      /\ y.escrow = e /\ y.roles = txs[i].roles /\ y.user = txs[i].user
  BY <1>1, <1>e, <1>y DEF Tx
<1>3. /\ escrows' = [escrows EXCEPT ![e] = r] /\ txs' = [txs EXCEPT ![i] = y]
      /\ UNCHANGED <<ledger, born, deployed, store, tab, calls>>
  BY <1>e, <1>y DEF Becomes
<1>4. /\ escrows' \in [Ids -> Record \cup {None}]
      /\ \A f \in Ids : escrows'[f] = IF f = e THEN r ELSE escrows[f]
  BY <1>1, <1>3 DEF IInv, TypeOK
<1>5. DOMAIN txs' = DOMAIN txs /\ \A j \in DOMAIN txs : txs'[j] = IF j = i THEN y ELSE txs[j]
  BY <1>3
<1>6. \A j, f, k : Deploys(j, f, k)' /\ j \in DOMAIN txs <=> Deploys(j, f, k) /\ j \in DOMAIN txs
  BY <1>2, <1>5 DEF Deploys
<1>7. \A f \in Ids : \A k : Home(f, k)' <=> Home(f, k)
  <2>1. ASSUME NEW f \in Ids, f # e, NEW k PROVE Home(f, k)' <=> Home(f, k)
    BY <1>4, <1>5, <1>6, <2>1 DEF Home
  <2>2. ASSUME NEW k, Home(e, k) PROVE Home(e, k)'
    BY <1>1, <1>4, <1>5, <1>6, <1>e, <2>2 DEF Home
  <2>3. ASSUME NEW k, Home(e, k)' PROVE Home(e, k)
    BY <1>1, <1>4, <1>5, <1>6, <1>e, <2>3 DEF Home
  <2> QED BY <2>1, <2>2, <2>3
<1>8. Settles
  BY <1>3, <1>7 DEF Settles
<1>9. txs' \in Seq(Tx) /\ StoreSound' /\ TabsSound' /\ CallsSound'
  BY <1>1, <1>2, <1>3, <1>8, LandKeeps
<1>10. OneHome'
  BY <1>7 DEF IInv, OneHome
<1>11. RolesDeployed'
  BY <1>3, <1>4, <1>e DEF IInv, RolesDeployed
<1>12. ASSUME NEW j \in DOMAIN txs' PROVE TxSound(txs[j])'
  <2>1. j \in DOMAIN txs /\ TxSound(txs[j]) /\ txs[j] \in Tx
    BY <1>5 DEF IInv, TypeOK, TxsSound
  <2>2. /\ txs'[j].op = txs[j].op /\ txs'[j].token = txs[j].token /\ txs'[j].roles = txs[j].roles
        /\ txs'[j].escrow = txs[j].escrow
        /\ txs'[j].status = txs[j].status \/ j = i
    BY <1>2, <1>5, <1>e, <2>1
  <2>3. txs[j].op = "initialize" =>
          /\ txs[j].escrow \in Ids /\ Home(txs[j].escrow, txs[j].token)'
          /\ txs'[j].status = "ok" => escrows'[txs[j].escrow] # None
    BY <1>1, <1>4, <1>7, <1>e, <2>1, <2>2 DEF TxSound
  <2>4. txs[j].op \in {"deploy_escrow", "deploy_token"} => txs'[j].status = txs[j].status
    BY <2>2
  <2> QED BY <1>3, <2>1, <2>2, <2>3, <2>4 DEF TxSound
<1>13. AskedRoles'
  <2> SUFFICES ASSUME NEW j \in DOMAIN txs, txs'[j].op = "initialize", txs'[j].status = "ok"
               PROVE  LET s == escrows'[txs'[j].escrow]
                      IN <<s.payer, s.receiver, s.approver, s.token>>
                           = <<txs'[j].roles.payer, txs'[j].roles.receiver, txs'[j].user,
                               txs'[j].token>>
    BY <1>5 DEF AskedRoles
  <2>1. CASE j = i
    BY <1>1, <1>2, <1>4, <1>5, <2>1
  <2>2. CASE j # i
    <3>1. txs'[j] = txs[j] /\ txs[j].escrow \in Ids /\ escrows[txs[j].escrow] # None
      BY <1>5, <2>2 DEF IInv, TxsSound, TxSound
    <3>2. LET s == escrows[txs[j].escrow]
          IN <<s.payer, s.receiver, s.approver, s.token>>
               = <<txs[j].roles.payer, txs[j].roles.receiver, txs[j].user, txs[j].token>>
      BY <3>1 DEF IInv, AskedRoles
    <3> QED BY <1>4, <1>e, <3>1, <3>2
  <2> QED BY <2>1, <2>2
<1>14. TypeOK'
  BY <1>3, <1>4, <1>9 DEF IInv, TypeOK
<1> QED BY <1>9, <1>10, <1>11, <1>12, <1>13, <1>14 DEF IInv, TxsSound

LEMMA LandInitializeStep ==
  ASSUME IInv, NEW i \in DOMAIN txs, LandInitialize(i) PROVE IInv'
<1>r. PICK r : r = [payer |-> txs[i].roles.payer, receiver |-> txs[i].roles.receiver,
                    approver |-> txs[i].user, token |-> txs[i].token, status |-> "Initialized"]
  OBVIOUS
<1>1. /\ txs[i].op = "initialize" /\ Accepts(txs[i]) /\ Becomes(i, r)
  BY <1>r DEF LandInitialize, Lands
<1>2. txs[i].escrow \in deployed /\ escrows[txs[i].escrow] = None
  BY <1>1 DEF Accepts, NotInitialized
<1>3. txs[i] \in Tx /\ TxSound(txs[i])
  BY DEF IInv, TypeOK, TxsSound
<1>4. r \in Record
  BY <1>1, <1>3, <1>r DEF TxSound, FullRoles, Tx, Record, Statuses
<1>5. Home(txs[i].escrow, r.token)
  BY <1>1, <1>3, <1>r DEF TxSound
<1> QED BY <1>1, <1>2, <1>4, <1>5, <1>r, BecomesStep

\* The status changes, the roles stay.
LEMMA StatusStep ==
  ASSUME IInv, NEW i \in DOMAIN txs, txs[i].op \in {"fund", "release"}, NEW status \in Statuses,
         escrows[txs[i].escrow] # None, Becomes(i, [escrows[txs[i].escrow] EXCEPT !.status = status])
  PROVE  IInv'
<1>r. PICK r : r = [escrows[txs[i].escrow] EXCEPT !.status = status]
  OBVIOUS
<1>1. txs[i].escrow \in Ids /\ txs[i].escrow \in deployed /\ escrows[txs[i].escrow] \in Record
  BY DEF IInv, TypeOK, TxsSound, TxSound, RolesDeployed
<1>2. /\ r \in Record /\ r.payer = escrows[txs[i].escrow].payer
      /\ r.receiver = escrows[txs[i].escrow].receiver
      /\ r.approver = escrows[txs[i].escrow].approver /\ r.token = escrows[txs[i].escrow].token
  BY <1>1, <1>r DEF Record
<1>3. Becomes(i, r)
  BY <1>r
<1>4. Home(txs[i].escrow, r.token)
  BY <1>2 DEF Home
<1> QED BY <1>1, <1>2, <1>3, <1>4, BecomesStep

LEMMA LandFundStep ==
  ASSUME IInv, NEW i \in DOMAIN txs, LandFund(i) PROVE IInv'
<1>1. txs[i].op = "fund" /\ Accepts(txs[i])
  BY DEF LandFund, Lands
<1>2. escrows[txs[i].escrow] # None
  BY <1>1 DEF Accepts, HasStatus
<1> QED BY <1>1, <1>2, StatusStep DEF LandFund, Statuses

LEMMA LandReleaseStep ==
  ASSUME IInv, NEW i \in DOMAIN txs, LandRelease(i) PROVE IInv'
<1>1. txs[i].op = "release" /\ Accepts(txs[i])
  BY DEF LandRelease, Lands
<1>2. escrows[txs[i].escrow] # None
  BY <1>1 DEF Accepts, HasStatus
<1> QED BY <1>1, <1>2, StatusStep DEF LandRelease, Statuses

\* The factory deploys at a fresh address: it had no home before.
LEMMA LandEscrowStep ==
  ASSUME IInv, NEW i \in DOMAIN txs, LandEscrow(i) PROVE IInv'
<1>1. PICK e \in Ids \ deployed :
        /\ deployed' = deployed \cup {e}
        /\ txs' = [txs EXCEPT ![i].status = "ok", ![i].escrow = e]
  BY DEF LandEscrow
<1>z. PICK z : z = [txs[i] EXCEPT !.status = "ok"]
  OBVIOUS
<1>y. PICK y : y = [z EXCEPT !.escrow = e]
  OBVIOUS
<1>2. /\ txs[i].op = "deploy_escrow" /\ txs[i].status = "sent"
      /\ UNCHANGED <<ledger, born, escrows, store, tab, calls>>
  BY DEF LandEscrow, Lands
<1>3. txs[i] \in Tx /\ txs[i].token \in Tokens
  BY <1>2 DEF IInv, TypeOK, TxsSound, TxSound
<1>4. z \in Tx /\ z.op = txs[i].op /\ z.status = "ok" /\ z.token = txs[i].token
  BY <1>3, <1>z DEF Tx
<1>5. y \in Tx /\ y.op = "deploy_escrow" /\ y.status = "ok" /\ y.token = txs[i].token /\ y.escrow = e
  BY <1>2, <1>4, <1>y DEF Tx
<1>6. txs' = [txs EXCEPT ![i] = y]
  BY <1>1, <1>y, <1>z DEF IInv, TypeOK
<1>7. DOMAIN txs' = DOMAIN txs /\ \A j \in DOMAIN txs : txs'[j] = IF j = i THEN y ELSE txs[j]
  BY <1>6
<1>8. \A f \in Ids : \A k : Home(f, k)' <=> Home(f, k) \/ (f = e /\ k = y.token)
  <2>1. \A j \in DOMAIN txs : \A f, k :
          Deploys(j, f, k)' <=> Deploys(j, f, k) \/ (j = i /\ f = e /\ k = y.token)
    BY <1>2, <1>5, <1>7 DEF Deploys
  <2> QED BY <1>2, <1>7, <2>1 DEF Home
<1>9. \A k : ~Home(e, k)
  <2>1. \A j \in DOMAIN txs : \A k : ~Deploys(j, e, k)
    BY <1>1 DEF IInv, TxsSound, TxSound, Deploys
  <2>2. escrows[e] = None
    BY <1>1 DEF IInv, RolesDeployed
  <2> QED BY <2>1, <2>2 DEF Home
<1>10. Settles
  BY <1>2, <1>8 DEF Settles
<1>11. txs' \in Seq(Tx) /\ StoreSound' /\ TabsSound' /\ CallsSound'
  BY <1>2, <1>5, <1>6, <1>10, LandKeeps
<1>12. OneHome'
  BY <1>8, <1>9 DEF IInv, OneHome
<1>13. RolesDeployed' /\ deployed' \subseteq Ids
  BY <1>1, <1>2 DEF IInv, TypeOK, RolesDeployed
<1>14. ASSUME NEW j \in DOMAIN txs' PROVE TxSound(txs[j])'
  <2>1. CASE j = i
    <3>1. txs'[j] = y /\ y.op = "deploy_escrow" /\ y.token \in Tokens /\ y.escrow \in deployed'
      BY <1>1, <1>3, <1>5, <1>7, <2>1
    <3> QED BY <3>1 DEF TxSound
  <2>2. CASE j # i
    <3>1. txs'[j] = txs[j] /\ TxSound(txs[j])
      BY <1>7, <2>2 DEF IInv, TxsSound
    <3> QED BY <1>1, <1>2, <1>10, <3>1 DEF TxSound, Settles
  <2> QED BY <2>1, <2>2
<1>15. AskedRoles'
  BY <1>2, <1>5, <1>7 DEF IInv, AskedRoles
<1>16. TypeOK'
  BY <1>2, <1>11, <1>13 DEF IInv, TypeOK
<1> QED BY <1>11, <1>12, <1>13, <1>14, <1>15, <1>16 DEF IInv, TxsSound

\* A token is deployed in the last ledger, which no call that waits for it is ahead of.
LEMMA LandTokenStep ==
  ASSUME IInv, NEW i \in DOMAIN txs, LandToken(i) PROVE IInv'
<1>1. PICK k \in Fresh :
        /\ born[k] = 0 /\ born' = [born EXCEPT ![k] = ledger]
        /\ txs' = [txs EXCEPT ![i].status = "ok", ![i].token = k]
  BY DEF LandToken
<1>z. PICK z : z = [txs[i] EXCEPT !.status = "ok"]
  OBVIOUS
<1>y. PICK y : y = [z EXCEPT !.token = k]
  OBVIOUS
<1>2. /\ txs[i].op = "deploy_token" /\ txs[i].status = "sent"
      /\ UNCHANGED <<ledger, escrows, deployed, store, tab, calls>>
  BY DEF LandToken, Lands
<1>3. z \in Tx /\ z.op = txs[i].op /\ z.status = "ok"
  <2>1. txs[i] \in Tx
    BY DEF IInv, TypeOK
  <2> QED BY <1>z, <2>1 DEF Tx
<1>4. y \in Tx /\ y.op = "deploy_token" /\ y.status = "ok" /\ y.token = k
  BY <1>2, <1>3, <1>y DEF Tx, Tokens
<1>5. txs' = [txs EXCEPT ![i] = y]
  BY <1>1, <1>y, <1>z DEF IInv, TypeOK
<1>6. DOMAIN txs' = DOMAIN txs /\ \A j \in DOMAIN txs : txs'[j] = IF j = i THEN y ELSE txs[j]
  BY <1>5
<1>7. /\ ledger \in 1 .. MaxLedger /\ born' \in [Fresh -> 0 .. MaxLedger] /\ born'[k] = ledger
      /\ \A l \in Fresh : l # k => born'[l] = born[l]
  BY <1>1, WorkflowAssumption DEF IInv, TypeOK
<1>8. \A f, l : Home(f, l)' <=> Home(f, l)
  <2>1. \A j \in DOMAIN txs : \A f, l : Deploys(j, f, l)' <=> Deploys(j, f, l)
    BY <1>2, <1>4, <1>6 DEF Deploys
  <2> QED BY <1>2, <1>6, <2>1 DEF Home
<1>9. Settles
  BY <1>1, <1>7, <1>8 DEF Settles
<1>10. txs' \in Seq(Tx) /\ StoreSound' /\ TabsSound' /\ CallsSound'
  BY <1>2, <1>4, <1>5, <1>7, <1>9, LandKeeps
<1>11. OneHome' /\ RolesDeployed'
  BY <1>2, <1>8 DEF IInv, OneHome, RolesDeployed
<1>12. ASSUME NEW j \in DOMAIN txs' PROVE TxSound(txs[j])'
  <2>1. CASE j = i
    BY <1>4, <1>6, <1>7, <2>1 DEF TxSound
  <2>2. CASE j # i
    <3>1. txs'[j] = txs[j] /\ TxSound(txs[j])
      BY <1>6, <2>2 DEF IInv, TxsSound
    <3> QED BY <1>2, <1>8, <1>9, <3>1 DEF TxSound, Settles
  <2> QED BY <2>1, <2>2
<1>13. AskedRoles'
  BY <1>2, <1>4, <1>6 DEF IInv, AskedRoles
<1>14. TypeOK'
  BY <1>2, <1>7, <1>10 DEF IInv, TypeOK
<1> QED BY <1>10, <1>11, <1>12, <1>13, <1>14 DEF IInv, TxsSound

LEMMA CloseLedgerStep ==
  ASSUME IInv, CloseLedger PROVE IInv'
<1>1. /\ ledger' = ledger + 1 /\ ledger < MaxLedger
      /\ UNCHANGED <<born, escrows, deployed, txs, store, tab, calls>>
  BY DEF CloseLedger
<1>2. \A e, k : Home(e, k)' <=> Home(e, k)
  BY <1>1 DEF Home, Deploys
<1>3. TypeOK' /\ OneHome' /\ RolesDeployed' /\ AskedRoles'
  BY <1>1, <1>2, WorkflowAssumption DEF IInv, TypeOK, OneHome, RolesDeployed, AskedRoles
<1>4. TxsSound'
  BY <1>1, <1>2 DEF IInv, TxsSound, TxSound
<1>5. StoreSound' /\ TabsSound'
  BY <1>1, <1>2, BrowserKept DEF Settles
<1>6. CallsSound'
  <2> SUFFICES ASSUME NEW c \in calls PROVE CallSound(c)'
    BY <1>1 DEF CallsSound
  <2>1. c \in Call /\ CallSound(c) /\ ledger \in Nat
    BY DEF IInv, TypeOK, CallsSound
  <2> QED BY <1>1, <1>2, <2>1 DEF CallSound, Call
<1> QED BY <1>3, <1>4, <1>5, <1>6 DEF IInv

LEMMA StutterStep ==
  ASSUME IInv, UNCHANGED vars PROVE IInv'
<1>1. UNCHANGED <<chainVars, txs, store, tab, calls>>
  BY DEF vars
<1>2. store' \in Store /\ StoreSound'
  BY <1>1, StoreKept DEF IInv, TypeOK
<1>3. tab' \in [Tabs -> Tab] /\ \A s \in Tabs : TabSound(tab[s])'
  BY <1>1, QuietChain DEF IInv, TypeOK, TabsSound, TabSound, AtHome, Selected, Active
<1>4. ASSUME NEW o \in calls' PROVE o \in Call /\ CallSound(o)'
  <2>1. o \in calls /\ o \in Call /\ tab'[o.tab].open
    BY <1>1 DEF IInv, TypeOK, CallsSound, CallSound
  <2> QED BY <1>1, <2>1, CallKept
<1> QED BY <1>1, <1>2, <1>3, <1>4, QuietStep

-----------------------------------------------------------------------------
LEMMA OldRecordType == OldRecord \in Record /\ OldRecord.token = Default
<1> DEFINE f == CHOOSE f \in Forms : TRUE
           w == CHOOSE w \in Users : w \notin {f[1], f[2]}
<1>1. f \in Forms
  BY WorkflowAssumption
<1> HIDE DEF f
<1>2. f[1] \in Users /\ f[2] \in Users /\ w \in Users
  BY <1>1, WorkflowAssumption
<1> HIDE DEF w
<1>3. OldRecord = [payer |-> f[1], receiver |-> f[2], approver |-> w, token |-> Default,
                   status |-> "Initialized"]
  BY DEF OldRecord, f, w
<1> QED BY <1>2, <1>3 DEF Record, Statuses, Tokens

LEMMA InitInv == Init => IInv
<1> SUFFICES ASSUME Init PROVE IInv
  OBVIOUS
<1>r. PICK r : r = OldRecord
  OBVIOUS
<1>3. r \in Record /\ r.token = Default
  BY <1>r, OldRecordType
<1>4. PICK old \in Ids :
        /\ Configured \in {old, None}
        /\ deployed = {old}
        /\ escrows = [e \in Ids |-> IF e = old THEN r ELSE None]
        /\ \E legacy \in {old, None} :
             store = [advanced |-> None, which |-> "default", directory |-> Closed.directory,
                      legacy |-> [k \in Tokens |-> IF k = Default THEN legacy ELSE None]]
  BY <1>r DEF Init
<1>5. PICK legacy \in {old, None} :
        store = [advanced |-> None, which |-> "default", directory |-> Closed.directory,
                 legacy |-> [k \in Tokens |-> IF k = Default THEN legacy ELSE None]]
  BY <1>4
<1>6. /\ ledger = 1 /\ born = [k \in Fresh |-> 0] /\ txs = <<>> /\ calls = {}
      /\ tab = [t \in Tabs |-> Closed]
  BY DEF Init
<1>7. /\ Closed \in Tab /\ TabSound(Closed) /\ Closed.directory \in Directory
      /\ AtHome(Closed.directory)
  BY ClosedSound DEF Tab, TabSound
<1>8. store \in Store /\ store.directory = Closed.directory /\ store.advanced = None
  BY <1>5, <1>7 DEF Store, Which
<1>9. escrows \in [Ids -> Record \cup {None}]
  BY <1>3, <1>4
<1>10. TypeOK
  BY <1>4, <1>6, <1>7, <1>8, <1>9, WorkflowAssumption DEF TypeOK
<1>11. \A e \in Ids, k \in Tokens : Home(e, k) <=> e = old /\ k = Default
  <2>1. DOMAIN txs = {}
    BY <1>6
  <2>2. \A e \in Ids : escrows[e] = IF e = old THEN r ELSE None
    BY <1>4
  <2>3. r # None /\ r.token = Default
    BY <1>3, NoneFacts
  <2> QED BY <2>1, <2>2, <2>3 DEF Home
<1>12. OneHome /\ RolesDeployed
  BY <1>4, <1>11 DEF OneHome, RolesDeployed
<1>13. TxsSound /\ AskedRoles /\ CallsSound
  BY <1>6 DEF TxsSound, AskedRoles, CallsSound
<1>14. StoreSound
  <2>1. \A k \in Tokens : store.legacy[k] \in Ids => Home(store.legacy[k], k)
    BY <1>5, <1>11, NoneFacts
  <2>2. Configured \in Ids => Home(Configured, Default)
    BY <1>4, <1>11, NoneFacts DEF Tokens
  <2> QED BY <1>7, <1>8, <2>1, <2>2 DEF StoreSound
<1>15. TabsSound
  BY <1>6, <1>7 DEF TabsSound
<1> QED BY <1>10, <1>12, <1>13, <1>14, <1>15 DEF IInv

LEMMA NextStep == IInv /\ [Next]_vars => IInv'
<1> SUFFICES ASSUME IInv, [Next]_vars PROVE IInv'
  OBVIOUS
<1>1. ASSUME NEW t \in Tabs,
             \/ Open(t) \/ Close(t) \/ Navigate(t) \/ SetWhich(t) \/ ClearAdvanced(t)
             \/ SelectEscrow(t) \/ ShowState(t)
      PROVE  IInv'
  BY <1>1, OpenStep, CloseStep, NavigateStep, SetWhichStep, ClearAdvancedStep, SelectEscrowStep,
     ShowStateStep
<1>2. ASSUME NEW t \in Tabs,
             \/ ClickConnect(t) \/ ClickCreate(t) \/ ClickResume(t) \/ ClickRelease(t)
             \/ ClickFund(t) \/ ClickDeploy(t)
      PROVE  IInv'
  BY <1>2, ClickConnectStep, SendingStep DEF Sending
<1>3. ASSUME NEW c \in calls,
             Connected(c) \/ Deployed(c) \/ Finish(c) \/ SaveAdvanced(c) \/ Fail(c)
      PROVE  IInv'
  BY <1>3, ConnectedStep, DeployedStep, FinishStep, SaveAdvancedStep, FailStep
<1>4. ASSUME NEW i \in DOMAIN txs,
             LandEscrow(i) \/ LandToken(i) \/ LandInitialize(i) \/ LandFund(i) \/ LandRelease(i)
      PROVE  IInv'
  BY <1>4, LandEscrowStep, LandTokenStep, LandInitializeStep, LandFundStep, LandReleaseStep
<1>5. CASE CloseLedger
  BY <1>5, CloseLedgerStep
<1>6. CASE UNCHANGED vars
  BY <1>6, StutterStep
<1> QED BY <1>1, <1>2, <1>3, <1>4, <1>5, <1>6 DEF Next

\* The invariant holds of every behaviour of the browser and the chain.
THEOREM Invariance == Spec => []IInv
BY InitInv, NextStep, PTL DEF Spec

-----------------------------------------------------------------------------
\* The variables hold what their declarations say.
THEOREM TypeCorrect == Spec => []TypeOK
<1>1. IInv => TypeOK
  BY DEF IInv
<1> QED BY <1>1, Invariance, PTL

\* However many tabs run, no answer that comes late leaves the approver page with a controller of an
\* escrow that is not selected (the effect of approver/page.tsx that disconnects it).
THEOREM ControllersFollow == Spec => []ControllerFollows
<1>1. IInv => ControllerFollows
  BY DEF IInv, TabsSound, TabSound, ControllerFollows, On
<1> QED BY <1>1, Invariance, PTL

\* Whatever tokens are switched, cleared or deployed meanwhile, a connected approver derives the
\* spender key of the token its escrow is bound to (approver/page.tsx connect, escrow.ts create).
THEOREM ApproversHoldKeys == Spec => []ApproverHoldsKey
<1>1. IInv => ApproverHoldsKey
  <2> SUFFICES ASSUME IInv, NEW t \in Tabs, tab[t].agent # None,
                      escrows[tab[t].agent.escrow] # None
               PROVE  escrows[tab[t].agent.escrow].token = tab[t].agent.token
    BY DEF ApproverHoldsKey
  <2>e. PICK e : e = tab[t].agent.escrow
    OBVIOUS
  <2>1. e \in Ids /\ Home(e, tab[t].agent.token) /\ tab[t].agent.token \in Tokens
    BY <2>e DEF IInv, TypeOK, TabsSound, TabSound, Tab, Agent
  <2>2. Home(e, escrows[e].token) /\ escrows[e].token \in Tokens
    BY <2>1, <2>e DEF Home, IInv, TypeOK, Record
  <2> QED BY <2>1, <2>2, <2>e DEF IInv, OneHome
<1> QED BY <1>1, Invariance, PTL

\* A confirmed initialization gave the escrow the roles its page asked for, and no later transaction
\* changed them, however many creations and resumed initializations compete.
THEOREM InitializationsKept == Spec => []AskedRoles
<1>1. IInv => AskedRoles
  BY DEF IInv
<1> QED BY <1>1, Invariance, PTL

\* The first sync of a saved deployment misses no event of its token, however long the deployment
\* took (advanced/page.tsx reads the head before it deploys).
THEOREM ColdStartsCover == Spec => []ColdStartCovers
<1>1. IInv => ColdStartCovers
  BY DEF IInv, TypeOK, Store, Deployment, StoreSound, ColdStartCovers
<1> QED BY <1>1, Invariance, PTL

-----------------------------------------------------------------------------
(* With one tab, localStorage holds the directory that the tab shows: no    *)
(* escrow that a call, an agent or a transaction works on is forgotten.     *)

OneTabOnly == \A s, t \in Tabs : s = t

\* A tab opened now offers the escrow under the token.
Offers(s, e, k) == e \in TokenEscrows(Restored(s), k)
Reach(e, k) == Offers(store, e, k)

TabReach(w) == w.open =>
  /\ w.directory = store.directory
  /\ w.agent # None => Reach(w.agent.escrow, w.agent.token)
TabsReach == \A t \in Tabs : TabReach(tab[t])
SelectedReach ==
  \A k \in Tokens : store.directory.selected[k] # None => Reach(store.directory.selected[k], k)
CallReach(c) ==
  c.op = "connect" \/ (c.op = "create" /\ c.escrow # None) => Reach(c.escrow, c.token)
CallsReach == \A c \in calls : CallReach(c)
TxReach(x) == x.op = "initialize" => Reach(x.escrow, x.token)
TxsReach == \A i \in DOMAIN txs : TxReach(txs[i])

\* An escrow with roles is filed under the token they are bound to, abandoned or not.
EscrowsFiled ==
  \A e \in Ids : escrows[e] # None => e \in TokenEscrows(Restored(store), escrows[e].token)

ReachInv == TabsReach /\ SelectedReach /\ CallsReach /\ TxsReach /\ EscrowsFiled

LEMMA Reaches ==
  ASSUME NEW s, NEW k \in Tokens, NEW e
  PROVE  Offers(s, e, k) <=> \/ e \in s.directory.known[k]
                             \/ e = s.legacy[k] /\ e # None
                             \/ k = Default /\ e = Configured /\ e # None
<1>1. Restored(s).directory = Upgraded(s)
  BY DEF Restored, Closed
<1>2. Upgraded(s).known[k] = s.directory.known[k] \cup ({s.legacy[k]} \ {None})
  BY DEF Upgraded
<1> QED BY <1>1, <1>2 DEF Offers, TokenEscrows

\* The directory never forgets an escrow.
Grows ==
  /\ store'.legacy = store.legacy
  /\ \A k \in Tokens : store.directory.known[k] \subseteq store'.directory.known[k]

LEMMA ReachGrows ==
  ASSUME Grows, NEW k \in Tokens, NEW e, Reach(e, k)
  PROVE  Reach(e, k)'
<1>1. \/ e \in store.directory.known[k]
      \/ e = store.legacy[k] /\ e # None
      \/ k = Default /\ e = Configured /\ e # None
  BY Reaches DEF Reach
<1>2. \/ e \in store'.directory.known[k]
      \/ e = store'.legacy[k] /\ e # None
      \/ k = Default /\ e = Configured /\ e # None
  BY <1>1 DEF Grows
<1>3. Offers(store', e, k)
  BY <1>2, Reaches
<1> QED BY <1>3 DEF Reach

\* What is left to show of a step that initializes no escrow.
LEMMA ReachStep ==
  ASSUME IInv, ReachInv, Grows, UNCHANGED escrows, TabsReach', SelectedReach',
         \A c \in calls' : c \in calls \/ CallReach(c)',
         \A i \in DOMAIN txs' : \/ i \in DOMAIN txs /\ txs'[i] = txs[i]
                                \/ TxReach(txs[i])'
  PROVE  ReachInv'
<1>1. CallsReach'
  <2>1. ASSUME NEW c \in calls PROVE CallReach(c)'
    <3>1. c.token \in Tokens /\ CallReach(c)
      BY DEF IInv, TypeOK, Call, ReachInv, CallsReach
    <3> QED BY <3>1, ReachGrows DEF CallReach
  <2> QED BY <2>1 DEF CallsReach
<1>2. TxsReach'
  <2>1. ASSUME NEW i \in DOMAIN txs, txs'[i] = txs[i] PROVE TxReach(txs[i])'
    <3>1. TxReach(txs[i]) /\ TxSound(txs[i])
      BY DEF IInv, TxsSound, ReachInv, TxsReach
    <3> QED BY <2>1, <3>1, ReachGrows DEF TxReach, TxSound
  <2> QED BY <2>1 DEF TxsReach
<1>3. EscrowsFiled'
  <2> SUFFICES ASSUME NEW e \in Ids, escrows[e] # None PROVE Reach(e, escrows[e].token)'
    BY DEF EscrowsFiled, Reach, Offers
  <2>k. PICK k : k = escrows[e].token
    OBVIOUS
  <2>1. k \in Tokens
    BY <2>k DEF IInv, TypeOK, Record
  <2>2. Reach(e, k)
    BY <2>k DEF ReachInv, EscrowsFiled, Reach, Offers
  <2>3. Reach(e, k)'
    BY <2>1, <2>2, ReachGrows
  <2>4. escrows'[e].token = k
    BY <2>k
  <2> QED BY <2>3, <2>4
<1> QED BY <1>1, <1>2, <1>3 DEF ReachInv

\* The directory stays.
Kept == store'.directory = store.directory /\ store'.legacy = store.legacy

LEMMA KeptReach ==
  ASSUME ReachInv, Kept
  PROVE  Grows /\ SelectedReach' /\ \A k \in Tokens : \A e : Reach(e, k) => Reach(e, k)'
<1>1. Grows
  BY DEF Kept, Grows
<1>2. \A k \in Tokens : \A e : Reach(e, k) => Reach(e, k)'
  BY <1>1, ReachGrows
<1> QED BY <1>1, <1>2 DEF ReachInv, SelectedReach, Kept

\* What a tab keeps, or what the user of a page newly works on, is offered.
LEMMA QuietReach ==
  ASSUME IInv, ReachInv, Kept, UNCHANGED escrows,
         \A s \in Tabs : tab'[s].open =>
           /\ tab[s].open /\ tab'[s].directory = tab[s].directory
           /\ \/ tab'[s].agent \in {None, tab[s].agent}
              \/ tab'[s].agent.token \in Tokens /\ Reach(tab'[s].agent.escrow, tab'[s].agent.token),
         \A c \in calls' : c \in calls \/ (c.token \in Tokens /\ CallReach(c)),
         UNCHANGED txs
  PROVE  ReachInv'
<1>1. \A s \in Tabs : tab[s].agent # None => tab[s].agent.token \in Tokens
  BY DEF IInv, TypeOK, Tab, Agent
<1>2. TabsReach'
  <2> SUFFICES ASSUME NEW s \in Tabs, tab'[s].open
               PROVE  TabReach(tab[s])'
    BY DEF TabsReach, TabReach
  <2>a. PICK a : a = tab'[s].agent
    OBVIOUS
  <2>1. tab[s].open /\ tab'[s].directory = tab[s].directory
    OBVIOUS
  <2>2. TabReach(tab[s])
    BY DEF ReachInv, TabsReach
  <2>3. a # None => a.token \in Tokens /\ Reach(a.escrow, a.token)
    BY <1>1, <2>1, <2>2, <2>a DEF TabReach
  <2>4. a # None => Reach(a.escrow, a.token)'
    BY <2>3, KeptReach
  <2> QED BY <2>1, <2>2, <2>4, <2>a DEF TabReach, Kept, Reach
<1>3. \A c \in calls' : c \in calls \/ CallReach(c)'
  BY KeptReach DEF CallReach
<1> QED BY <1>2, <1>3, KeptReach, ReachStep

\* A tab renders what it had, or an agent that is offered.
LEMMA RenderReach ==
  ASSUME IInv, ReachInv, Kept, UNCHANGED <<escrows, txs>>, NEW t \in Tabs, tab[t].open,
         NEW w \in Tab, w.directory = tab[t].directory,
         w.agent \in {None, tab[t].agent} \/ Reach(w.agent.escrow, w.agent.token),
         tab' = [tab EXCEPT ![t] = Rendered(@, w)],
         \A c \in calls' : c \in calls \/ (c.token \in Tokens /\ CallReach(c))
  PROVE  ReachInv'
<1>r. PICK r : r = Rendered(tab[t], w)
  OBVIOUS
<1>1. r.directory = w.directory /\ r.agent \in {None, w.agent}
  BY <1>r, RenderedFields
<1>2. tab' = [tab EXCEPT ![t] = r]
  BY <1>r
<1>3. w.agent # None => w.agent.token \in Tokens
  BY DEF Tab, Agent
<1>4. ASSUME NEW s \in Tabs, tab'[s].open
      PROVE  /\ tab[s].open /\ tab'[s].directory = tab[s].directory
             /\ \/ tab'[s].agent \in {None, tab[s].agent}
                \/ tab'[s].agent.token \in Tokens /\ Reach(tab'[s].agent.escrow, tab'[s].agent.token)
  <2>1. CASE s = t
    <3>1. tab'[s] = r
      BY <1>2, <2>1 DEF IInv, TypeOK
    <3>2. \/ r.agent \in {None, tab[t].agent}
          \/ r.agent.token \in Tokens /\ Reach(r.agent.escrow, r.agent.token)
      <4>1. CASE r.agent = None \/ w.agent \in {None, tab[t].agent}
        BY <1>1, <4>1
      <4>2. CASE r.agent = w.agent /\ w.agent # None /\ Reach(w.agent.escrow, w.agent.token)
        BY <1>3, <4>2
      <4> QED BY <1>1, <4>1, <4>2
    <3> QED BY <1>1, <2>1, <3>1, <3>2
  <2>2. CASE s # t
    BY <1>2, <1>4, <2>2 DEF IInv, TypeOK
  <2> QED BY <2>1, <2>2
<1> QED BY <1>4, QuietReach

\* The calls of a page that is left work on no escrow yet.
LEMMA LeftReach ==
  ASSUME TypeOK, NEW t \in Tabs, NEW c \in Left(t)
  PROVE  c \in calls \/ (c.token \in Tokens /\ CallReach(c))
<1>1. CASE c \notin calls
  <2>1. PICK o \in calls : /\ o.op = "token" \/ (o.op = "create" /\ o.escrow = None)
                           /\ c = [o EXCEPT !.live = FALSE]
    BY <1>1 DEF Left
  <2>2. o \in Call
    BY DEF TypeOK
  <2>3. c.op = o.op /\ c.escrow = o.escrow /\ c.token = o.token /\ c.token \in Tokens
    BY <2>1, <2>2 DEF Call
  <2>4. CallReach(c)
    BY <2>1, <2>3 DEF CallReach
  <2> QED BY <2>3, <2>4
<1> QED BY <1>1

LEMMA NavigateReach ==
  ASSUME IInv, ReachInv, NEW t \in Tabs, Navigate(t) PROVE ReachInv'
<1>1. PICK p \in {"home", "approver", "payer"} :
        tab' = [tab EXCEPT ![t] = Rendered(@, [@ EXCEPT !.page = p, !.agent = None, !.shown = None,
                                                         !.reading = {}])]
  BY DEF Navigate
<1>w. PICK w : w = [tab[t] EXCEPT !.page = p, !.agent = None, !.shown = None, !.reading = {}]
  OBVIOUS
<1>2. tab[t] \in Tab /\ tab[t].open /\ TypeOK
  BY DEF Navigate, IInv, TypeOK
<1>3. w \in Tab /\ w.directory = tab[t].directory /\ w.agent = None
  BY <1>2, <1>w DEF Tab
<1>4. tab' = [tab EXCEPT ![t] = Rendered(@, w)]
  BY <1>1, <1>w
<1>5. Kept /\ UNCHANGED <<escrows, txs>> /\ calls' = Left(t)
  BY DEF Navigate, Kept, chainVars
<1>6. \A c \in calls' : c \in calls \/ (c.token \in Tokens /\ CallReach(c))
  BY <1>2, <1>5, LeftReach
<1> QED BY <1>2, <1>3, <1>4, <1>5, <1>6, RenderReach

LEMMA SetWhichReach ==
  ASSUME IInv, ReachInv, NEW t \in Tabs, SetWhich(t) PROVE ReachInv'
<1>1. PICK v \in Which : /\ Change(t, [tab[t] EXCEPT !.which = v])
                         /\ store' = [store EXCEPT !.which = v]
  BY DEF SetWhich
<1>w. PICK w : w = [tab[t] EXCEPT !.which = v]
  OBVIOUS
<1>2. tab[t] \in Tab /\ tab[t].open /\ store \in Store
  BY DEF SetWhich, IInv, TypeOK
<1>3. w \in Tab /\ w.directory = tab[t].directory /\ w.agent = tab[t].agent
  BY <1>2, <1>w DEF Tab
<1>4. tab' = [tab EXCEPT ![t] = Rendered(@, w)]
  BY <1>1, <1>w DEF Change
<1>5. Kept /\ UNCHANGED <<escrows, txs>> /\ \A c \in calls' : c \in calls
  BY <1>1, <1>2 DEF SetWhich, Kept, Store, chainVars
<1> QED BY <1>2, <1>3, <1>4, <1>5, RenderReach

LEMMA ClearAdvancedReach ==
  ASSUME IInv, ReachInv, NEW t \in Tabs, ClearAdvanced(t) PROVE ReachInv'
<1>w. PICK w : w = [tab[t] EXCEPT !.advanced = None, !.which = "default"]
  OBVIOUS
<1>2. tab[t] \in Tab /\ tab[t].open /\ store \in Store
  BY DEF ClearAdvanced, IInv, TypeOK
<1>3. w \in Tab /\ w.directory = tab[t].directory /\ w.agent = tab[t].agent
  BY <1>2, <1>w DEF Tab, Which
<1>4. tab' = [tab EXCEPT ![t] = Rendered(@, w)]
  BY <1>w DEF ClearAdvanced, Change
<1>5. Kept /\ UNCHANGED <<escrows, txs>> /\ \A c \in calls' : c \in calls
  BY <1>2 DEF ClearAdvanced, Kept, Store, chainVars
<1> QED BY <1>2, <1>3, <1>4, <1>5, RenderReach

LEMMA SaveAdvancedReach ==
  ASSUME IInv, ReachInv, NEW c \in calls, SaveAdvanced(c) PROVE ReachInv'
<1>d. PICK d : d = [token |-> txs[c.tx].token, since |-> FirstLedger(c)]
  OBVIOUS
<1>w. PICK w : w = [tab[c.tab] EXCEPT !.advanced = d, !.which = "advanced", !.page = "home",
                        !.agent = None, !.shown = None, !.reading = {}]
  OBVIOUS
<1>1. /\ c \in Call /\ c.tab \in Tabs /\ tab[c.tab].open /\ CallSound(c) /\ TypeOK
      /\ tab[c.tab] \in Tab /\ store \in Store
  BY DEF IInv, TypeOK, CallsSound, CallSound, Call
<1>2. /\ c.tx \in DOMAIN txs /\ txs[c.tx].op = "deploy_token" /\ txs[c.tx].status = "ok"
      /\ c.since \in Nat
  BY <1>1 DEF CallSound, Confirmed, Call, SaveAdvanced, IInv, TypeOK
<1>3. d \in Deployment
  BY <1>2, <1>d DEF IInv, TxsSound, TxSound, FirstLedger, Deployment
<1>4. w \in Tab /\ w.directory = tab[c.tab].directory /\ w.agent = None
  BY <1>1, <1>3, <1>w DEF Tab, Which
<1>5. /\ tab' = [tab EXCEPT ![c.tab] = Rendered(@, w)]
      /\ store' = [store EXCEPT !.advanced = d, !.which = "advanced"]
      /\ UNCHANGED <<escrows, txs>> /\ \A o \in calls' : o \in Left(c.tab)
  BY <1>d, <1>w DEF SaveAdvanced, Change, chainVars
<1>6. Kept
  BY <1>1, <1>5 DEF Kept, Store
<1>7. \A o \in calls' : o \in calls \/ (o.token \in Tokens /\ CallReach(o))
  BY <1>1, <1>5, LeftReach
<1> QED BY <1>1, <1>4, <1>5, <1>6, <1>7, RenderReach

\* A page takes over the agent of a call.
LEMMA DeliverReach ==
  ASSUME IInv, ReachInv, UNCHANGED <<chainVars, txs, store>>, NEW c \in calls, calls' \subseteq calls,
         NEW w \in Tab, w.directory = tab[c.tab].directory,
         w.agent \in {None, tab[c.tab].agent} \/ Reach(w.agent.escrow, w.agent.token),
         Delivers(c, w)
  PROVE  ReachInv'
<1>1. c.tab \in Tabs /\ tab[c.tab].open
  BY DEF IInv, TypeOK, CallsSound, CallSound, Call
<1>2. Kept /\ UNCHANGED <<escrows, txs>>
  BY DEF Kept, chainVars
<1>5. \A o \in calls' : o \in calls \/ (o.token \in Tokens /\ CallReach(o))
  OBVIOUS
<1>3. CASE tab' = [tab EXCEPT ![c.tab] = Rendered(@, w)]
  BY <1>1, <1>2, <1>3, <1>5, RenderReach
<1>4. CASE UNCHANGED tab
  <2>1. \A s \in Tabs : tab'[s].open =>
          /\ tab[s].open /\ tab'[s].directory = tab[s].directory
          /\ tab'[s].agent \in {None, tab[s].agent}
    BY <1>4
  <2> QED BY <1>2, <1>5, <2>1, QuietReach
<1> QED BY <1>3, <1>4 DEF Delivers, Change

LEMMA ConnectedReach ==
  ASSUME IInv, ReachInv, NEW c \in calls, Connected(c) PROVE ReachInv'
<1>1. PICK u \in Users :
        Delivers(c, [tab[c.tab] EXCEPT !.agent = [user |-> u, token |-> c.token, escrow |-> c.escrow]])
  BY DEF Connected
<1>a. PICK a : a = [user |-> u, token |-> c.token, escrow |-> c.escrow]
  OBVIOUS
<1>w. PICK w : w = [tab[c.tab] EXCEPT !.agent = a]
  OBVIOUS
<1>2. /\ c \in Call /\ tab[c.tab] \in Tab /\ CallReach(c) /\ c.op = "connect"
  BY DEF IInv, TypeOK, Call, ReachInv, CallsReach, Connected
<1>3. a \in Agent /\ Reach(a.escrow, a.token)
  BY <1>2, <1>a DEF Agent, Call, CallReach
<1>4. w \in Tab /\ w.directory = tab[c.tab].directory /\ w.agent = a
  BY <1>2, <1>3, <1>w DEF Tab
<1>5. Delivers(c, w)
  BY <1>1, <1>a, <1>w DEF Delivers, Change
<1>6. UNCHANGED <<chainVars, txs, store>> /\ calls' \subseteq calls
  BY DEF Connected
<1> QED BY <1>3, <1>4, <1>5, <1>6, DeliverReach

LEMMA FinishReach ==
  ASSUME IInv, ReachInv, NEW c \in calls, Finish(c) PROVE ReachInv'
<1>a. PICK a : a = [user |-> c.user, token |-> c.token, escrow |-> c.escrow]
  OBVIOUS
<1>r. PICK r : r = [tab[c.tab] EXCEPT !.reading = @ \cup {c.escrow}]
  OBVIOUS
<1>w. PICK w : w = IF c.op = "create" THEN [r EXCEPT !.agent = a] ELSE r
  OBVIOUS
<1>1. /\ c \in Call /\ tab[c.tab] \in Tab /\ CallReach(c) /\ c.escrow \in Ids
      /\ c.op = "create" => c.user \in Users
  BY DEF IInv, TypeOK, Call, ReachInv, CallsReach, Finish, CallsSound, CallSound
<1>2. c.op = "create" => a \in Agent /\ Reach(a.escrow, a.token)
  BY <1>1, <1>a, NoneFacts DEF Agent, Call, CallReach
<1>3. r \in Tab /\ r.directory = tab[c.tab].directory /\ r.agent = tab[c.tab].agent
  BY <1>1, <1>r DEF Tab
<1>4. CASE c.op = "create"
  <2>1. w = [r EXCEPT !.agent = a]
    BY <1>4, <1>w
  <2>2. w \in Tab /\ w.directory = tab[c.tab].directory /\ w.agent = a
    BY <1>2, <1>3, <1>4, <2>1 DEF Tab
  <2>3. Delivers(c, w)
    BY <1>4, <1>a, <1>r, <1>w DEF Finish, Delivers, Change
  <2>4. UNCHANGED <<chainVars, txs, store>> /\ calls' \subseteq calls
    BY DEF Finish
  <2> QED BY <1>2, <1>4, <2>2, <2>3, <2>4, DeliverReach
<1>5. CASE c.op # "create"
  <2>1. Delivers(c, r)
    BY <1>5, <1>r DEF Finish, Delivers, Change
  <2>2. UNCHANGED <<chainVars, txs, store>> /\ calls' \subseteq calls
    BY DEF Finish
  <2> QED BY <1>3, <2>1, <2>2, DeliverReach
<1> QED BY <1>4, <1>5

\* The one tab that shows the directory files an escrow in it.
LEMMA FiledReach ==
  ASSUME IInv, ReachInv, OneTabOnly, NEW t \in Tabs, tab[t].open, NEW k \in Tokens, NEW e \in Ids,
         SetActiveEscrow(t, k, e)
  PROVE  Grows /\ TabsReach' /\ SelectedReach' /\ Reach(e, k)'
<1>d. PICK d : d = Appended(tab[t].directory, k, e)
  OBVIOUS
<1>w. PICK w : w = [tab[t] EXCEPT !.directory = d]
  OBVIOUS
<1>r. PICK r : r = Rendered(tab[t], w)
  OBVIOUS
<1>1. /\ tab[t] \in Tab /\ tab[t].directory \in Directory /\ TabReach(tab[t]) /\ store \in Store
      /\ tab[t].directory = store.directory
  BY DEF IInv, TypeOK, Tab, ReachInv, TabsReach, TabReach
<1>2. /\ d \in Directory /\ e \in d.known[k]
      /\ \A l \in Tokens : store.directory.known[l] \subseteq d.known[l]
      /\ \A l \in Tokens : d.selected[l] = store.directory.selected[l] \/ (l = k /\ d.selected[l] = e)
  BY <1>1, <1>d DEF Appended, Directory
<1>3. w \in Tab /\ w.open /\ w.directory = d /\ w.agent = tab[t].agent
  BY <1>1, <1>2, <1>w DEF Tab
<1>4. r.open /\ r.directory = d /\ r.agent \in {None, tab[t].agent}
  BY <1>3, <1>r, RenderedFields
<1>5. tab' = [tab EXCEPT ![t] = r] /\ store' = [store EXCEPT !.directory = d]
  BY <1>d, <1>w, <1>r DEF SetActiveEscrow, Change
<1>6. store'.directory = d /\ store'.legacy = store.legacy
  BY <1>1, <1>5 DEF Store
<1>7. Grows
  BY <1>2, <1>6 DEF Grows
<1>8. Offers(store', e, k)
  BY <1>2, <1>6, Reaches
<1>9. Reach(e, k)'
  BY <1>8 DEF Reach
<1>10. SelectedReach'
  <2>1. ASSUME NEW l \in Tokens, store'.directory.selected[l] # None
        PROVE  Offers(store', store'.directory.selected[l], l)
    <3>1. CASE l = k /\ d.selected[l] = e
      BY <1>6, <1>8, <3>1
    <3>2. CASE d.selected[l] = store.directory.selected[l]
      <4>s. PICK s : s = store.directory.selected[l]
        OBVIOUS
      <4>1. Reach(s, l)
        BY <1>6, <2>1, <3>2, <4>s DEF ReachInv, SelectedReach, Reach
      <4>2. Reach(s, l)'
        BY <1>7, <4>1, ReachGrows
      <4> QED BY <1>6, <3>2, <4>2, <4>s DEF Reach
    <3> QED BY <1>2, <3>1, <3>2
  <2> QED BY <2>1 DEF SelectedReach, Reach
<1>11. TabsReach'
  <2>1. r.agent # None => Reach(r.agent.escrow, r.agent.token)'
    <3>a. PICK a : a = r.agent
      OBVIOUS
    <3>1. a # None => a.token \in Tokens /\ Reach(a.escrow, a.token)
      BY <1>1, <1>3, <1>4, <3>a DEF TabReach, Tab, Agent
    <3>2. a # None => Reach(a.escrow, a.token)'
      BY <1>7, <3>1, ReachGrows
    <3> QED BY <3>2, <3>a
  <2>2. TabReach(r)'
    BY <1>4, <1>6, <2>1 DEF TabReach
  <2>3. \A s \in Tabs : tab'[s] = r
    BY <1>5 DEF OneTabOnly, IInv, TypeOK
  <2> QED BY <2>2, <2>3 DEF TabsReach, TabReach, Reach
<1> QED BY <1>7, <1>9, <1>10, <1>11

LEMMA SelectEscrowReach ==
  ASSUME IInv, ReachInv, OneTabOnly, NEW t \in Tabs, SelectEscrow(t) PROVE ReachInv'
<1>k. PICK k : k = Active(tab[t])
  OBVIOUS
<1>1. /\ tab[t].open /\ UNCHANGED <<chainVars, txs, calls>>
      /\ \E e \in TokenEscrows(tab[t], k) : SetActiveEscrow(t, k, e)
  BY <1>k DEF SelectEscrow, SetActiveEscrow, Change
<1>2. PICK e \in TokenEscrows(tab[t], k) : SetActiveEscrow(t, k, e)
  BY <1>1
<1>3. k \in Tokens /\ tab[t].directory \in Directory
  BY <1>k, SelectedType DEF IInv, TypeOK, Tab
<1>4. e \in Ids
  BY <1>3, NoneFacts DEF TokenEscrows, Directory
<1>5. Grows /\ TabsReach' /\ SelectedReach'
  BY <1>1, <1>2, <1>3, <1>4, FiledReach
<1>6. UNCHANGED escrows /\ DOMAIN txs' = DOMAIN txs
  BY <1>1 DEF chainVars
<1> QED BY <1>1, <1>5, <1>6, ReachStep

LEMMA DeployedReach ==
  ASSUME IInv, ReachInv, OneTabOnly, NEW c \in calls, Deployed(c) PROVE ReachInv'
<1>1. PICK e, n, x :
        /\ e \in Ids /\ Home(e, c.token) /\ SetActiveEscrow(c.tab, c.token, e)
        /\ n.tab = c.tab /\ n.op = "create" /\ n.user \in Users /\ n.roles \in FullRoles
        /\ n.token = c.token /\ n.escrow = e /\ n.tx = Len(txs) + 1
        /\ Len(txs) + 1 \in 1 .. MaxTxs => n \in Call
        /\ x = Tx0("initialize", n)
        /\ UNCHANGED chainVars
        /\ \/ Send(x) /\ \A o \in calls' : o \in calls \/ o = n
           \/ calls' = calls \ {c} /\ UNCHANGED txs
  BY DeployedFiles
<1>2. c.tab \in Tabs /\ tab[c.tab].open /\ c.token \in Tokens
  BY DEF IInv, TypeOK, CallsSound, CallSound, Call
<1>3. Grows /\ TabsReach' /\ SelectedReach' /\ Reach(e, c.token)'
  BY <1>1, <1>2, FiledReach
<1>4. UNCHANGED escrows
  BY <1>1 DEF chainVars
<1>5. \A o \in calls' : o \in calls \/ CallReach(o)'
  BY <1>1, <1>3 DEF CallReach
<1>6. \A i \in DOMAIN txs' : \/ i \in DOMAIN txs /\ txs'[i] = txs[i]
                             \/ TxReach(txs[i])'
  <2>1. CASE UNCHANGED txs
    BY <2>1
  <2>2. CASE Send(x)
    <3>1. /\ DOMAIN txs' = DOMAIN txs \cup {Len(txs) + 1}
          /\ txs'[Len(txs) + 1] = x /\ \A i \in DOMAIN txs : txs'[i] = txs[i]
      BY <2>2 DEF Send, IInv, TypeOK
    <3>2. x.escrow = e /\ x.token = c.token
      BY <1>1 DEF Tx0
    <3>3. TxReach(x)'
      BY <1>3, <3>2 DEF TxReach
    <3> QED BY <3>1, <3>3 DEF TxReach, Reach
  <2> QED BY <1>1, <2>1, <2>2
<1> QED BY <1>3, <1>4, <1>5, <1>6, ReachStep

\* A tab that opens shows what it stores.
LEMMA OpenReach ==
  ASSUME IInv, ReachInv, OneTabOnly, NEW t \in Tabs, Open(t) PROVE ReachInv'
<1>d. PICK d : d = Upgraded(store)
  OBVIOUS
<1>1. store \in Store
  BY DEF IInv, TypeOK
<1>2. /\ store'.directory = d /\ store'.legacy = store.legacy
      /\ UNCHANGED <<escrows, txs, calls>>
  BY <1>1, <1>d DEF Open, Store, chainVars
<1>3. /\ \A k \in Tokens : d.known[k] = store.directory.known[k] \cup ({store.legacy[k]} \ {None})
      /\ \A k \in Tokens : d.selected[k] = IF store.directory.selected[k] = None THEN store.legacy[k]
                                           ELSE store.directory.selected[k]
  BY <1>d DEF Upgraded
<1>4. Grows
  BY <1>2, <1>3 DEF Grows
<1>5. SelectedReach'
  <2>1. ASSUME NEW k \in Tokens, store'.directory.selected[k] # None
        PROVE  Offers(store', store'.directory.selected[k], k)
    <3>1. CASE store.directory.selected[k] = None
      BY <1>2, <1>3, <2>1, <3>1, Reaches
    <3>2. CASE store.directory.selected[k] # None
      <4>s. PICK s : s = store.directory.selected[k]
        OBVIOUS
      <4>1. Reach(s, k)
        BY <3>2, <4>s DEF ReachInv, SelectedReach, Reach
      <4>2. Reach(s, k)'
        BY <1>4, <4>1, ReachGrows
      <4> QED BY <1>2, <1>3, <3>2, <4>2, <4>s DEF Reach
    <3> QED BY <3>1, <3>2
  <2> QED BY <2>1 DEF SelectedReach, Reach
<1>6. TabsReach'
  <2>1. \A s \in Tabs : tab'[s] = Restored(store)
    BY DEF Open, OneTabOnly, IInv, TypeOK
  <2>2. Restored(store).directory = d /\ Restored(store).agent = None
    BY <1>d DEF Restored, Closed
  <2> QED BY <1>2, <2>1, <2>2 DEF TabsReach, TabReach
<1>7. \A i \in DOMAIN txs' : i \in DOMAIN txs /\ txs'[i] = txs[i]
  BY <1>2
<1> QED BY <1>2, <1>4, <1>5, <1>6, <1>7, ReachStep

\* Nobody initializes but an escrow that the agent of the tab has.
LEMMA SendingReach ==
  ASSUME IInv, ReachInv, NEW t \in Tabs, Sending(t) PROVE ReachInv'
<1>1. PICK x, n : /\ Clicked(t, x, n)
                  /\ \/ n.op \in {"initialize", "release", "fund", "token"}
                     \/ n.op = "create" /\ n.escrow = None
                  /\ \/ x.op # "initialize"
                     \/ /\ x.escrow = tab[t].agent.escrow /\ x.token = tab[t].agent.token
                        /\ tab[t].open /\ tab[t].agent # None
  BY ClickCreateSends, ClickResumeSends, ClickReleaseSends, ClickFundSends, ClickDeploySends
     DEF Sending
<1>2. UNCHANGED <<chainVars, store, tab>> /\ calls' = calls \cup {n} /\ Send(x) /\ NewSound(x)
  BY <1>1 DEF Clicked, Starts
<1>3. Kept /\ UNCHANGED <<escrows, tab>>
  BY <1>2 DEF Kept, chainVars
<1>4. TabsReach'
  <2>1. ASSUME NEW s \in Tabs PROVE TabReach(tab[s])'
    <3>1. TabReach(tab[s]) /\ (tab[s].agent # None => tab[s].agent.token \in Tokens)
      BY DEF ReachInv, TabsReach, IInv, TypeOK, Tab, Agent
    <3>2. TabReach(tab[s]) => TabReach(tab[s])'
      BY <1>3 DEF TabReach, Reach, Offers, TokenEscrows, Restored, Upgraded, Kept
    <3> QED BY <3>1, <3>2
  <2> QED BY <2>1 DEF TabsReach
<1>5. \A c \in calls' : c \in calls \/ CallReach(c)'
  BY <1>1, <1>2 DEF CallReach
<1>6. \A i \in DOMAIN txs' : \/ i \in DOMAIN txs /\ txs'[i] = txs[i]
                             \/ TxReach(txs[i])'
  <2>1. /\ DOMAIN txs' = DOMAIN txs \cup {Len(txs) + 1}
        /\ txs'[Len(txs) + 1] = x /\ \A i \in DOMAIN txs : txs'[i] = txs[i]
    BY <1>2 DEF Send, IInv, TypeOK
  <2>2. x.op = "initialize" => x.token \in Tokens /\ Reach(x.escrow, x.token)
    BY <1>1, <1>2 DEF NewSound, ReachInv, TabsReach, TabReach, Reach
  <2>3. TxReach(x)'
    BY <1>3, <2>2, KeptReach DEF TxReach
  <2> QED BY <2>1, <2>3 DEF TxReach, Reach
<1> QED BY <1>3, <1>4, <1>5, <1>6, KeptReach, ReachStep

LEMMA ClickConnectReach ==
  ASSUME IInv, ReachInv, NEW t \in Tabs, ClickConnect(t) PROVE ReachInv'
<1>n. PICK n : n = [NewCall(t, "connect") EXCEPT !.escrow = Selected(tab[t])]
  OBVIOUS
<1>1. /\ tab[t].open /\ Selected(tab[t]) # None /\ UNCHANGED <<chainVars, txs, store, tab>>
      /\ calls' = calls \cup {n}
  BY <1>n DEF ClickConnect, Starts
<1>2. n = [tab |-> t, live |-> TRUE, op |-> "connect", user |-> None, token |-> Active(tab[t]),
           escrow |-> Selected(tab[t]), roles |-> NoRoles, since |-> 0, tx |-> 0]
  BY <1>n DEF NewCall
<1>3. n.escrow = Selected(tab[t]) /\ n.token = Active(tab[t]) /\ n.token \in Tokens
  BY <1>2, SelectedType DEF IInv, TypeOK
<1>4. Reach(n.escrow, n.token)
  <2>1. tab[t].directory = store.directory
    BY <1>1 DEF ReachInv, TabsReach, TabReach
  <2>2. CASE store.directory.selected[n.token] # None
    <3>1. n.escrow = store.directory.selected[n.token]
      BY <1>3, <2>1, <2>2 DEF Selected
    <3> QED BY <1>3, <2>2, <3>1 DEF ReachInv, SelectedReach, Reach
  <2>3. CASE store.directory.selected[n.token] = None
    <3>1. n.token = Default /\ n.escrow = Configured /\ n.escrow # None
      BY <1>1, <1>3, <2>1, <2>3 DEF Selected
    <3> QED BY <1>3, <3>1, Reaches DEF Reach
  <2> QED BY <2>2, <2>3
<1>5. \A c \in calls' : c \in calls \/ (c.token \in Tokens /\ CallReach(c))
  BY <1>1, <1>3, <1>4 DEF CallReach
<1>6. Kept /\ UNCHANGED <<escrows, txs, tab>>
  BY <1>1 DEF Kept, chainVars
<1> QED BY <1>5, <1>6, QuietReach

\* A closed tab, a late answer or a failed call brings nothing new.
LEMMA IdleReach ==
  ASSUME IInv, ReachInv,
         \/ \E t \in Tabs : Close(t) \/ ShowState(t)
         \/ \E c \in calls : Fail(c)
         \/ CloseLedger \/ UNCHANGED vars
  PROVE  ReachInv'
<1>1. Kept /\ UNCHANGED <<escrows, txs>> /\ calls' \subseteq calls
  BY DEF Close, ShowState, Fail, CloseLedger, vars, chainVars, Kept
<1>2. \A s \in Tabs : tab'[s].open =>
        /\ tab[s].open /\ tab'[s].directory = tab[s].directory
        /\ tab'[s].agent \in {None, tab[s].agent}
  <2>1. CASE \E t \in Tabs : Close(t)
    <3>1. PICK t \in Tabs : tab' = [tab EXCEPT ![t] = Closed]
      BY <2>1 DEF Close
    <3>2. \A s \in Tabs : tab'[s] = tab[s] \/ ~tab'[s].open
      BY <3>1 DEF IInv, TypeOK, Closed
    <3> QED BY <3>2
  <2>2. CASE \E t \in Tabs : ShowState(t)
    <3>1. PICK t \in Tabs : ShowState(t)
      BY <2>2
    <3>2. PICK e \in tab[t].reading : \E r \in {escrows[e], None} :
            tab' = [tab EXCEPT ![t].shown = r, ![t].reading = @ \ {e}]
      BY <3>1 DEF ShowState
    <3>3. PICK r : tab' = [tab EXCEPT ![t].shown = r, ![t].reading = @ \ {e}]
      BY <3>2
    <3>w. PICK w : w = [tab[t] EXCEPT !.shown = r, !.reading = @ \ {e}]
      OBVIOUS
    <3>4. tab \in [Tabs -> Tab] /\ tab[t] \in Tab
      BY DEF IInv, TypeOK
    <3>5. w.open = tab[t].open /\ w.directory = tab[t].directory /\ w.agent = tab[t].agent
      BY <3>4, <3>w DEF Tab
    <3>6. tab' = [tab EXCEPT ![t] = w]
      BY <3>3, <3>4, <3>w
    <3> QED BY <3>4, <3>5, <3>6
  <2>3. CASE UNCHANGED tab
    BY <2>3
  <2>4. (\E c \in calls : Fail(c)) \/ CloseLedger \/ UNCHANGED vars => UNCHANGED tab
    BY DEF Fail, CloseLedger, vars
  <2> QED BY <2>1, <2>2, <2>3, <2>4
<1>3. \A c \in calls' : c \in calls \/ (c.token \in Tokens /\ CallReach(c))
  BY <1>1
<1> QED BY <1>1, <1>2, <1>3, QuietReach

\* An escrow takes roles under the token its initialization was sent for.
LEMMA LandReach ==
  ASSUME IInv, ReachInv, NEW i \in DOMAIN txs,
         LandEscrow(i) \/ LandToken(i) \/ LandInitialize(i) \/ LandFund(i) \/ LandRelease(i)
  PROVE  ReachInv'
<1>1. UNCHANGED <<store, tab, calls>>
  BY DEF LandEscrow, LandToken, LandInitialize, LandFund, LandRelease, Becomes
<1>2. Kept
  BY <1>1 DEF Kept
<1>3. \A e, k : Reach(e, k)' <=> Reach(e, k)
  BY <1>1 DEF Reach, Offers, TokenEscrows, Restored, Upgraded
<1>4. TabsReach' /\ SelectedReach' /\ CallsReach'
  BY <1>1, <1>3 DEF ReachInv, TabsReach, TabReach, SelectedReach, CallsReach, CallReach
<1>5. /\ DOMAIN txs' = DOMAIN txs
      /\ \A j \in DOMAIN txs : txs'[j].op = "initialize" =>
           /\ txs[j].op = "initialize"
           /\ txs'[j].escrow = txs[j].escrow /\ txs'[j].token = txs[j].token
  <2>1. \A j \in DOMAIN txs : txs[j] \in Tx
    BY DEF IInv, TypeOK
  <2>2. CASE LandEscrow(i)
    <3>1. txs[i].op = "deploy_escrow" /\ \E e : txs' = [txs EXCEPT ![i].status = "ok", ![i].escrow = e]
      BY <2>2 DEF LandEscrow, Lands
    <3> QED BY <2>1, <3>1 DEF Tx
  <2>3. CASE LandToken(i)
    <3>1. txs[i].op = "deploy_token" /\ \E k : txs' = [txs EXCEPT ![i].status = "ok", ![i].token = k]
      BY <2>3 DEF LandToken, Lands
    <3> QED BY <2>1, <3>1 DEF Tx
  <2>4. CASE txs' = [txs EXCEPT ![i].status = "ok"]
    BY <2>1, <2>4 DEF Tx
  <2> QED BY <2>2, <2>3, <2>4 DEF LandInitialize, LandFund, LandRelease, Becomes
<1>6. TxsReach'
  BY <1>3, <1>5 DEF ReachInv, TxsReach, TxReach
<1>7. EscrowsFiled'
  <2> SUFFICES ASSUME NEW e \in Ids, escrows'[e] # None
               PROVE  Reach(e, escrows[e].token)'
    BY DEF EscrowsFiled, Reach, Offers
  <2>k. PICK k : k = escrows'[e].token
    OBVIOUS
  <2>1. CASE escrows[e] # None /\ escrows[e].token = k
    <3>1. Reach(e, k)
      BY <2>1 DEF ReachInv, EscrowsFiled, Reach, Offers
    <3> QED BY <1>3, <2>k, <3>1 DEF Reach
  <2>2. CASE LandInitialize(i) /\ e = txs[i].escrow
    <3>1. txs[i].op = "initialize" /\ k = txs[i].token
      BY <2>2, <2>k DEF LandInitialize, Lands, Becomes, IInv, TypeOK
    <3>2. Reach(e, k)
      BY <2>2, <3>1 DEF ReachInv, TxsReach, TxReach, Reach
    <3> QED BY <1>3, <2>k, <3>2 DEF Reach
  <2>3. ASSUME ~(LandInitialize(i) /\ e = txs[i].escrow)
        PROVE  escrows[e] # None /\ escrows[e].token = k
    <3>1. CASE LandEscrow(i) \/ LandToken(i)
      BY <2>k, <3>1 DEF LandEscrow, LandToken
    <3>2. CASE LandInitialize(i)
      BY <2>3, <2>k, <3>2 DEF LandInitialize, Becomes, IInv, TypeOK
    <3>3. CASE LandFund(i) \/ LandRelease(i)
      <4>1. PICK status : escrows' = [escrows EXCEPT ![txs[i].escrow] =
                                        [escrows[txs[i].escrow] EXCEPT !.status = status]]
        BY <3>3 DEF LandFund, LandRelease, Becomes
      <4>2. escrows[txs[i].escrow] # None /\ txs[i].escrow \in Ids
        BY <3>3 DEF LandFund, LandRelease, Lands, Accepts, HasStatus, IInv, TxsSound, TxSound
      <4>3. escrows[txs[i].escrow] \in Record
        BY <4>2 DEF IInv, TypeOK
      <4>4. [escrows[txs[i].escrow] EXCEPT !.status = status].token = escrows[txs[i].escrow].token
        BY <4>3 DEF Record
      <4> QED BY <2>k, <4>1, <4>2, <4>4 DEF IInv, TypeOK
    <3> QED BY <3>1, <3>2, <3>3
  <2> QED BY <2>1, <2>2, <2>3
<1> QED BY <1>4, <1>6, <1>7 DEF ReachInv

LEMMA InitReach ==
  ASSUME Init PROVE ReachInv
<1>1. IInv
  BY InitInv
<1>2. PICK old \in Ids :
        /\ Configured \in {old, None}
        /\ escrows = [e \in Ids |-> IF e = old THEN OldRecord ELSE None]
        /\ \E legacy \in {old, None} \ (IF Configured = None THEN {None} ELSE {}) :
             store = [advanced |-> None, which |-> "default", directory |-> Closed.directory,
                      legacy |-> [k \in Tokens |-> IF k = Default THEN legacy ELSE None]]
  BY DEF Init
<1>3. PICK legacy \in {old, None} \ (IF Configured = None THEN {None} ELSE {}) :
        store = [advanced |-> None, which |-> "default", directory |-> Closed.directory,
                 legacy |-> [k \in Tokens |-> IF k = Default THEN legacy ELSE None]]
  BY <1>2
<1>4. Default \in Tokens /\ old # None /\ store.legacy[Default] = legacy
  BY <1>3, NoneFacts DEF Tokens
<1>5. Offers(store, old, Default)
  BY <1>2, <1>3, <1>4, Reaches
<1>6. EscrowsFiled
  <2>1. \A e \in Ids : escrows[e] # None => e = old /\ escrows[e].token = Default
    BY <1>2, OldRecordType
  <2> QED BY <1>5, <2>1 DEF EscrowsFiled, Offers
<1>7. SelectedReach
  <2>1. \A k \in Tokens : store.directory.selected[k] = None
    BY <1>3 DEF Closed
  <2> QED BY <2>1 DEF SelectedReach
<1>8. TabsReach /\ CallsReach /\ TxsReach
  BY DEF Init, Closed, TabsReach, TabReach, CallsReach, TxsReach
<1> QED BY <1>6, <1>7, <1>8 DEF ReachInv

LEMMA NextReach ==
  ASSUME OneTabOnly, IInv, ReachInv, [Next]_vars PROVE ReachInv'
<1>1. ASSUME NEW t \in Tabs,
             \/ Open(t) \/ Close(t) \/ Navigate(t) \/ SetWhich(t) \/ ClearAdvanced(t)
             \/ SelectEscrow(t) \/ ShowState(t)
      PROVE  ReachInv'
  BY <1>1, OpenReach, IdleReach, NavigateReach, SetWhichReach, ClearAdvancedReach, SelectEscrowReach
<1>2. ASSUME NEW t \in Tabs,
             \/ ClickConnect(t) \/ ClickCreate(t) \/ ClickResume(t) \/ ClickRelease(t)
             \/ ClickFund(t) \/ ClickDeploy(t)
      PROVE  ReachInv'
  BY <1>2, ClickConnectReach, SendingReach DEF Sending
<1>3. ASSUME NEW c \in calls,
             Connected(c) \/ Deployed(c) \/ Finish(c) \/ SaveAdvanced(c) \/ Fail(c)
      PROVE  ReachInv'
  BY <1>3, ConnectedReach, DeployedReach, FinishReach, SaveAdvancedReach, IdleReach
<1>4. ASSUME NEW i \in DOMAIN txs,
             LandEscrow(i) \/ LandToken(i) \/ LandInitialize(i) \/ LandFund(i) \/ LandRelease(i)
      PROVE  ReachInv'
  BY <1>4, LandReach
<1>5. CASE CloseLedger \/ UNCHANGED vars
  BY <1>5, IdleReach
<1> QED BY <1>1, <1>2, <1>3, <1>4, <1>5 DEF Next

\* What is filed under a token that is not abandoned is offered by a tab switched to it.
LEMMA FiledIsOffered ==
  ASSUME IInv, EscrowsFiled PROVE EscrowsReachable
<1> DEFINE v == Restored(store)
<1>1. SUFFICES ASSUME NEW e \in Ids, escrows[e] # None, ~Abandoned(escrows[e].token)
               PROVE  \E w \in Switched(v) :
                        Active(w) = escrows[e].token /\ e \in TokenEscrows(w, Active(w))
  BY DEF EscrowsReachable
<1>2. PICK k : k = escrows[e].token
  OBVIOUS
<1>3. e \in TokenEscrows(v, k)
  BY <1>1, <1>2 DEF EscrowsFiled
<1>4. v.advanced = store.advanced /\ v = [v EXCEPT !.which = v.which]
  BY DEF Restored, Closed
<1>5. \A x : [v EXCEPT !.which = x].which = x /\ [v EXCEPT !.which = x].advanced = v.advanced
             /\ [v EXCEPT !.which = x].directory = v.directory
  BY DEF Restored, Closed
<1> HIDE DEF v
<1>6. ASSUME NEW x, Active([v EXCEPT !.which = x]) = k,
             [v EXCEPT !.which = x] \in Switched(v)
      PROVE  \E w \in Switched(v) : Active(w) = k /\ e \in TokenEscrows(w, Active(w))
  <2>1. TokenEscrows([v EXCEPT !.which = x], k) = TokenEscrows(v, k)
    BY <1>5 DEF TokenEscrows
  <2> QED BY <1>3, <1>6, <2>1
<1>7. CASE k = Default
  <2>1. Active([v EXCEPT !.which = "default"]) = k
    BY <1>5, <1>7 DEF Active
  <2>2. [v EXCEPT !.which = "default"] \in Switched(v)
    BY DEF Switched
  <2> QED BY <1>2, <1>6, <2>1, <2>2
<1>8. CASE k # Default
  <2>1. v.advanced # None /\ v.advanced.token = k
    BY <1>1, <1>2, <1>4, <1>8 DEF Abandoned
  <2>2. Active([v EXCEPT !.which = "advanced"]) = k
    BY <1>5, <2>1 DEF Active
  <2>3. [v EXCEPT !.which = "advanced"] \in Switched(v)
    BY <2>1 DEF Switched, Which
  <2> QED BY <1>2, <1>6, <2>2, <2>3
<1> QED BY <1>7, <1>8

\* In one tab no escrow that has roles, and may hold money, is lost while its token is not abandoned:
\* whatever was switched, left, closed or timed out meanwhile, a tab opened now can be switched to its
\* token and offers it there (active-deployment.tsx setActiveEscrow, escrow.ts create).
THEOREM NoEscrowLost ==
  ASSUME OneTabOnly PROVE Spec => []EscrowsReachable
<1>1. Init => IInv /\ ReachInv
  BY InitInv, InitReach
<1>2. IInv /\ ReachInv /\ [Next]_vars => IInv' /\ ReachInv'
  BY NextStep, NextReach
<1>3. IInv /\ ReachInv => EscrowsReachable
  BY FiledIsOffered DEF ReachInv
<1> QED BY <1>1, <1>2, <1>3, PTL DEF Spec
=============================================================================

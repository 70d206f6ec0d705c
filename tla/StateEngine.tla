---------------------------- MODULE StateEngine ----------------------------
(***************************************************************************)
(* The wallet's state engine (packages/sdk/src/state/engine.ts) with the   *)
(* hybrid event source it reads (chain/event-source.ts) and the operations *)
(* of the wallet that spend (app/lib/wallet.ts).  Every browser tab is a   *)
(* process; the tabs share one cache in localStorage.  A step of a tab is  *)
(* what runs between two awaits: a service answers in one step, the answer *)
(* is used in a later one, and the chain moves in between.                 *)
(***************************************************************************)
EXTENDS EventSource, SequencesExt

CONSTANTS
  Tabs,
  Goals,         \* what a tab syncs for: "refresh" or the kind of a spend
  Served,        \* event types the indexer's pipeline selects
  PageSize,      \* rows in a page of the indexer
  SeamMargin,    \* RPC_SEAM_MARGIN
  OldReleases,   \* browsers have run the version that ignored releases
  MaxDelay,      \* ledgers that close between Umbra's answer and the RPC's
  MaxSalt        \* bound: no witness is built when so many salts are drawn

ASSUME EngineAssumption ==
  /\ OldReleases \in BOOLEAN
  /\ PageSize \in Nat \ {0}
  /\ Goals \subseteq Spends \cup {"refresh"}
  /\ Served \subseteq EventTypes
  /\ {SeamMargin, MaxDelay, MaxSalt} \subseteq Nat

VARIABLES
  cache,    \* what localStorage holds for the account
  tab,      \* the tabs
  inflight  \* transactions submitted by the tabs and not yet in a ledger

vars == <<sourceVars, cache, tab, inflight>>

AccountState == [registered : BOOLEAN, spendable : Commitment, receiving : Commitment,
                 cursor : Nat, version : 0 .. 3]
\* cursor = 0: no cursor; version = 0: nothing is stored.
FreshState == [registered |-> FALSE, spendable |-> Zero, receiving |-> Zero,
               cursor |-> 0, version |-> 3]
Nothing == [FreshState EXCEPT !.version = 0]

\* `next` is the opening the witness computed for after the spend.
Tx == [type : Spends, spent : Commitment, next : Commitment]
NoTx == [type |-> "withdraw", spent |-> Zero, next |-> Zero]

Idle == [pc |-> "idle", goal |-> "refresh", leg |-> "tail", state |-> FreshState,
         recovered |-> {}, fetched |-> <<>>, start |-> 0, asOf |-> 0, tx |-> NoTx]

Init == SourceInit /\ cache = Nothing /\ tab = [t \in Tabs |-> Idle] /\ inflight = {}

At(t, pc) == tab[t].pc = pc
Becomes(t, w) == tab' = [tab EXCEPT ![t] = w]

-----------------------------------------------------------------------------
(* Replay *)

Checkpoints == {"withdraw", "transfer", "set_spender", "revoke_spender"}

\* Mutated form of Credits: escrow releases are ignored.
CreditsWithoutReleases == {"deposit", "transfer"}

Credits == {"deposit", "transfer", "spender_transfer"}

\* One event applied to the local openings.  Only a merge adds to the
\* spendable opening; a spend of the owner replaces it by its checkpoint.
Apply(s, ev) ==
  LET mine == ev.from = Me
      merges == mine /\ ev.type = "merge"
  IN [s EXCEPT
       !.registered = @ \/ (mine /\ ev.type = "register"),
       !.spendable = IF merges THEN Plus(@, s.receiving)
                     ELSE IF mine /\ ev.type \in Checkpoints THEN ev.checkpoint
                     ELSE @,
       !.receiving = IF merges THEN Zero
                     ELSE IF ev.to = Me /\ ev.type \in Credits THEN Plus(@, ev.credit)
                     ELSE @]

\* The events at the places `ids`, one after the other, but those skipped.
Replay(s, ids, skipped) ==
  FoldLeft(LAMBDA acc, i : IF i \in skipped THEN acc ELSE Apply(acc, log[i]), s, ids)

-----------------------------------------------------------------------------
(* The hybrid event source.  Closed ledgers do not change, so an answer is *)
(* the sequence of the events' places in the log.                          *)

InOrder(ids) ==
  [k \in 1 .. Cardinality(ids) |-> CHOOSE i \in ids : Cardinality({j \in ids : j <= i}) = k]

\* Mutated form of Skipped: the tail is applied as it arrived.
SkipsNothing(w) == {}

\* Events a recovery has already applied are not applied again.
Skipped(w) == w.recovered

\* First ledger still needed; the recovery of old releases starts cold.
Cursor(w) == IF w.leg = "releases" THEN 0 ELSE w.state.cursor
NextNeeded(w) == IF Cursor(w) = 0 THEN FromLedger ELSE Cursor(w) + 1

\* Mutated form of NeedsBackfill: only a cold start asks the indexer.
BackfillsWhenCold(w, oldest) == Indexer /\ Cursor(w) = 0 /\ NextNeeded(w) < oldest

\* The window no longer holds the first ledger needed (oldest = 0: unknown).
NeedsBackfill(w, oldest) == Indexer /\ oldest > 0 /\ NextNeeded(w) < oldest

\* Clamped just inside the retention floor, when that is known.
ColdStart(oldest) == IF oldest + 1 > FromLedger /\ oldest > 0 THEN oldest + 1 ELSE FromLedger

Await(t, pc) == Becomes(t, [tab[t] EXCEPT !.pc = pc])

SyncStart(t, goal) ==
  LET prior == IF cache.version = 0 THEN FreshState ELSE cache
      leg == IF Umbra THEN "history" ELSE IF prior.version < 2 THEN "releases" ELSE "tail"
  IN /\ At(t, "idle")
     /\ Becomes(t, [Idle EXCEPT !.goal = goal, !.state = prior, !.leg = leg,
                                !.pc = IF Umbra THEN "history" ELSE "health"])
     /\ UNCHANGED <<sourceVars, cache, inflight>>

\* Umbra answers: whatever was cached is dropped and rebuilt.
FetchHistory(t) ==
  LET ids == [i \in 1 .. recorded |-> i]
  IN /\ At(t, "history")
     /\ Becomes(t, [tab[t] EXCEPT !.pc = "health", !.leg = "tail",
                      !.state = Replay(FreshState, ids, {}), !.recovered = 1 .. recorded,
                      !.asOf = Latest])
     /\ UNCHANGED <<sourceVars, cache, inflight>>

\* getHealth; 0 stands for an endpoint that does not tell, or was not asked.
ReadHealth(t, oldest) ==
  LET w == tab[t]
      backfill == NeedsBackfill(w, oldest)
  IN /\ At(t, "health")
     /\ oldest \in (IF Indexer \/ Cursor(w) = 0 THEN {0, Oldest} ELSE {0})
     /\ Becomes(t, [w EXCEPT
          !.pc = IF backfill THEN "backfill" ELSE "tail",
          !.fetched = <<>>,
          !.start = IF backfill THEN oldest + SeamMargin
                    ELSE IF Cursor(w) # 0 THEN Cursor(w) + 1
                    ELSE ColdStart(oldest)])
     /\ UNCHANGED <<sourceVars, cache, inflight>>

\* Mutated form of LastBackfilled: the ledger below the seam is left out.
LastBackfilledShort(w) == w.start - 2

\* The indexer owns everything below the seam, the RPC leg the rest.
LastBackfilled(w) == w.start - 1

\* What the cursor names is the last row of the page before.
PageCursor(w) == IF w.fetched = <<>> THEN 0 ELSE Last(w.fetched)

\* One page of the indexer, of the rows it holds when it is asked: `limit + 1`
\* rows are read to learn whether another page follows.
BackfillPage(t) ==
  LET w == tab[t]
      last == IF LastBackfilled(w) < indexed THEN LastBackfilled(w) ELSE indexed
      rows == {i \in InLedgers(NextNeeded(w), last) : log[i].type \in Served /\ i > PageCursor(w)}
      more == Cardinality(rows) > PageSize
      page == IF more THEN SubSeq(InOrder(rows), 1, PageSize) ELSE InOrder(rows)
  IN /\ At(t, "backfill")
     /\ Becomes(t, [w EXCEPT !.pc = IF more THEN "backfill" ELSE "tail", !.fetched = @ \o page])
     /\ UNCHANGED <<sourceVars, cache, inflight>>

\* All pages of getEvents up to the head; the cursor is the last ledger
\* scanned.  The RPC refuses a start outside its window.
FetchTail(t) ==
  LET w == tab[t]
      resumes == Cursor(w) # 0 /\ w.start = Cursor(w) + 1
  IN /\ At(t, "tail")
     /\ w.start >= Oldest
     /\ w.start <= Latest \/ resumes
     /\ Becomes(t, [w EXCEPT !.pc = "fetched", !.asOf = Latest,
                      !.fetched = @ \o InOrder(InLedgers(w.start, Latest))])
     /\ UNCHANGED <<sourceVars, cache, inflight>>

\* A service does not answer or refuses: sync throws, nothing is stored.
SyncFails(t) ==
  /\ tab[t].pc \in {"history", "backfill", "tail"}
  /\ Becomes(t, Idle)
  /\ UNCHANGED <<sourceVars, cache, inflight>>

\* Releases the old version ignored are applied before the tail is fetched.
RecoverReleases(t) ==
  LET w == tab[t]
      fetched == ToSet(w.fetched)
      releases == {i \in fetched : log[i].type = "spender_transfer"}
  IN /\ At(t, "fetched") /\ w.leg = "releases"
     /\ Becomes(t, [w EXCEPT !.pc = "health", !.leg = "tail", !.recovered = releases,
                      !.state = [Replay(w.state, w.fetched, fetched \ releases)
                                   EXCEPT !.version = 3]])
     /\ UNCHANGED <<sourceVars, cache, inflight>>

SyncSave(t) ==
  LET w == tab[t]
      state == [Replay(w.state, w.fetched, Skipped(w)) EXCEPT !.cursor = w.asOf, !.version = 3]
  IN /\ At(t, "fetched") /\ w.leg = "tail"
     /\ cache' = state
     /\ Becomes(t, IF w.goal = "refresh" THEN Idle
                   ELSE [Idle EXCEPT !.pc = "verify", !.goal = w.goal, !.state = state])
     /\ UNCHANGED <<sourceVars, inflight>>

\* A sync of the version that ignored releases and kept no version number.
OldSync ==
  LET prior == IF cache.version = 0 THEN FreshState ELSE cache
      ids == {i \in InLedgers(prior.cursor + 1, Latest) : log[i].type # "spender_transfer"}
  IN /\ OldReleases /\ cache.version < 2
     /\ prior.cursor < Latest
     /\ cache' = [Replay(prior, InOrder(ids), {}) EXCEPT !.cursor = Latest, !.version = 1]
     /\ UNCHANGED <<sourceVars, tab, inflight>>

-----------------------------------------------------------------------------
(* Spending *)

\* Local openings commit to exactly what the account holds.
Opens(s, a) == a.registered /\ s.spendable = a.spendable /\ s.receiving = a.receiving

\* Mutated form of MaySpend: the amount is not compared with the balance.
MaySpendUnchecked(s) == Opens(s, truth[Latest])

\* Verified against the chain, and the balance covers the amount.
MaySpend(s) == Opens(s, truth[Latest]) /\ s.spendable.v >= 1

\* The witness is built, which draws the salt of the next opening, and proved.
Verify(t) ==
  LET w == tab[t]
  IN /\ At(t, "verify")
     /\ MaySpend(w.state)
     /\ salt < MaxSalt /\ salt' = salt + 1
     /\ Becomes(t, [w EXCEPT !.pc = "prove",
          !.tx = [type |-> w.goal, spent |-> w.state.spendable,
                  next |-> Committed(w.state.spendable.v - 1, salt + 1)]])
     /\ UNCHANGED <<account, log, truth, indexed, recorded, cache, inflight>>

Refuse(t) ==
  /\ At(t, "verify")
  /\ ~MaySpend(tab[t].state)
  /\ Becomes(t, Idle)
  /\ UNCHANGED <<sourceVars, cache, inflight>>

\* The proof arrives.  The simulation of a stale one fails before it is sent.
Submit(t) ==
  LET w == tab[t]
  IN /\ At(t, "prove")
     /\ IF w.tx.spent = truth[Latest].spendable
          THEN Await(t, "poll") /\ inflight' = inflight \cup {w.tx}
          ELSE Becomes(t, Idle) /\ UNCHANGED inflight
     /\ UNCHANGED <<sourceVars, cache>>

\* The token applies a transaction that spends the current balance ...
Land(tx) ==
  /\ tx.spent = account.spendable
  /\ \E s \in tx.next.r : Spend(tx.type, IF tx.type = "withdraw" THEN Me ELSE Other, s, salt)
  /\ inflight' = inflight \ {tx}
  /\ UNCHANGED <<cache, tab>>

\* ... and the network forgets one that fails or expires.
Drop(tx) ==
  /\ inflight' = inflight \ {tx}
  /\ UNCHANGED <<sourceVars, cache, tab>>

\* Mutated form of Landed: no longer pending is taken for success.
NoLongerPending(tx) == tx \notin inflight

\* getTransaction answers SUCCESS.
Landed(tx) ==
  \E i \in InLedgers(1, Latest) :
    log[i].from = Me /\ log[i].type = tx.type /\ log[i].checkpoint = tx.next

\* Polling finds the transaction: setSpendable overwrites the cached opening.
Confirm(t) ==
  /\ At(t, "poll") /\ Landed(tab[t].tx)
  /\ cache' = [cache EXCEPT !.spendable = tab[t].tx.next]
  /\ Becomes(t, Idle)
  /\ UNCHANGED <<sourceVars, inflight>>

\* Polling ends without an answer; the transaction may still land.
GiveUp(t) ==
  /\ At(t, "poll")
  /\ Becomes(t, Idle)
  /\ UNCHANGED <<sourceVars, cache, inflight>>

\* The page is reloaded; at an await of the three services or while polling
\* this is no different from SyncFails or GiveUp.
Reload(t) ==
  /\ tab[t].pc \in {"health", "fetched", "verify", "prove"}
  /\ Becomes(t, Idle)
  /\ UNCHANGED <<sourceVars, cache, inflight>>

-----------------------------------------------------------------------------
\* A sync does not take as long as the RPC's window lasts.
Timely ==
  \A t \in Tabs :
    (Umbra /\ tab[t].pc \in {"health", "tail"}) => Latest < tab[t].asOf + MaxDelay

Environment == Elsewhere \/ (Timely /\ CloseLedger) \/ Ingest \/ Record

Answer(t) ==
  \/ FetchHistory(t)
  \/ \E oldest \in 0 .. MaxHead : ReadHealth(t, oldest)
  \/ BackfillPage(t)
  \/ FetchTail(t)
  \/ RecoverReleases(t)
  \/ SyncSave(t)

SpendStep(t) == Verify(t) \/ Refuse(t) \/ Submit(t) \/ Confirm(t) \/ GiveUp(t)

Next ==
  \/ Environment /\ UNCHANGED <<cache, tab, inflight>>
  \/ OldSync
  \/ \E tx \in inflight : Land(tx) \/ Drop(tx)
  \/ \E t \in Tabs :
       \/ \E goal \in Goals : SyncStart(t, goal)
       \/ Answer(t) \/ SyncFails(t) \/ SpendStep(t) \/ Reload(t)

Spec == Init /\ [][Next]_vars

\* Ledgers close, the owner keeps refreshing, no service fails every time it is
\* asked for the same page and the tab is not reloaded every time an answer
\* arrives.  (A sync has at most one of Umbra's history and a migration.)
Pages == (MaxEvents - 1) \div PageSize
FairSpec ==
  /\ Spec
  /\ WF_vars(((Timely /\ CloseLedger) \/ Ingest \/ Record) /\ UNCHANGED <<cache, tab, inflight>>)
  /\ \A t \in Tabs :
       /\ WF_vars(SyncStart(t, "refresh"))
       /\ WF_vars(SyncFails(t))
       /\ SF_vars(ReadHealth(t, Oldest))
       /\ \A i \in 0 .. Pages : SF_vars(Len(tab[t].fetched) = i * PageSize /\ BackfillPage(t))
       /\ SF_vars(FetchTail(t))
       /\ SF_vars(FetchHistory(t) \/ RecoverReleases(t))
       /\ SF_vars(SyncSave(t))

-----------------------------------------------------------------------------
(* Properties *)

Pcs == {"idle", "history", "health", "backfill", "tail", "fetched", "verify", "prove", "poll"}
Tab == [pc : Pcs, goal : Goals \cup {"refresh"}, leg : {"history", "releases", "tail"},
        state : AccountState, recovered : SUBSET Nat, fetched : Seq(Nat),
        start : Nat, asOf : Nat, tx : Tx]
TypeOK ==
  /\ SourceTypeOK
  /\ cache \in AccountState
  /\ tab \in [Tabs -> Tab]
  /\ inflight \in SUBSET Tx

Matches(s, a) ==
  s.registered = a.registered /\ s.spendable = a.spendable /\ s.receiving = a.receiving

\* A sync that completes stores exactly the openings the contract committed to
\* when the ledger of the stored cursor closed: whatever mixture of cache,
\* account history, indexer and RPC it was put together from, no event is
\* missed, counted twice or applied in another order.
SyncReconciles ==
  [][\A t \in Tabs : SyncSave(t) => Matches(cache', truth[cache'.cursor])]_vars

\* Between syncs the cached receiving opening is that of the cursor's ledger
\* and the spendable one may run ahead of it, but only to what a spend of the
\* owner has really left on chain: a transaction that was dropped, refused or
\* given up never reaches the cache.
OptimismIsConfirmed ==
  cache.version = 3 =>
    LET then == truth[cache.cursor]
    IN /\ cache.receiving = then.receiving
       /\ \/ cache.spendable = then.spendable
          \/ \E i \in InLedgers(cache.cursor + 1, Latest) :
               log[i].from = Me /\ log[i].checkpoint = cache.spendable

\* However often services fail and ledgers leave the RPC's window in the
\* meantime, once the chain is quiet the cache ends up at its head.
CaughtUp == cache.cursor = Latest /\ Matches(cache, truth[Latest])
CatchesUp == <>[]CaughtUp
=============================================================================

------------------------- MODULE StateEngine_proofs -------------------------
(***************************************************************************)
(* A sync that completes stores what the chain holds, for any number of    *)
(* ledgers, events, tabs and pages: the inductive invariant says, of every *)
(* place between two awaits, which part of the log the openings of a tab   *)
(* stand for and which places it still has to apply.                       *)
(***************************************************************************)
EXTENDS StateEngine, DataInduction, SequenceTheorems

LEMMA Constants ==
  /\ Me # Other /\ Kinds \subseteq EventTypes /\ Served \subseteq EventTypes
  /\ Umbra \in BOOLEAN /\ Indexer \in BOOLEAN /\ Opened \in BOOLEAN /\ OldReleases \in BOOLEAN
  /\ MaxHead \in Nat /\ MaxEvents \in Nat /\ MaxLag \in Nat
  /\ SeamMargin \in Nat /\ MaxDelay \in Nat /\ MaxSalt \in Nat
  /\ Retention \in Nat /\ Retention >= 1 /\ PageSize \in Nat /\ PageSize >= 1
  /\ Goals \subseteq Spends \cup {"refresh"}
  /\ Opened => MaxHead >= 2 /\ MaxLag >= 1
BY SourceAssumption, EngineAssumption

-----------------------------------------------------------------------------
(* The chain *)

\* Ledger n ends with place k of the log l.
Upto(l, k, n) == k \in 0 .. Len(l) /\ \A i \in 1 .. Len(l) : i <= k <=> l[i].ledger <= n

\* f[k] is what a replay of the first k events of l shows.
History(l, f) ==
  /\ f \in [0 .. Len(l) -> AccountState]
  /\ f[0] = FreshState
  /\ \A i \in 1 .. Len(l) : f[i] = Apply(f[i - 1], l[i])

\* Events are logged in the open ledger; ledger 1 holds none.
LogInOrder ==
  /\ Latest >= 1 /\ (Latest = 1 \/ Latest <= MaxHead)
  /\ \A i \in 1 .. Len(log) : log[i].ledger \in 2 .. Latest + 1
  /\ \A i, j \in 1 .. Len(log) : i <= j => log[i].ledger <= log[j].ledger

\* The services are not further behind the head than MaxLag, and Umbra records
\* only closed ledgers.
ServicesFollow ==
  /\ Indexer => Latest <= indexed + MaxLag
  /\ Umbra => Latest <= RecordedLedger + MaxLag
  /\ \A i \in 1 .. recorded : log[i].ledger <= Latest

\* What a pipeline that selects every kind there is serves.
Complete == Kinds \subseteq Served /\ (Opened => {"register", "deposit", "merge"} \subseteq Served)
AllServed == Complete => \A i \in 1 .. Len(log) : log[i].type \in Served

\* Blindings are made of salts that have been drawn.
WithSalts(c, n) == c.r \subseteq (-n) .. n
AccountDrawn == WithSalts(account.spendable, salt) /\ WithSalts(account.receiving, salt)
LogDrawn == \A i \in 1 .. Len(log) : WithSalts(log[i].checkpoint, salt)
SpendsDrawn ==
  /\ \A tx \in inflight : tx.next.r \subseteq 0 .. salt
  /\ \A t \in Tabs : tab[t].tx.next.r \subseteq 0 .. salt

SourceInv == SourceTypeOK /\ LogInOrder /\ ServicesFollow /\ AllServed /\ AccountDrawn /\ LogDrawn

ChainFollows(l, f) ==
  /\ Matches(f[Len(l)], account)
  /\ \A n \in 1 .. Latest, k \in 0 .. Len(l) : Upto(l, k, n) => Matches(f[k], truth[n])

-----------------------------------------------------------------------------
(* The tabs and their cache *)

\* An event after which the owner's spendable opening is its checkpoint.
Own(ev) == ev.from = Me /\ ev.type \in Checkpoints

\* The openings s are those at place b, or the spendable one is already what a
\* later spend of the owner, in a ledger up to n, has left.
Near(l, f, s, b, n) ==
  /\ s.registered = f[b].registered /\ s.receiving = f[b].receiving
  /\ \/ s.spendable = f[b].spendable
     \/ \E p \in (b + 1) .. Len(l) :
          Own(l[p]) /\ l[p].ledger <= n /\ s.spendable = l[p].checkpoint

CacheFollows(l, n, f, c) ==
  c.version = 3 => \E b \in 0 .. Len(l) : Upto(l, b, c.cursor) /\ Near(l, f, c, b, n)

\* The places after a up to c.
Run(a, c) == [k \in 1 .. c - a |-> a + k]

Syncing == {"health", "backfill", "tail", "fetched"}

\* The openings of a sync stand for the places up to b: those Umbra answered,
\* or those of the ledgers up to the cursor.
BaseAt(l, f, w, b, n) ==
  /\ Near(l, f, w.state, b, n)
  /\ \A i \in 1 .. b : l[i].ledger <= n
  /\ Umbra => w.state.cursor = 0 /\ w.recovered = 1 .. b
  /\ ~Umbra => Upto(l, b, w.state.cursor) /\ w.recovered = {}

\* What Umbra had not recorded is recent.
RestIsRecent(l, w, b) == Umbra => \A i \in (b + 1) .. Len(l) : l[i].ledger > w.asOf - MaxLag

\* What has been fetched is a run of places with no gap after b.
FetchedRun(l, w, b, a, c, n) ==
  /\ a <= b /\ a <= c /\ (Umbra \/ a = b)
  /\ w.fetched = Run(a, c)
  /\ Upto(l, c, n)

\* n: last ledger that has closed; x: last one that is indexed.
TabFollows(l, n, x, f, w) ==
  w.pc \in Syncing =>
    \E b \in 0 .. Len(l) :
      /\ BaseAt(l, f, w, b, IF w.pc = "fetched" THEN w.asOf ELSE n)
      /\ w.pc = "health" => RestIsRecent(l, w, b)
      /\ w.pc = "backfill" =>
           /\ Indexer /\ w.start - 1 <= x
           /\ \E a, c \in 0 .. Len(l) :
                /\ Upto(l, a, w.state.cursor) /\ a <= b /\ a <= c
                /\ w.fetched = Run(a, c)
                /\ \A i \in 1 .. c : l[i].ledger <= w.start - 1
      /\ w.pc = "tail" =>
           /\ w.start - 1 <= n
           /\ \E a, c \in 0 .. Len(l) : FetchedRun(l, w, b, a, c, w.start - 1)
      /\ w.pc = "fetched" =>
           /\ w.asOf \in 1 .. n
           /\ \E a, c \in 0 .. Len(l) : FetchedRun(l, w, b, a, c, w.asOf)

\* Every value a tab holds is of this version, and it knows what it syncs.
CacheVersions ==
  /\ cache.version \in {0, 3}
  /\ cache.version = 0 => cache = Nothing
  /\ cache.version = 3 => cache.cursor \in 1 .. Latest
LegOf(w, c) ==
  /\ w.state.cursor \in 0 .. Latest
  /\ w.pc \in Syncing => w.leg = "tail"
  /\ w.pc = "history" => Umbra
  /\ w.pc \in {"verify", "prove", "poll"} => c.version = 3

\* A sync that starts from Umbra's answer is timely.
OnTime(w) == Umbra /\ w.pc = "health" => w.asOf <= Latest /\ Latest <= w.asOf + MaxDelay

\* A spend that is pending lands, if it does, after the ledger of the cache.
Single == \A t, u \in Tabs : t = u
LandsLater(w, c) ==
  w.pc \in {"prove", "poll"} =>
    \A i \in 1 .. Len(log) :
      log[i].from = Me /\ log[i].type = w.tx.type /\ log[i].checkpoint = w.tx.next
        => log[i].ledger > c.cursor

Orderly(w, c) == LegOf(w, c) /\ OnTime(w) /\ (Single => LandsLater(w, c))
Legs == CacheVersions /\ \A t \in Tabs : Orderly(tab[t], cache)

-----------------------------------------------------------------------------
(* Where the services cover the whole history, between them: an indexer that *)
(* selects every kind and is not further behind than the window reaches back *)
(* from the seam; an account history that is not further behind than the     *)
(* window; or a window that still holds the whole chain.                     *)

Covered ==
  \/ Indexer /\ Complete /\ MaxLag + SeamMargin <= Retention
  \/ ~Indexer /\ Umbra /\ MaxLag + MaxDelay < Retention
  \/ ~Indexer /\ MaxHead <= Retention

\* A cache that only one tab writes, or that no sync reads.
Reliable == ~OldReleases /\ Covered /\ (Umbra \/ Single)

-----------------------------------------------------------------------------
(* What a replay computes *)

\* One event of a replay.
Played(s, i, skipped) == IF i \in skipped THEN s ELSE Apply(s, log[i])

IsReplay(it, s, ids, skipped) ==
  it = [x \in SUBSET DOMAIN ids |->
          IF x = {} THEN s ELSE Played(it[x \ {Max(x)}], ids[Max(x)], skipped)]

\* The openings after each of the places.
Plays(h, s, ids, skipped) ==
  h[0] = s /\ \A j \in 1 .. Len(ids) : h[j] = Played(h[j - 1], ids[j], skipped)

LEMMA EventFields ==
  ASSUME NEW ev \in Event
  PROVE  /\ ev.ledger \in Nat /\ ev.type \in EventTypes /\ ev.from \in {Me, Other}
         /\ ev.to \in {Me, Other} /\ ev.checkpoint \in Commitment /\ ev.credit \in Commitment
BY DEF Event

LEMMA PlusType ==
  ASSUME NEW c \in Commitment, NEW d \in Commitment
  PROVE  Plus(c, d) \in Commitment
BY DEF Plus, Commitment

LEMMA ZeroFacts == Zero \in Commitment /\ \A c \in Commitment : Plus(c, Zero) = c
BY DEF Plus, Commitment, Zero, Unblinded

LEMMA StateFields ==
  ASSUME NEW s \in AccountState
  PROVE  /\ s.registered \in BOOLEAN /\ s.spendable \in Commitment
         /\ s.receiving \in Commitment /\ s.cursor \in Nat /\ s.version \in 0 .. 3
BY DEF AccountState

\* What one event does to each of the openings.
LEMMA ApplyFields ==
  ASSUME NEW s \in AccountState, NEW ev \in Event
  PROVE  /\ Apply(s, ev) \in AccountState
         /\ Apply(s, ev).cursor = s.cursor /\ Apply(s, ev).version = s.version
         /\ Apply(s, ev).registered = (s.registered \/ (ev.from = Me /\ ev.type = "register"))
         /\ Apply(s, ev).spendable =
              IF ev.from = Me /\ ev.type = "merge" THEN Plus(s.spendable, s.receiving)
              ELSE IF Own(ev) THEN ev.checkpoint ELSE s.spendable
         /\ Apply(s, ev).receiving =
              IF ev.from = Me /\ ev.type = "merge" THEN Zero
              ELSE IF ev.to = Me /\ ev.type \in Credits THEN Plus(s.receiving, ev.credit)
              ELSE s.receiving
<1>1. /\ s.spendable \in Commitment /\ s.receiving \in Commitment
      /\ ev.checkpoint \in Commitment /\ ev.credit \in Commitment /\ Zero \in Commitment
      /\ Plus(s.spendable, s.receiving) \in Commitment
      /\ Plus(s.receiving, ev.credit) \in Commitment
  BY EventFields, StateFields, PlusType, ZeroFacts
<1>2. PICK a, b, c : /\ a = Plus(s.spendable, s.receiving)
                     /\ b = Plus(s.receiving, ev.credit) /\ c = Zero
  OBVIOUS
<1>3. Apply(s, ev) =
        [s EXCEPT !.registered = s.registered \/ (ev.from = Me /\ ev.type = "register"),
                  !.spendable = IF ev.from = Me /\ ev.type = "merge" THEN a
                                ELSE IF Own(ev) THEN ev.checkpoint ELSE s.spendable,
                  !.receiving = IF ev.from = Me /\ ev.type = "merge" THEN c
                                ELSE IF ev.to = Me /\ ev.type \in Credits THEN b
                                ELSE s.receiving]
  BY <1>2 DEF Apply, Own
<1>4. a \in Commitment /\ b \in Commitment /\ c \in Commitment
  BY <1>1, <1>2
<1> QED BY <1>1, <1>2, <1>3, <1>4 DEF AccountState

LEMMA PlayedType ==
  ASSUME log \in Seq(Event), NEW s \in AccountState, NEW i \in DOMAIN log, NEW skipped
  PROVE  /\ Played(s, i, skipped) \in AccountState
         /\ Played(s, i, skipped).cursor = s.cursor
         /\ Played(s, i, skipped).version = s.version
<1>1. log[i] \in Event
  OBVIOUS
<1> QED BY <1>1, ApplyFields DEF Played

\* The fold of sync applies the events one after the other.
LEMMA ReplayIsRun ==
  ASSUME log \in Seq(Event), NEW s \in AccountState, NEW ids \in Seq(DOMAIN log), NEW skipped,
         NEW h, Plays(h, s, ids, skipped)
  PROVE  Replay(s, ids, skipped) = h[Len(ids)]
<1> DEFINE D == DOMAIN ids
           it == CHOOSE it : IsReplay(it, s, ids, skipped)
           pick == [x \in SUBSET D |-> Max(x)]
           g == [x \in SUBSET D |-> [v \in AccountState |-> Played(v, ids[Max(x)], skipped)]]
<1>1. Replay(s, ids, skipped) = it[D]
  BY DEF Replay, FoldLeft, MapThenFoldSet, IsReplay, Played
<1>2. D = 1 .. Len(ids) /\ Len(ids) \in Nat /\ IsFiniteSet(D)
  <2>1. D = 1 .. Len(ids) /\ Len(ids) \in Nat
    OBVIOUS
  <2>2. IsFiniteSet(1 .. Len(ids))
    BY <2>1, FS_Interval, 1 \in Int, Len(ids) \in Int
  <2> QED BY <2>1, <2>2
<1>3. ASSUME NEW x \in SUBSET D, x # {} PROVE Max(x) \in x
  BY <1>2, <1>3, GreatestNumber, x \in SUBSET (0 .. Len(ids))
<1>4. FoldArguments(D, AccountState, s, pick, g)
  <2>1. ASSUME NEW x \in SUBSET D, NEW v \in AccountState, x # {}
        PROVE  Played(v, ids[Max(x)], skipped) \in AccountState
    <3>1. Max(x) \in D
      BY <1>3, <2>1
    <3>2. ids[Max(x)] \in DOMAIN log
      BY <1>2, <3>1
    <3> QED BY <3>2, PlayedType
  <2> QED BY <1>3, <2>1 DEF FoldArguments
<1>5. PICK jt \in [SUBSET D -> AccountState] : FoldSpec(jt, D, s, pick, g)
  <2> HIDE DEF pick, g, D
  <2> QED BY <1>2, <1>4, FoldExists
<1>6. IsReplay(jt, s, ids, skipped)
  <2> DEFINE kt == [x \in SUBSET D |->
                IF x = {} THEN s ELSE Played(jt[x \ {Max(x)}], ids[Max(x)], skipped)]
  <2>1. ASSUME NEW x \in SUBSET D PROVE jt[x] = kt[x]
    <3>1. jt[x] = IF x = {} THEN s ELSE g[x][jt[x \ {pick[x]}]]
      BY <1>5 DEF FoldSpec
    <3>2. jt[x \ {pick[x]}] \in AccountState
      OBVIOUS
    <3> QED BY <3>1, <3>2
  <2>2. jt = [x \in SUBSET D |-> jt[x]] /\ kt = [x \in SUBSET D |-> kt[x]]
    OBVIOUS
  <2>3. jt = kt
    <3> HIDE DEF kt
    <3> QED BY <2>1, <2>2, SameFunction
  <2> QED BY <2>3 DEF IsReplay
<1>7. IsReplay(it, s, ids, skipped)
  BY <1>6
<1> HIDE DEF it, pick, g
<1> DEFINE N == {j \in Nat : j <= Len(ids) => it[1 .. j] = h[j]}
<1>8. 0 \in N
  <2>1. 1 .. 0 = {} /\ {} \in SUBSET D
    OBVIOUS
  <2>2. it[{}] = s
    BY <1>7 DEF IsReplay
  <2> QED BY <2>1, <2>2 DEF Plays
<1>9. ASSUME NEW j \in Nat, j \in N PROVE j + 1 \in N
  <2> SUFFICES ASSUME j + 1 <= Len(ids) PROVE it[1 .. j + 1] = h[j + 1]
    OBVIOUS
  <2> DEFINE x == 1 .. j + 1
  <2>1. x \in SUBSET D /\ x # {} /\ x \in SUBSET (0 .. j + 1)
    <3>1. \A y \in x : y \in D /\ y \in 0 .. j + 1
      BY <1>2
    <3>2. j + 1 \in x
      OBVIOUS
    <3> QED BY <3>1, <3>2
  <2>2. Max(x) = j + 1
    <3>1. Max(x) \in x /\ \A y \in x : y <= Max(x)
      <4> HIDE DEF x
      <4> QED BY <2>1, GreatestNumber, j + 1 \in Nat
    <3>2. j + 1 \in x
      OBVIOUS
    <3>3. Max(x) <= j + 1 /\ j + 1 <= Max(x) /\ Max(x) \in Int
      BY <3>1, <3>2
    <3> HIDE DEF x
    <3> QED BY <3>3
  <2>3. x \ {j + 1} = 1 .. j
    OBVIOUS
  <2>4. it[x] = Played(it[x \ {Max(x)}], ids[Max(x)], skipped)
    <3> HIDE DEF x
    <3> QED BY <1>7, <2>1 DEF IsReplay
  <2>5. it[x] = Played(it[1 .. j], ids[j + 1], skipped)
    <3> HIDE DEF x
    <3> QED BY <2>2, <2>3, <2>4
  <2>6. h[j + 1] = Played(h[j], ids[j + 1], skipped)
    BY <1>2, (j + 1) - 1 = j DEF Plays
  <2>7. it[1 .. j] = h[j]
    BY <1>9
  <2> QED BY <2>5, <2>6, <2>7
<1>10. Len(ids) \in N
  <2> HIDE DEF N
  <2> QED BY <1>2, <1>8, <1>9, NatSetInduction
<1>11. it[D] = h[Len(ids)]
  BY <1>2, <1>10
<1> QED BY <1>1, <1>11

\* There is such a run.
LEMMA RunExists ==
  ASSUME log \in Seq(Event), NEW s \in AccountState, NEW ids \in Seq(DOMAIN log), NEW skipped
  PROVE  \E h \in [0 .. Len(ids) -> AccountState] : Plays(h, s, ids, skipped)
<1> DEFINE n == Len(ids)
           g == [j \in 1 .. n |-> [v \in AccountState |-> Played(v, ids[j], skipped)]]
<1>1. n \in Nat /\ \A j \in 1 .. n : ids[j] \in DOMAIN log
  OBVIOUS
<1> HIDE DEF n
<1>2. PrefixArguments(n, AccountState, s, g)
  <2>1. \A j \in 1 .. n : \A v \in AccountState : Played(v, ids[j], skipped) \in AccountState
    BY <1>1, PlayedType
  <2> QED BY <1>1, <2>1 DEF PrefixArguments
<1>3. PICK h \in [0 .. n -> AccountState] : PrefixSpec(h, n, s, g)
  <2> HIDE DEF g
  <2> QED BY <1>2, PrefixFold
<1>4. ASSUME NEW j \in 1 .. n PROVE h[j] = Played(h[j - 1], ids[j], skipped)
  <2>1. h[j - 1] \in AccountState
    BY <1>1
  <2> QED BY <1>3, <2>1 DEF PrefixSpec
<1> QED BY <1>3, <1>4 DEF PrefixSpec, Plays, n

-----------------------------------------------------------------------------
(* Answers in the order of the log *)

\* Every rank up to the number of elements is taken.
LEMMA RankTaken ==
  ASSUME NEW m \in Nat, NEW ids \in SUBSET (0 .. m)
  PROVE  /\ Cardinality(ids) \in Nat
         /\ \A k \in 1 .. Cardinality(ids) :
              \E i \in ids : Cardinality({j \in ids : j <= i}) = k
<1> DEFINE D == 0 .. m
           Ranked(s) == \A k \in 1 .. Cardinality(s) :
                          \E i \in s : Cardinality({j \in s : j <= i}) = k
           C == {s \in SUBSET D : Ranked(s)}
<1>1. IsFiniteSet(D)
  BY FS_Interval, 0 \in Int, m \in Int
<1>2. \A s \in SUBSET D : IsFiniteSet(s) /\ Cardinality(s) \in Nat
  BY <1>1, FS_Subset, FS_CardinalityType
<1>3. ASSUME NEW s \in SUBSET D, \A x \in s : s \ {x} \in C PROVE s \in C
  <2> SUFFICES ASSUME NEW k \in 1 .. Cardinality(s)
               PROVE  \E i \in s : Cardinality({j \in s : j <= i}) = k
    OBVIOUS
  <2>1. s # {}
    BY FS_EmptySet
  <2>2. PICK x \in s : \A y \in s : y <= x
    BY <2>1, GreatestNumber
  <2> DEFINE r == s \ {x}
  <2>3. r \in SUBSET D /\ Ranked(r)
    BY <1>3, <2>2
  <2>4. Cardinality(s) = Cardinality(r) + 1 /\ Cardinality(r) \in Nat
    BY <1>2, <2>3, FS_RemoveElement
  <2>5. CASE k = Cardinality(s)
    <3>1. {j \in s : j <= x} = s
      BY <2>2
    <3> QED BY <2>5, <3>1
  <2>6. CASE k # Cardinality(s)
    <3>1. k \in 1 .. Cardinality(r)
      BY <2>4, <2>6
    <3>2. PICK i \in r : Cardinality({j \in r : j <= i}) = k
      BY <2>3, <3>1
    <3>3. i < x /\ i \in s
      BY <2>2
    <3>4. {j \in s : j <= i} = {j \in r : j <= i}
      BY <3>3
    <3> QED BY <3>2, <3>3, <3>4
  <2> QED BY <2>5, <2>6
<1>4. SUBSET D \subseteq C
  <2> HIDE DEF C, D
  <2> QED BY <1>1, <1>3, SubsetInduction
<1>5. ids \in SUBSET D
  OBVIOUS
<1>6. Ranked(ids)
  <2> HIDE DEF D, Ranked
  <2> QED BY <1>4, <1>5
<1> QED BY <1>2, <1>5, <1>6

LEMMA InOrderType ==
  ASSUME NEW m \in Nat, NEW ids \in SUBSET (0 .. m)
  PROVE  InOrder(ids) \in Seq(ids)
<1>1. Cardinality(ids) \in Nat
  BY RankTaken
<1>2. ASSUME NEW k \in 1 .. Cardinality(ids)
      PROVE  (CHOOSE i \in ids : Cardinality({j \in ids : j <= i}) = k) \in ids
  <2>1. \E i \in ids : Cardinality({j \in ids : j <= i}) = k
    BY RankTaken
  <2> QED BY <2>1
<1>3. InOrder(ids) \in [1 .. Cardinality(ids) -> ids]
  BY <1>2 DEF InOrder
<1> QED BY <1>1, <1>3

LEMMA RunFacts ==
  ASSUME NEW a \in Nat, NEW c \in Nat, a <= c
  PROVE  /\ Run(a, c) \in Seq(Nat) /\ Len(Run(a, c)) = c - a
         /\ DOMAIN Run(a, c) = 1 .. c - a
         /\ \A k \in 1 .. c - a : Run(a, c)[k] = a + k
         /\ Run(a, a) = << >>
         /\ Run(a, c) = << >> <=> a = c
<1>1. /\ Run(a, c) \in Seq(Nat) /\ Len(Run(a, c)) = c - a
      /\ DOMAIN Run(a, c) = 1 .. c - a
      /\ \A k \in 1 .. c - a : Run(a, c)[k] = a + k
  BY DEF Run
<1>2. Run(a, a) = << >>
  BY a - a = 0, 1 .. 0 = {} DEF Run
<1> QED BY <1>1, <1>2

LEMMA SameSequence ==
  ASSUME NEW q \in Seq(Nat), NEW r \in Seq(Nat), Len(q) = Len(r),
         \A k \in 1 .. Len(q) : q[k] = r[k]
  PROVE  q = r
<1>1. q = [k \in 1 .. Len(q) |-> q[k]] /\ r = [k \in 1 .. Len(q) |-> r[k]]
  OBVIOUS
<1> QED BY <1>1, SameFunction

LEMMA RunConcat ==
  ASSUME NEW a \in Nat, NEW c \in Nat, NEW d \in Nat, a <= c, c <= d
  PROVE  Run(a, c) \o Run(c, d) = Run(a, d)
<1>1. /\ Run(a, c) \in Seq(Nat) /\ Len(Run(a, c)) = c - a
      /\ Run(c, d) \in Seq(Nat) /\ Len(Run(c, d)) = d - c
      /\ Run(a, d) \in Seq(Nat) /\ Len(Run(a, d)) = d - a
      /\ \A k \in 1 .. c - a : Run(a, c)[k] = a + k
      /\ \A k \in 1 .. d - c : Run(c, d)[k] = c + k
      /\ \A k \in 1 .. d - a : Run(a, d)[k] = a + k
  <2>1. a <= d
    OBVIOUS
  <2>2. /\ Run(a, c) \in Seq(Nat) /\ Len(Run(a, c)) = c - a
        /\ \A k \in 1 .. c - a : Run(a, c)[k] = a + k
    BY RunFacts
  <2>3. /\ Run(c, d) \in Seq(Nat) /\ Len(Run(c, d)) = d - c
        /\ \A k \in 1 .. d - c : Run(c, d)[k] = c + k
    BY RunFacts
  <2>4. /\ Run(a, d) \in Seq(Nat) /\ Len(Run(a, d)) = d - a
        /\ \A k \in 1 .. d - a : Run(a, d)[k] = a + k
    BY <2>1, RunFacts
  <2> QED BY <2>2, <2>3, <2>4
<1>2. PICK q, r, u : q = Run(a, c) /\ r = Run(c, d) /\ u = Run(a, d)
  OBVIOUS
<1>3. q \o r \in Seq(Nat) /\ Len(q \o r) = d - a
  <2>1. q \in Seq(Nat) /\ r \in Seq(Nat) /\ Len(q) = c - a /\ Len(r) = d - c
    BY <1>1, <1>2
  <2>2. (c - a) + (d - c) = d - a
    OBVIOUS
  <2>3. q \o r \in Seq(Nat) /\ Len(q \o r) = Len(q) + Len(r)
    BY <2>1, ConcatProperties
  <2> QED BY <2>1, <2>2, <2>3
<1>4. ASSUME NEW k \in 1 .. d - a PROVE (q \o r)[k] = u[k]
  <2>1. q \in Seq(Nat) /\ r \in Seq(Nat) /\ Len(q) = c - a /\ Len(r) = d - c /\ u[k] = a + k
    BY <1>1, <1>2
  <2>2. k \in 1 .. Len(q) + Len(r)
    BY <2>1
  <2>3. PICK z : z = (q \o r)[k]
    OBVIOUS
  <2>4. z = IF k <= Len(q) THEN q[k] ELSE r[k - Len(q)]
    BY <2>1, <2>2, <2>3, ConcatProperties
  <2>5. CASE k <= c - a
    <3>1. q[k] = a + k
      BY <1>1, <1>2, <2>5
    <3> QED BY <2>1, <2>3, <2>4, <2>5, <3>1
  <2>6. CASE k > c - a
    <3>1. PICK j : j = k - (c - a)
      OBVIOUS
    <3>2. j \in 1 .. d - c /\ c + j = a + k
      BY <2>6, <3>1
    <3>3. z = r[j]
      BY <2>1, <2>4, <2>6, <3>1
    <3>4. r[j] = c + j
      BY <1>1, <1>2, <3>2
    <3>5. u[k] = a + k
      BY <2>1
    <3>6. z = u[k]
      BY <3>2, <3>3, <3>4, <3>5
    <3> QED BY <2>3, <3>6
  <2>7. k <= c - a \/ k > c - a
    OBVIOUS
  <2> QED BY <2>5, <2>6, <2>7
<1>5. q \o r = u
  BY <1>1, <1>2, <1>3, <1>4, SameSequence
<1> QED BY <1>2, <1>5

LEMMA RunPrefix ==
  ASSUME NEW a \in Nat, NEW c \in Nat, NEW p \in Nat, a + p <= c
  PROVE  SubSeq(Run(a, c), 1, p) = Run(a, a + p)
<1>1. /\ Run(a, c) \in Seq(Nat) /\ Len(Run(a, c)) = c - a
      /\ Run(a, a + p) \in Seq(Nat) /\ Len(Run(a, a + p)) = p
      /\ \A k \in 1 .. c - a : Run(a, c)[k] = a + k
      /\ \A k \in 1 .. p : Run(a, a + p)[k] = a + k
  <2>0. a <= c
    OBVIOUS
  <2>1. /\ Run(a, c) \in Seq(Nat) /\ Len(Run(a, c)) = c - a
        /\ \A k \in 1 .. c - a : Run(a, c)[k] = a + k
    BY <2>0, RunFacts
  <2>2. a + p \in Nat /\ a <= a + p /\ (a + p) - a = p
    OBVIOUS
  <2>3. /\ Run(a, a + p) \in Seq(Nat) /\ Len(Run(a, a + p)) = (a + p) - a
        /\ \A k \in 1 .. (a + p) - a : Run(a, a + p)[k] = a + k
    BY <2>2, RunFacts
  <2> QED BY <2>1, <2>2, <2>3
<1>2. PICK q, u : q = Run(a, c) /\ u = Run(a, a + p)
  OBVIOUS
<1>3. SubSeq(q, 1, p) \in Seq(Nat) /\ Len(SubSeq(q, 1, p)) = p
  <2>1. q \in Seq(Nat) /\ p <= Len(q) /\ Len(q) \in Nat
    BY <1>1, <1>2
  <2>2. \A k \in 1 .. p : q[k] \in Nat
    BY <2>1
  <2> QED BY <2>1, <2>2
<1>4. ASSUME NEW k \in 1 .. p PROVE SubSeq(q, 1, p)[k] = u[k]
  BY <1>1, <1>2
<1>5. SubSeq(q, 1, p) = u
  BY <1>1, <1>2, <1>3, <1>4, SameSequence
<1> QED BY <1>2, <1>5

\* The events of consecutive places are answered as a run.
LEMMA RunInOrder ==
  ASSUME NEW a \in Nat, NEW c \in Nat, a <= c
  PROVE  InOrder((a + 1) .. c) = Run(a, c) /\ Cardinality((a + 1) .. c) = c - a
<1> DEFINE ids == (a + 1) .. c
<1>0. \A i \in a .. c : Cardinality((a + 1) .. i) = i - a
  <2> SUFFICES ASSUME NEW i \in a .. c PROVE Cardinality((a + 1) .. i) = i - a
    OBVIOUS
  <2>1. Cardinality((a + 1) .. i) = IF a + 1 > i THEN 0 ELSE i - (a + 1) + 1
    BY FS_Interval, a + 1 \in Int, i \in Int
  <2> QED BY <2>1
<1>1. Cardinality(ids) = c - a
  BY <1>0
<1>2. ASSUME NEW i \in ids PROVE Cardinality({j \in ids : j <= i}) = i - a
  <2>1. {j \in ids : j <= i} = (a + 1) .. i
    OBVIOUS
  <2>2. Cardinality((a + 1) .. i) = i - a
    BY <1>0
  <2> QED BY <2>1, <2>2
<1>3. ASSUME NEW k \in 1 .. c - a
      PROVE  (CHOOSE i \in ids : Cardinality({j \in ids : j <= i}) = k) = a + k
  <2>1. a + k \in ids /\ Cardinality({j \in ids : j <= a + k}) = k
    BY <1>2
  <2>2. \A i \in ids : Cardinality({j \in ids : j <= i}) = k => i = a + k
    BY <1>2
  <2> QED BY <2>1, <2>2
<1>4. InOrder(ids) = Run(a, c)
  BY <1>1, <1>3 DEF InOrder, Run
<1> QED BY <1>1, <1>4

-----------------------------------------------------------------------------
(* Where a ledger ends *)

Ordered(l) ==
  /\ \A i \in 1 .. Len(l) : l[i].ledger \in Nat
  /\ \A i, j \in 1 .. Len(l) : i <= j => l[i].ledger <= l[j].ledger

LEMMA UptoExists ==
  ASSUME NEW l, Len(l) \in Nat, Ordered(l), NEW n \in Int
  PROVE  \E k \in 0 .. Len(l) : Upto(l, k, n)
<1> DEFINE T == {i \in 1 .. Len(l) : l[i].ledger <= n}
<1>1. CASE T = {}
  <2>1. \A i \in 1 .. Len(l) : ~(i <= 0) /\ ~(l[i].ledger <= n)
    BY <1>1
  <2>2. Upto(l, 0, n)
    BY <2>1 DEF Upto
  <2> QED BY <2>2
<1>2. CASE T # {}
  <2>1. T \in SUBSET (0 .. Len(l))
    OBVIOUS
  <2>2. PICK k \in T : \A y \in T : y <= k
    <3> HIDE DEF T
    <3> QED BY <1>2, <2>1, GreatestNumber
  <2>3. ASSUME NEW i \in 1 .. Len(l) PROVE i <= k <=> l[i].ledger <= n
    <3>1. l[k].ledger <= n /\ k \in 1 .. Len(l) /\ l[k].ledger \in Nat /\ l[i].ledger \in Nat
      BY DEF Ordered
    <3>2. i <= k => l[i].ledger <= l[k].ledger
      BY <3>1 DEF Ordered
    <3>3. l[i].ledger <= n => i <= k
      BY <2>2
    <3> QED BY <3>1, <3>2, <3>3
  <2>4. Upto(l, k, n)
    BY <2>3 DEF Upto
  <2> QED BY <2>4
<1> QED BY <1>1, <1>2

\* Later ledgers end at later places; in particular a ledger ends at one place.
LEMMA UptoMonotone ==
  ASSUME NEW l, Len(l) \in Nat, \A i \in 1 .. Len(l) : l[i].ledger \in Nat,
         NEW k, NEW j, NEW n \in Int, NEW m \in Int, Upto(l, k, n), Upto(l, j, m), n <= m
  PROVE  k <= j /\ (n = m => k = j) /\ k \in 0 .. Len(l) /\ j \in 0 .. Len(l)
<1>1. k \in 0 .. Len(l) /\ j \in 0 .. Len(l)
  BY DEF Upto
<1>2. k <= j
  <2> SUFFICES ASSUME k > j PROVE FALSE
    BY <1>1
  <2>1. k \in 1 .. Len(l) /\ ~(k <= j)
    BY <1>1
  <2>2. l[k].ledger <= n /\ ~(l[k].ledger <= m) /\ l[k].ledger \in Nat
    BY <2>1 DEF Upto
  <2> QED BY <2>2
<1>3. ASSUME n = m PROVE j <= k
  <2> SUFFICES ASSUME j > k PROVE FALSE
    BY <1>1
  <2>1. j \in 1 .. Len(l) /\ ~(j <= k)
    BY <1>1
  <2>2. l[j].ledger <= m /\ ~(l[j].ledger <= n) /\ l[j].ledger \in Nat
    BY <2>1 DEF Upto
  <2> QED BY <1>3, <2>2
<1> QED BY <1>1, <1>2, <1>3

LEMMA UptoUnique ==
  ASSUME NEW l, Len(l) \in Nat, \A i \in 1 .. Len(l) : l[i].ledger \in Nat,
         NEW k, NEW j, NEW n \in Int, Upto(l, k, n), Upto(l, j, n)
  PROVE  k = j
<1>1. k \in 0 .. Len(l) /\ j \in 0 .. Len(l)
  BY DEF Upto
<1>2. k <= j
  <2> SUFFICES ASSUME k > j PROVE FALSE
    BY <1>1
  <2>1. k \in 1 .. Len(l) /\ k <= k /\ ~(k <= j)
    BY <1>1
  <2> QED BY <2>1 DEF Upto
<1>3. j <= k
  <2> SUFFICES ASSUME j > k PROVE FALSE
    BY <1>1
  <2>1. j \in 1 .. Len(l) /\ j <= j /\ ~(j <= k)
    BY <1>1
  <2> QED BY <2>1 DEF Upto
<1> QED BY <1>1, <1>2, <1>3

-----------------------------------------------------------------------------
(* The token's calls *)

\* What an event says is what it does to the account.
Says(ev, after) ==
  \A s \in AccountState : Matches(s, account) => Matches(Apply(s, ev), after)

\* A call logs one event in the open ledger.
EventStep(ev) ==
  /\ ev \in Event /\ ev.ledger = Latest + 1 /\ ev.type \in Kinds /\ Latest < MaxHead
  /\ log' = Append(log, ev)
  /\ UNCHANGED <<truth, indexed, recorded>>
  /\ account' \in Account /\ salt' \in Nat /\ salt <= salt'
  /\ Says(ev, account')
  /\ AccountDrawn' /\ WithSalts(ev.checkpoint, salt')

LEMMA AccountFields ==
  ASSUME NEW a \in Account
  PROVE  /\ a.registered \in BOOLEAN /\ a.spendable \in Commitment
         /\ a.receiving \in Commitment /\ a.delegated \in Nat
         /\ a.spendable.v \in Nat /\ a.spendable.r \in SUBSET Int
BY DEF Account, Commitment

LEMMA CommitmentOps ==
  /\ \A x \in Nat : Unblinded(x) \in Commitment /\ Unblinded(x).r = {}
  /\ Zero \in Commitment /\ Zero.r = {}
  /\ \A x \in Nat, s \in Int : Committed(x, s) \in Commitment /\ Committed(x, s).r = {s}
  /\ \A x \in Nat, s \in Int : CommittedTx(x, {s}) \in Commitment /\ CommittedTx(x, {s}).r = {-s}
  /\ \A c \in Commitment, d \in Commitment : Plus(c, d).r = c.r \cup d.r
<1>1. \A s \in Int : {-i : i \in {s}} = {-s}
  OBVIOUS
<1>2. \A x \in Nat, s \in Int : CommittedTx(x, {s}) = [v |-> x, r |-> {-s}]
  BY <1>1 DEF CommittedTx
<1>3. \A s \in Int : {-s} \in SUBSET Int
  OBVIOUS
<1>4. \A x \in Nat, s \in Int : CommittedTx(x, {s}) \in Commitment /\ CommittedTx(x, {s}).r = {-s}
  <2> SUFFICES ASSUME NEW x \in Nat, NEW s \in Int
               PROVE  CommittedTx(x, {s}) \in Commitment /\ CommittedTx(x, {s}).r = {-s}
    OBVIOUS
  <2>1. PICK b \in SUBSET Int : b = {-s}
    BY <1>3
  <2>2. CommittedTx(x, {s}) = [v |-> x, r |-> b]
    BY <1>2, <2>1
  <2> QED BY <2>1, <2>2 DEF Commitment
<1>5. \A x \in Nat, s \in Int : Committed(x, s) \in Commitment /\ Committed(x, s).r = {s}
  BY DEF Commitment, Committed
<1>6. /\ \A x \in Nat : Unblinded(x) \in Commitment /\ Unblinded(x).r = {}
      /\ Zero \in Commitment /\ Zero.r = {}
      /\ \A c \in Commitment, d \in Commitment : Plus(c, d).r = c.r \cup d.r
  BY DEF Commitment, Unblinded, Zero, Plus
<1> QED BY <1>4, <1>5, <1>6

LEMMA MoreSalts ==
  ASSUME NEW c, NEW n \in Nat, NEW m \in Nat, n <= m, WithSalts(c, n)
  PROVE  WithSalts(c, m)
BY DEF WithSalts

LEMMA SaltsOf ==
  /\ \A n \in Nat : WithSalts(Zero, n) /\ WithSalts(Unblinded(1), n)
  /\ \A n \in Nat : \A x \in Nat, s \in 0 .. n :
       WithSalts(Committed(x, s), n) /\ WithSalts(CommittedTx(x, {s}), n)
  /\ \A n \in Nat, c \in Commitment, d \in Commitment :
       WithSalts(c, n) /\ WithSalts(d, n) => WithSalts(Plus(c, d), n)
<1>1. \A n \in Nat : \A x \in Nat, s \in 0 .. n :
       WithSalts(Committed(x, s), n) /\ WithSalts(CommittedTx(x, {s}), n)
  <2> SUFFICES ASSUME NEW n \in Nat, NEW x \in Nat, NEW s \in 0 .. n
               PROVE  WithSalts(Committed(x, s), n) /\ WithSalts(CommittedTx(x, {s}), n)
    OBVIOUS
  <2>1. Committed(x, s).r = {s} /\ CommittedTx(x, {s}).r = {-s}
    BY CommitmentOps, s \in Int
  <2>2. s \in (-n) .. n /\ -s \in (-n) .. n
    OBVIOUS
  <2> QED BY <2>1, <2>2 DEF WithSalts
<1>2. \A n \in Nat : WithSalts(Zero, n) /\ WithSalts(Unblinded(1), n)
  BY CommitmentOps DEF WithSalts
<1>3. \A n \in Nat, c \in Commitment, d \in Commitment :
       WithSalts(c, n) /\ WithSalts(d, n) => WithSalts(Plus(c, d), n)
  BY CommitmentOps DEF WithSalts
<1> QED BY <1>1, <1>2, <1>3

\* What a call is told to log is what EventStep asks for.
Sound(type, from, to, after, credit, s) ==
  /\ type \in EventTypes /\ from \in {Me, Other} /\ to \in {Me, Other}
  /\ after \in Account /\ credit \in Commitment
  /\ s \in Nat /\ salt <= s
  /\ WithSalts(after.spendable, s) /\ WithSalts(after.receiving, s)

LEMMA EntryFields ==
  ASSUME NEW n \in Nat, NEW type, NEW from, NEW to, NEW after, NEW credit, NEW s,
         Sound(type, from, to, after, credit, s), NEW ev, ev = Entry(n, type, from, to, after, credit)
  PROVE  /\ ev \in Event /\ ev.ledger = n /\ ev.type = type /\ ev.from = from /\ ev.to = to
         /\ ev.checkpoint = after.spendable /\ ev.credit = credit
<1>1. after.spendable \in Commitment
  BY AccountFields DEF Sound
<1> QED BY <1>1 DEF Entry, Event, Sound

LEMMA EmitStep ==
  ASSUME SourceTypeOK, NEW type, NEW from, NEW to, NEW after, NEW credit, NEW s,
         Emit(type, from, to, after, credit, s), Sound(type, from, to, after, credit, s),
         NEW ev, ev = Entry(Latest + 1, type, from, to, after, credit), Says(ev, after)
  PROVE  EventStep(ev)
<1>1. Latest \in Nat /\ salt \in Nat
  BY DEF SourceTypeOK, Latest
<1>2. /\ ev \in Event /\ ev.ledger = Latest + 1 /\ ev.type = type
      /\ ev.checkpoint = after.spendable
  BY <1>1, EntryFields, Latest + 1 \in Nat
<1>3. account' = after /\ salt' = s
  BY DEF Emit
<1> QED BY <1>2, <1>3 DEF EventStep, Emit, Sound, AccountDrawn

\* What an event is replayed as is what the call did to the account.
Effect(ev, after) ==
  /\ after.registered = (account.registered \/ (ev.from = Me /\ ev.type = "register"))
  /\ after.spendable =
       IF ev.from = Me /\ ev.type = "merge" THEN Plus(account.spendable, account.receiving)
       ELSE IF Own(ev) THEN ev.checkpoint ELSE account.spendable
  /\ after.receiving =
       IF ev.from = Me /\ ev.type = "merge" THEN Zero
       ELSE IF ev.to = Me /\ ev.type \in Credits THEN Plus(account.receiving, ev.credit)
       ELSE account.receiving

LEMMA EffectSays ==
  ASSUME NEW ev \in Event, NEW after, Effect(ev, after)
  PROVE  Says(ev, after)
<1> SUFFICES ASSUME NEW s \in AccountState, Matches(s, account)
             PROVE  Matches(Apply(s, ev), after)
  BY DEF Says
<1>1. /\ s.registered = account.registered /\ s.spendable = account.spendable
      /\ s.receiving = account.receiving
  BY DEF Matches
<1>2. PICK b : b = Apply(s, ev)
  OBVIOUS
<1>3. b.registered = after.registered /\ b.spendable = after.spendable /\ b.receiving = after.receiving
  BY <1>1, <1>2, ApplyFields DEF Effect
<1> QED BY <1>2, <1>3 DEF Matches

LEMMA CallStep ==
  ASSUME SourceTypeOK, NEW type, NEW from, NEW to, NEW after, NEW credit, NEW s,
         Emit(type, from, to, after, credit, s), Sound(type, from, to, after, credit, s),
         NEW ev, ev = Entry(Latest + 1, type, from, to, after, credit), Effect(ev, after)
  PROVE  EventStep(ev)
<1>1. Latest + 1 \in Nat
  BY DEF SourceTypeOK, Latest
<1>2. ev \in Event
  BY <1>1, EntryFields
<1>3. Says(ev, after)
  BY <1>2, EffectSays
<1> QED BY <1>3, EmitStep

LEMMA Names ==
  /\ {"register", "deposit", "merge", "revoke_spender", "spender_transfer", "transfer"}
       \subseteq EventTypes
  /\ Spends \subseteq EventTypes /\ Spends \subseteq Checkpoints
  /\ "register" \notin Checkpoints /\ "deposit" \notin Checkpoints /\ "merge" \notin Checkpoints
  /\ "spender_transfer" \notin Checkpoints /\ "revoke_spender" \in Checkpoints
  /\ Credits = {"deposit", "transfer", "spender_transfer"}
  /\ Spends = {"withdraw", "transfer", "set_spender"}
BY DEF EventTypes, Spends, Checkpoints, Credits

LEMMA RegisterStep ==
  ASSUME SourceTypeOK, AccountDrawn, RegisterMe
  PROVE  \E ev : EventStep(ev)
<1>1. PICK after, ev : /\ after = [account EXCEPT !.registered = TRUE]
                       /\ ev = Entry(Latest + 1, "register", Me, Me, after, Zero)
  OBVIOUS
<1>2. account \in Account /\ salt \in Nat /\ Latest + 1 \in Nat
  BY DEF SourceTypeOK, Latest
<1>3. /\ after \in Account /\ after.registered = TRUE
      /\ after.spendable = account.spendable /\ after.receiving = account.receiving
  BY <1>1, <1>2 DEF Account
<1>4. Sound("register", Me, Me, after, Zero, salt)
  BY <1>2, <1>3, Names, CommitmentOps DEF Sound, AccountDrawn
<1>5. ev.type = "register" /\ ev.from = Me /\ ev.to = Me
  BY <1>1, <1>2, <1>4, EntryFields
<1>6. account.registered \in BOOLEAN
  BY <1>2, AccountFields
<1>7. Effect(ev, after)
  BY <1>3, <1>5, <1>6, Names DEF Effect, Own
<1>8. Emit("register", Me, Me, after, Zero, salt)
  BY <1>1 DEF RegisterMe
<1> QED BY <1>1, <1>4, <1>7, <1>8, CallStep

LEMMA CreditedStep ==
  ASSUME SourceTypeOK, AccountDrawn, NEW type \in Credits, NEW credit \in Commitment,
         NEW s \in Nat, salt <= s, WithSalts(credit, s),
         NEW after, after = [account EXCEPT !.receiving = Plus(account.receiving, credit)],
         Emit(type, Other, Me, after, credit, s)
  PROVE  \E ev : EventStep(ev)
<1>1. PICK ev : ev = Entry(Latest + 1, type, Other, Me, after, credit)
  OBVIOUS
<1>2. account \in Account /\ salt \in Nat /\ Latest + 1 \in Nat
  BY DEF SourceTypeOK, Latest
<1>3. account.spendable \in Commitment /\ account.receiving \in Commitment
  BY <1>2, AccountFields
<1>4. Plus(account.receiving, credit) \in Commitment
  BY <1>3, PlusType
<1>5. /\ after \in Account /\ after.registered = account.registered
      /\ after.spendable = account.spendable
      /\ after.receiving = Plus(account.receiving, credit)
  BY <1>2, <1>4 DEF Account
<1>6. WithSalts(account.spendable, s) /\ WithSalts(account.receiving, s)
  BY <1>2, MoreSalts DEF AccountDrawn
<1>7. WithSalts(Plus(account.receiving, credit), s)
  BY <1>3, <1>6, SaltsOf
<1>8. Sound(type, Other, Me, after, credit, s)
  BY <1>5, <1>6, <1>7, Names DEF Sound
<1>9. ev.type = type /\ ev.from = Other /\ ev.to = Me /\ ev.credit = credit
  BY <1>1, <1>2, <1>8, EntryFields
<1>10. account.registered \in BOOLEAN
  BY <1>2, AccountFields
<1>11. Effect(ev, after)
  BY <1>5, <1>9, <1>10, Constants DEF Effect, Own
<1> QED BY <1>1, <1>8, <1>11, CallStep

LEMMA DepositStep ==
  ASSUME SourceTypeOK, AccountDrawn, DepositToMe
  PROVE  \E ev : EventStep(ev)
<1>1. Unblinded(1) \in Commitment /\ salt \in Nat
  BY CommitmentOps DEF SourceTypeOK
<1>2. WithSalts(Unblinded(1), salt) /\ salt <= salt
  BY <1>1, SaltsOf
<1>3. PICK after : after = [account EXCEPT !.receiving = Plus(account.receiving, Unblinded(1))]
  OBVIOUS
<1>4. Emit("deposit", Other, Me, after, Unblinded(1), salt)
  BY <1>3 DEF DepositToMe
<1> QED BY <1>1, <1>2, <1>3, <1>4, Names, CreditedStep

LEMMA CreditStep ==
  ASSUME SourceTypeOK, AccountDrawn, NEW type \in {"transfer", "spender_transfer"}, CreditMe(type)
  PROVE  \E ev : EventStep(ev)
<1>1. salt + 1 \in Nat /\ salt <= salt + 1 /\ salt + 1 \in Int /\ salt + 1 \in 0 .. salt + 1
  BY DEF SourceTypeOK
<1>2. PICK credit : credit = CommittedTx(1, {salt + 1})
  OBVIOUS
<1>3. credit \in Commitment /\ WithSalts(credit, salt + 1)
  BY <1>1, <1>2, CommitmentOps, SaltsOf
<1>4. PICK after : after = [account EXCEPT !.receiving = Plus(account.receiving, credit)]
  OBVIOUS
<1>5. Emit(type, Other, Me, after, credit, salt + 1)
  BY <1>2, <1>4 DEF CreditMe
<1>6. type \in Credits
  BY Names
<1> QED BY <1>1, <1>3, <1>4, <1>5, <1>6, CreditedStep

LEMMA MergeStep ==
  ASSUME SourceTypeOK, AccountDrawn, MergeMe
  PROVE  \E ev : EventStep(ev)
<1>1. PICK after, ev : /\ after = [account EXCEPT !.spendable = Plus(account.spendable, account.receiving),
                                                  !.receiving = Zero]
                       /\ ev = Entry(Latest + 1, "merge", Me, Me, after, Zero)
  OBVIOUS
<1>2. account \in Account /\ salt \in Nat /\ Latest + 1 \in Nat
  BY DEF SourceTypeOK, Latest
<1>3. account.spendable \in Commitment /\ account.receiving \in Commitment /\ Zero \in Commitment
  BY <1>2, AccountFields, CommitmentOps
<1>4. Plus(account.spendable, account.receiving) \in Commitment
  BY <1>3, PlusType
<1>5. /\ after \in Account /\ after.registered = account.registered
      /\ after.spendable = Plus(account.spendable, account.receiving)
      /\ after.receiving = Zero
  BY <1>1, <1>2, <1>3, <1>4 DEF Account
<1>6. WithSalts(Plus(account.spendable, account.receiving), salt) /\ WithSalts(Zero, salt)
  BY <1>2, <1>3, SaltsOf DEF AccountDrawn
<1>7. Sound("merge", Me, Me, after, Zero, salt)
  BY <1>2, <1>3, <1>5, <1>6, Names DEF Sound
<1>8. ev.type = "merge" /\ ev.from = Me
  BY <1>1, <1>2, <1>7, EntryFields
<1>9. account.registered \in BOOLEAN
  BY <1>2, AccountFields
<1>10. Effect(ev, after)
  BY <1>5, <1>8, <1>9 DEF Effect
<1>11. Emit("merge", Me, Me, after, Zero, salt)
  BY <1>1 DEF MergeMe
<1> QED BY <1>1, <1>7, <1>10, <1>11, CallStep

LEMMA SpendMineStep ==
  ASSUME SourceTypeOK, AccountDrawn, NEW type \in Spends, NEW to \in {Me, Other},
         NEW drawn \in Nat, salt <= drawn, NEW s \in 0 .. drawn, Spend(type, to, s, drawn)
  PROVE  \E ev : EventStep(ev)
<1>1. PICK credit : credit = IF type = "transfer" /\ to = Me THEN CommittedTx(1, {s}) ELSE Zero
  OBVIOUS
<1>2. account \in Account /\ salt \in Nat /\ Latest + 1 \in Nat /\ account.spendable.v - 1 \in Nat
  <2>1. account \in Account /\ salt \in Nat /\ Latest + 1 \in Nat
    BY DEF SourceTypeOK, Latest
  <2>2. account.spendable.v \in Nat /\ account.spendable.v >= 1
    BY <2>1, AccountFields DEF Spend
  <2> QED BY <2>1, <2>2
<1>3. PICK left, sum : /\ left = Committed(account.spendable.v - 1, s)
                       /\ sum = Plus(account.receiving, credit)
  OBVIOUS
<1>4. /\ account.receiving \in Commitment /\ account.registered \in BOOLEAN
      /\ account.delegated \in Nat
  BY <1>2, AccountFields
<1>5. credit \in Commitment /\ WithSalts(credit, drawn)
  <2>1. s \in Int /\ 1 \in Nat
    OBVIOUS
  <2>2. CommittedTx(1, {s}) \in Commitment /\ Zero \in Commitment
    BY <2>1, CommitmentOps
  <2>3. WithSalts(CommittedTx(1, {s}), drawn) /\ WithSalts(Zero, drawn)
    BY <2>1, SaltsOf
  <2> QED BY <1>1, <2>2, <2>3
<1>6. left \in Commitment /\ WithSalts(left, drawn)
  BY <1>2, <1>3, s \in Int, CommitmentOps, SaltsOf
<1>7. WithSalts(account.receiving, drawn)
  BY <1>2, MoreSalts DEF AccountDrawn
<1>8. sum \in Commitment /\ WithSalts(sum, drawn)
  BY <1>3, <1>4, <1>5, <1>7, PlusType, SaltsOf
<1>9. PICK held \in Nat :
         held = IF type = "set_spender" THEN account.delegated + 1 ELSE account.delegated
  BY <1>4
<1>10. PICK after : after = [account EXCEPT !.spendable = left, !.receiving = sum,
                                            !.delegated = held]
  OBVIOUS
<1>11. /\ after \in Account /\ after.registered = account.registered
       /\ after.spendable = left /\ after.receiving = sum
  BY <1>2, <1>6, <1>8, <1>9, <1>10 DEF Account
<1>12. Emit(type, Me, to, after, credit, drawn)
  BY <1>1, <1>3, <1>9, <1>10 DEF Spend
<1>13. Sound(type, Me, to, after, credit, drawn)
  BY <1>5, <1>6, <1>8, <1>11, Names DEF Sound
<1>14. PICK ev : ev = Entry(Latest + 1, type, Me, to, after, credit)
  OBVIOUS
<1>15. /\ ev.type = type /\ ev.from = Me /\ ev.to = to /\ ev.credit = credit
       /\ ev.checkpoint = left
  BY <1>2, <1>11, <1>13, <1>14, EntryFields
<1>16. type # "merge" /\ type # "register" /\ type \in Checkpoints
       /\ (type \in Credits <=> type = "transfer")
  BY Names
<1>17. ~(type = "transfer" /\ to = Me) => sum = account.receiving
  BY <1>1, <1>3, <1>4, ZeroFacts
<1>18. Effect(ev, after)
  BY <1>3, <1>4, <1>11, <1>15, <1>16, <1>17 DEF Effect, Own
<1> QED BY <1>12, <1>13, <1>14, <1>18, CallStep

LEMMA RevokeStep ==
  ASSUME SourceTypeOK, AccountDrawn, RevokeMine
  PROVE  \E ev : EventStep(ev)
<1>2. account \in Account /\ salt \in Nat /\ Latest + 1 \in Nat
  BY DEF SourceTypeOK, Latest
<1>3. PICK left, held : /\ left = Committed(account.spendable.v + 1, salt + 1)
                        /\ held = account.delegated - 1
  OBVIOUS
<1>4. /\ account.receiving \in Commitment /\ account.registered \in BOOLEAN
      /\ account.spendable.v + 1 \in Nat /\ account.delegated \in Nat
      /\ salt + 1 \in Nat /\ salt + 1 \in Int /\ salt + 1 \in 0 .. salt + 1 /\ salt <= salt + 1
  BY <1>2, AccountFields
<1>5. held \in Nat
  BY <1>3, <1>4 DEF RevokeMine
<1>6. left \in Commitment /\ WithSalts(left, salt + 1)
  BY <1>3, <1>4, CommitmentOps, SaltsOf
<1>7. WithSalts(account.receiving, salt + 1)
  BY <1>2, <1>4, MoreSalts DEF AccountDrawn
<1>8. PICK after : after = [account EXCEPT !.spendable = left, !.delegated = held]
  OBVIOUS
<1>9. /\ after \in Account /\ after.registered = account.registered
      /\ after.spendable = left /\ after.receiving = account.receiving
  BY <1>2, <1>5, <1>6, <1>8 DEF Account
<1>10. Emit("revoke_spender", Me, Other, after, Zero, salt + 1)
  BY <1>3, <1>8 DEF RevokeMine
<1>11. Sound("revoke_spender", Me, Other, after, Zero, salt + 1)
  BY <1>4, <1>6, <1>7, <1>9, Names, CommitmentOps DEF Sound
<1>12. PICK ev : ev = Entry(Latest + 1, "revoke_spender", Me, Other, after, Zero)
  OBVIOUS
<1>13. ev.type = "revoke_spender" /\ ev.from = Me /\ ev.to = Other /\ ev.checkpoint = left
  BY <1>2, <1>9, <1>11, <1>12, EntryFields
<1>14. Effect(ev, after)
  BY <1>4, <1>9, <1>13, Names DEF Effect, Own
<1> QED BY <1>10, <1>11, <1>12, <1>14, CallStep

LEMMA ReleaseStep ==
  ASSUME SourceTypeOK, AccountDrawn, ReleaseMine
  PROVE  \E ev : EventStep(ev)
<1>1. account \in Account /\ salt \in Nat /\ Latest + 1 \in Nat
  BY DEF SourceTypeOK, Latest
<1>2. account.registered \in BOOLEAN /\ account.delegated \in Nat
  BY <1>1, AccountFields
<1>3. PICK held : held = account.delegated - 1
  OBVIOUS
<1>4. held \in Nat
  BY <1>2, <1>3 DEF ReleaseMine
<1>5. PICK after : after = [account EXCEPT !.delegated = held]
  OBVIOUS
<1>6. /\ after \in Account /\ after.registered = account.registered
      /\ after.spendable = account.spendable /\ after.receiving = account.receiving
  BY <1>1, <1>4, <1>5 DEF Account
<1>7. Emit("spender_transfer", Me, Other, after, Zero, salt)
  BY <1>3, <1>5 DEF ReleaseMine
<1>8. Sound("spender_transfer", Me, Other, after, Zero, salt)
  BY <1>1, <1>6, Names, CommitmentOps DEF Sound, AccountDrawn
<1>9. PICK ev : ev = Entry(Latest + 1, "spender_transfer", Me, Other, after, Zero)
  OBVIOUS
<1>10. ev.type = "spender_transfer" /\ ev.from = Me /\ ev.to = Other
  BY <1>1, <1>8, <1>9, EntryFields
<1>11. Effect(ev, after)
  BY <1>2, <1>6, <1>10, Names, Constants DEF Effect, Own
<1> QED BY <1>7, <1>8, <1>9, <1>11, CallStep

LEMMA ElsewhereStep ==
  ASSUME SourceTypeOK, AccountDrawn, Elsewhere
  PROVE  \E ev : EventStep(ev)
<1>1. ASSUME NEW type \in {"transfer", "spender_transfer"}, CreditMe(type)
      PROVE  \E ev : EventStep(ev)
  BY <1>1, CreditStep
<1>2. ASSUME NEW type \in Spends, NEW to \in {Me, Other}, Spend(type, to, salt + 1, salt + 1)
      PROVE  \E ev : EventStep(ev)
  <2>1. salt + 1 \in Nat /\ salt <= salt + 1 /\ salt + 1 \in 0 .. salt + 1
    BY DEF SourceTypeOK
  <2> QED BY <1>2, <2>1, SpendMineStep
<1> QED BY <1>1, <1>2, RegisterStep, DepositStep, MergeStep, RevokeStep, ReleaseStep DEF Elsewhere

-----------------------------------------------------------------------------
(* The chain and its services *)

\* Later, the log is longer by events of ledgers that were still open.
Grows(l, n, k, m) ==
  /\ Len(l) \in Nat /\ Len(k) \in Nat /\ Len(l) <= Len(k) /\ n \in Nat /\ m \in Nat /\ n <= m
  /\ \A i \in 1 .. Len(l) : k[i] = l[i]
  /\ \A i \in 1 .. Len(k) : k[i].ledger \in Nat /\ (i > Len(l) => k[i].ledger > n)
Extends(l, f, g) == \A i \in 0 .. Len(l) : g[i] = f[i]

LEMMA UptoGrows ==
  ASSUME NEW l, NEW n, NEW k, NEW m, Grows(l, n, k, m), NEW e \in Int, e <= n, NEW j
  PROVE  /\ Upto(l, j, e) => Upto(k, j, e)
         /\ Upto(k, j, e) => Upto(l, j, e)
<1>1. Len(l) \in Nat /\ Len(k) \in Nat /\ Len(l) <= Len(k) /\ n \in Nat
  BY DEF Grows
<1>2. ASSUME Upto(l, j, e) PROVE Upto(k, j, e)
  <2>1. j \in 0 .. Len(l) /\ j \in 0 .. Len(k)
    BY <1>1, <1>2 DEF Upto
  <2>2. ASSUME NEW i \in 1 .. Len(k) PROVE i <= j <=> k[i].ledger <= e
    <3>1. CASE i <= Len(l)
      <4>1. i \in 1 .. Len(l) /\ k[i] = l[i]
        BY <1>1, <3>1 DEF Grows
      <4> QED BY <1>2, <4>1 DEF Upto
    <3>2. CASE i > Len(l)
      <4>1. k[i].ledger \in Nat /\ k[i].ledger > n
        BY <3>2 DEF Grows
      <4>2. ~(i <= j) /\ ~(k[i].ledger <= e)
        BY <1>1, <2>1, <3>2, <4>1
      <4> QED BY <4>2
    <3> QED BY <1>1, <3>1, <3>2
  <2> QED BY <2>1, <2>2 DEF Upto
<1>3. ASSUME Upto(k, j, e) PROVE Upto(l, j, e)
  <2>1. j \in 0 .. Len(k) /\ \A i \in 1 .. Len(k) : i <= j <=> k[i].ledger <= e
    BY <1>3 DEF Upto
  <2>2. j <= Len(l)
    <3> SUFFICES ASSUME j > Len(l) PROVE FALSE
      BY <1>1, <2>1
    <3>1. j \in 1 .. Len(k) /\ j <= j
      BY <1>1, <2>1
    <3>2. k[j].ledger <= e /\ k[j].ledger \in Nat /\ k[j].ledger > n
      BY <2>1, <3>1 DEF Grows
    <3> QED BY <1>1, <3>2
  <2>3. \A i \in 1 .. Len(l) : i <= j <=> l[i].ledger <= e
    <3> SUFFICES ASSUME NEW i \in 1 .. Len(l) PROVE i <= j <=> l[i].ledger <= e
      OBVIOUS
    <3>1. i \in 1 .. Len(k) /\ k[i] = l[i]
      BY <1>1 DEF Grows
    <3> QED BY <2>1, <3>1
  <2> QED BY <1>1, <2>1, <2>2, <2>3 DEF Upto
<1> QED BY <1>2, <1>3

\* A call makes the log longer by its event.
LEMMA LogGrows ==
  ASSUME SourceInv, NEW ev, EventStep(ev), NEW z, z = Len(log)
  PROVE  /\ z \in Nat /\ log \in Seq(Event) /\ log' \in Seq(Event)
         /\ Len(log') = z + 1 /\ log'[z + 1] = ev /\ \A i \in 1 .. z : log'[i] = log[i]
         /\ Latest \in Nat /\ Latest' = Latest /\ ev \in Event
<1>1. log \in Seq(Event) /\ truth \in Seq(Account) /\ ev \in Event
  BY DEF SourceInv, SourceTypeOK, EventStep
<1>2. log' = Append(log, ev) /\ truth' = truth
  BY DEF EventStep
<1> QED BY <1>1, <1>2 DEF Latest

LEMMA EventSourceInv ==
  ASSUME SourceInv, NEW ev, EventStep(ev)
  PROVE  SourceInv' /\ Grows(log, Latest, log', Latest')
<1>1. PICK z, l, k, n : z = Len(log) /\ l = log /\ k = log' /\ n = Latest
  OBVIOUS
<1>2. /\ z \in Nat /\ l \in Seq(Event) /\ k \in Seq(Event) /\ Len(l) = z
      /\ Len(k) = z + 1 /\ k[z + 1] = ev /\ \A i \in 1 .. z : k[i] = l[i]
      /\ n \in Nat /\ Latest' = n /\ ev \in Event
  BY <1>1, LogGrows
<1>3. \A i \in 1 .. z + 1 : i \in 1 .. z \/ i = z + 1
  BY <1>2
<1>4. ev.ledger = n + 1 /\ ev.type \in Kinds /\ n < MaxHead
  BY <1>1 DEF EventStep
<1>5. SourceTypeOK'
  <2>1. indexed \in 1 .. Latest /\ recorded \in 0 .. z /\ truth \in Seq(Account)
    BY <1>1 DEF SourceInv, SourceTypeOK
  <2>2. truth' = truth /\ indexed' = indexed /\ recorded' = recorded
        /\ account' \in Account /\ salt' \in Nat
    BY DEF EventStep
  <2>3. indexed' \in 1 .. Latest'
    BY <1>1, <1>2, <2>1, <2>2
  <2>4. recorded' \in 0 .. Len(log')
    BY <1>1, <1>2, <2>1, <2>2
  <2> QED BY <1>1, <1>2, <2>1, <2>2, <2>3, <2>4 DEF SourceTypeOK
<1>6. LogInOrder'
  <2>1. /\ n >= 1 /\ (n = 1 \/ n <= MaxHead)
        /\ \A i \in 1 .. z : l[i].ledger \in 2 .. n + 1
        /\ \A i, j \in 1 .. z : i <= j => l[i].ledger <= l[j].ledger
    BY <1>1 DEF SourceInv, LogInOrder
  <2>2. ASSUME NEW i \in 1 .. z + 1 PROVE k[i].ledger \in 2 .. n + 1
    BY <1>2, <1>3, <1>4, <2>1
  <2>3. ASSUME NEW i \in 1 .. z + 1, NEW j \in 1 .. z + 1, i <= j
        PROVE  k[i].ledger <= k[j].ledger
    <3>1. CASE j = z + 1
      BY <1>2, <1>4, <2>2, <3>1
    <3>2. CASE j # z + 1
      <4>1. i \in 1 .. z /\ j \in 1 .. z
        BY <1>2, <2>3, <3>2
      <4> QED BY <1>2, <2>1, <2>3, <4>1
    <3> QED BY <3>1, <3>2
  <2> QED BY <1>1, <1>2, <2>1, <2>2, <2>3 DEF LogInOrder
<1>7. ServicesFollow'
  <2>1. /\ indexed' = indexed /\ recorded' = recorded /\ recorded \in 0 .. z
    BY <1>1 DEF EventStep, SourceInv, SourceTypeOK
  <2>2. /\ Indexer => n <= indexed + MaxLag
        /\ Umbra => n <= RecordedLedger + MaxLag
        /\ \A i \in 1 .. recorded : l[i].ledger <= n
    BY <1>1 DEF SourceInv, ServicesFollow
  <2>3. RecordedLedger' = RecordedLedger
    <3>1. CASE recorded = z
      BY <1>1, <1>2, <1>4, <2>1, <3>1 DEF RecordedLedger
    <3>2. CASE recorded # z
      <4>1. recorded + 1 \in 1 .. z /\ recorded # z + 1
        BY <1>2, <2>1, <3>2
      <4>2. k[recorded + 1] = l[recorded + 1]
        BY <1>2, <4>1
      <4> QED BY <1>1, <1>2, <2>1, <3>2, <4>1, <4>2 DEF RecordedLedger
    <3> QED BY <3>1, <3>2
  <2>4. \A i \in 1 .. recorded : k[i].ledger <= n
    <3>1. \A i \in 1 .. recorded : i \in 1 .. z
      BY <1>2, <2>1
    <3> QED BY <1>2, <2>2, <3>1
  <2> QED BY <1>1, <1>2, <2>1, <2>2, <2>3, <2>4 DEF ServicesFollow
<1>8. AllServed'
  <2> SUFFICES ASSUME Complete PROVE \A i \in 1 .. z + 1 : k[i].type \in Served
    BY <1>1, <1>2 DEF AllServed, Complete
  <2>1. \A i \in 1 .. z : l[i].type \in Served
    BY <1>1 DEF SourceInv, AllServed
  <2>2. ev.type \in Served
    BY <1>4 DEF Complete
  <2> QED BY <1>2, <1>3, <2>1, <2>2
<1>9. AccountDrawn'
  BY DEF EventStep
<1>10. LogDrawn'
  <2>1. salt \in Nat /\ salt' \in Nat /\ salt <= salt' /\ WithSalts(ev.checkpoint, salt')
    BY DEF EventStep, SourceInv, SourceTypeOK
  <2>2. ASSUME NEW i \in 1 .. z PROVE WithSalts(k[i].checkpoint, salt')
    <3>1. WithSalts(l[i].checkpoint, salt) /\ k[i] = l[i]
      BY <1>1, <1>2 DEF SourceInv, LogDrawn
    <3> QED BY <2>1, <3>1, MoreSalts
  <2>3. \A i \in 1 .. z + 1 : WithSalts(k[i].checkpoint, salt')
    BY <1>2, <1>3, <2>1, <2>2
  <2> QED BY <1>1, <1>2, <2>3 DEF LogDrawn
<1>11. Grows(log, Latest, log', Latest')
  <2>1. \A i \in 1 .. z + 1 : k[i].ledger \in Nat /\ (i > z => k[i].ledger > n)
    <3>1. \A i \in 1 .. z + 1 : k[i].ledger \in Nat
      BY <1>2, EventFields
    <3>2. \A i \in 1 .. z + 1 : i > z => i = z + 1
      BY <1>2
    <3> QED BY <1>2, <1>4, <3>1, <3>2
  <2> QED BY <1>1, <1>2, <2>1 DEF Grows
<1> QED BY <1>5, <1>6, <1>7, <1>8, <1>9, <1>10, <1>11 DEF SourceInv

\* Ledger, service and tab steps leave the log alone.
LEMMA SameLog ==
  ASSUME SourceInv, log' = log, NEW n, n = Latest', n \in Nat, Latest <= n
  PROVE  Grows(log, Latest, log', n)
<1>1. log \in Seq(Event) /\ truth \in Seq(Account)
  BY DEF SourceInv, SourceTypeOK
<1>2. Len(log) \in Nat /\ Latest \in Nat /\ \A i \in 1 .. Len(log) : log[i] \in Event
  BY <1>1 DEF Latest
<1>3. \A i \in 1 .. Len(log) : log[i].ledger \in Nat /\ ~(i > Len(log))
  BY <1>2, EventFields
<1> QED BY <1>2, <1>3 DEF Grows

LEMMA CloseSourceInv ==
  ASSUME SourceInv, CloseLedger
  PROVE  SourceInv' /\ Grows(log, Latest, log', Latest') /\ Latest' = Latest + 1
<1>1. PICK z, n, l : z = Len(log) /\ n = Latest /\ l = log
  OBVIOUS
<1>2. /\ log' = log /\ account' = account /\ indexed' = indexed /\ recorded' = recorded
      /\ salt' = salt /\ truth' = Append(truth, account)
  BY DEF CloseLedger
<1>3. /\ truth \in Seq(Account) /\ account \in Account /\ l \in Seq(Event) /\ z \in Nat
      /\ indexed \in 1 .. n /\ recorded \in 0 .. z
  BY <1>1 DEF SourceInv, SourceTypeOK
<1>4. /\ truth' \in Seq(Account) /\ n \in Nat /\ Latest' = n + 1
  BY <1>1, <1>2, <1>3 DEF Latest
<1>5. SourceTypeOK'
  <2>1. indexed' \in 1 .. Latest'
    BY <1>2, <1>3, <1>4
  <2> QED BY <1>2, <1>4, <2>1 DEF SourceInv, SourceTypeOK
<1>6. LogInOrder'
  <2>1. /\ n >= 1 /\ \A i \in 1 .. z : l[i].ledger \in 2 .. n + 1
        /\ \A i, j \in 1 .. z : i <= j => l[i].ledger <= l[j].ledger
    BY <1>1 DEF SourceInv, LogInOrder
  <2>2. n < MaxHead /\ MaxHead \in Nat
    BY <1>1, Constants DEF CloseLedger
  <2>3. n + 1 >= 1 /\ n + 1 <= MaxHead /\ \A i \in 1 .. z : l[i].ledger \in 2 .. (n + 1) + 1
    BY <1>4, <2>1, <2>2
  <2> QED BY <1>1, <1>2, <1>4, <2>1, <2>3 DEF LogInOrder
<1>7. ServicesFollow'
  <2>1. Indexer => n + 1 <= indexed + MaxLag
    BY <1>1 DEF CloseLedger
  <2>2. Umbra => n + 1 <= RecordedLedger' + MaxLag
    <3> SUFFICES ASSUME Umbra PROVE n + 1 <= RecordedLedger' + MaxLag
      OBVIOUS
    <3>1. n + 1 <= RecordedLedger + MaxLag /\ MaxLag \in Nat
      BY <1>1, Constants DEF CloseLedger
    <3>2. CASE recorded = z
      <4>1. RecordedLedger' = n + 1
        BY <1>1, <1>2, <1>4, <3>2 DEF RecordedLedger
      <4> QED BY <1>4, <3>1, <4>1
    <3>3. CASE recorded # z
      <4>1. RecordedLedger' = RecordedLedger
        BY <1>1, <1>2, <3>3 DEF RecordedLedger
      <4> QED BY <3>1, <4>1
    <3> QED BY <3>2, <3>3
  <2>3. \A i \in 1 .. recorded : l[i].ledger <= n /\ l[i] \in Event
    BY <1>1, <1>3 DEF SourceInv, ServicesFollow
  <2>4. \A i \in 1 .. recorded : l[i].ledger <= n + 1
    BY <1>4, <2>3, EventFields
  <2> QED BY <1>1, <1>2, <1>4, <2>1, <2>2, <2>4 DEF ServicesFollow
<1>8. AllServed' /\ AccountDrawn' /\ LogDrawn'
  BY <1>2 DEF SourceInv, AllServed, AccountDrawn, LogDrawn, Complete
<1>9. Grows(log, Latest, log', Latest')
  <2>1. Latest' \in Nat /\ Latest <= Latest'
    BY <1>1, <1>4
  <2>2. PICK m : m = Latest'
    OBVIOUS
  <2> QED BY <1>2, <2>1, <2>2, SameLog
<1> QED BY <1>1, <1>4, <1>5, <1>6, <1>7, <1>8, <1>9 DEF SourceInv

LEMMA IngestSourceInv ==
  ASSUME SourceInv, Ingest
  PROVE  SourceInv' /\ log' = log /\ Latest' = Latest /\ indexed <= indexed'
<1>1. /\ log' = log /\ account' = account /\ indexed' = indexed + 1 /\ recorded' = recorded
      /\ salt' = salt /\ truth' = truth /\ indexed < Latest
  BY DEF Ingest
<1>2. truth \in Seq(Account) /\ indexed \in 1 .. Latest /\ indexed \in Nat /\ Latest \in Nat
  BY DEF SourceInv, SourceTypeOK, Latest
<1>3. Latest' = Latest
  BY <1>1 DEF Latest
<1>4. SourceTypeOK'
  <2>1. indexed' \in 1 .. Latest'
    BY <1>1, <1>2, <1>3
  <2> QED BY <1>1, <2>1 DEF SourceInv, SourceTypeOK
<1>5. ServicesFollow'
  <2>1. RecordedLedger' = RecordedLedger
    BY <1>1, <1>3 DEF RecordedLedger
  <2>2. Indexer => Latest <= (indexed + 1) + MaxLag
    <3>1. MaxLag \in Nat
      BY Constants
    <3> QED BY <1>2, <3>1 DEF SourceInv, ServicesFollow
  <2> QED BY <1>1, <1>3, <2>1, <2>2 DEF SourceInv, ServicesFollow
<1>6. LogInOrder' /\ AllServed' /\ AccountDrawn' /\ LogDrawn'
  BY <1>1, <1>3 DEF SourceInv, LogInOrder, AllServed, AccountDrawn, LogDrawn, Complete
<1> QED BY <1>1, <1>2, <1>3, <1>4, <1>5, <1>6 DEF SourceInv

LEMMA RecordSourceInv ==
  ASSUME SourceInv, Record
  PROVE  SourceInv' /\ log' = log /\ Latest' = Latest /\ indexed' = indexed
<1>1. /\ log' = log /\ account' = account /\ indexed' = indexed /\ recorded' = recorded + 1
      /\ salt' = salt /\ truth' = truth
      /\ recorded < Len(log) /\ log[recorded + 1].ledger <= Latest
  BY DEF Record
<1>2. PICK z, n, l, r : z = Len(log) /\ n = Latest /\ l = log /\ r = recorded
  OBVIOUS
<1>3. /\ l \in Seq(Event) /\ z \in Nat /\ n \in Nat /\ r \in 0 .. z /\ r < z
      /\ r + 1 \in 1 .. z /\ \A i \in 1 .. z : l[i].ledger \in Nat
  <2>1. l \in Seq(Event) /\ z \in Nat /\ n \in Nat /\ r \in 0 .. z /\ r < z
    BY <1>1, <1>2 DEF SourceInv, SourceTypeOK, Latest
  <2>2. \A i \in 1 .. z : l[i] \in Event
    BY <1>2, <2>1
  <2> QED BY <2>1, <2>2, EventFields
<1>4. Latest' = n
  BY <1>1, <1>2 DEF Latest
<1>5. SourceTypeOK'
  <2>1. recorded' \in 0 .. Len(log')
    BY <1>1, <1>2, <1>3
  <2> QED BY <1>1, <1>2, <1>4, <2>1 DEF SourceInv, SourceTypeOK
<1>6. ServicesFollow'
  <2>1. /\ Indexer => n <= indexed + MaxLag
        /\ Umbra => n <= RecordedLedger + MaxLag
        /\ \A i \in 1 .. r : l[i].ledger <= n
    BY <1>2 DEF SourceInv, ServicesFollow
  <2>2. \A i \in 1 .. r + 1 : l[i].ledger <= n
    <3>1. \A i \in 1 .. r + 1 : i \in 1 .. r \/ i = r + 1
      BY <1>3
    <3> QED BY <1>1, <1>2, <2>1, <3>1
  <2>3. Umbra => n <= RecordedLedger' + MaxLag
    <3> SUFFICES ASSUME Umbra PROVE n <= RecordedLedger' + MaxLag
      OBVIOUS
    <3>1. MaxLag \in Nat
      BY Constants
    <3>2. CASE r + 1 = z
      <4>1. RecordedLedger' = n
        BY <1>1, <1>2, <1>4, <3>2 DEF RecordedLedger
      <4> QED BY <1>3, <3>1, <4>1
    <3>3. CASE r + 1 # z
      <4>1. RecordedLedger' = l[(r + 1) + 1].ledger - 1
        BY <1>1, <1>2, <3>3 DEF RecordedLedger
      <4>2. RecordedLedger = l[r + 1].ledger - 1
        BY <1>2, <1>3 DEF RecordedLedger
      <4>3. (r + 1) + 1 \in 1 .. z /\ r + 1 <= (r + 1) + 1
        BY <1>3, <3>3
      <4>4. l[r + 1].ledger <= l[(r + 1) + 1].ledger
        BY <1>2, <1>3, <4>3 DEF SourceInv, LogInOrder
      <4>5. l[r + 1].ledger \in Nat /\ l[(r + 1) + 1].ledger \in Nat
        BY <1>3, <4>3
      <4>6. PICK x, y : x = l[r + 1].ledger /\ y = l[(r + 1) + 1].ledger
        OBVIOUS
      <4>7. n <= (x - 1) + MaxLag
        BY <2>1, <4>2, <4>6
      <4>8. x \in Nat /\ y \in Nat /\ x <= y /\ n \in Nat
        BY <1>3, <4>4, <4>5, <4>6
      <4>9. n <= (y - 1) + MaxLag
        BY <3>1, <4>7, <4>8
      <4> QED BY <4>1, <4>6, <4>9
    <3> QED BY <3>2, <3>3
  <2> QED BY <1>1, <1>2, <1>4, <2>1, <2>2, <2>3 DEF ServicesFollow
<1>7. LogInOrder' /\ AllServed' /\ AccountDrawn' /\ LogDrawn'
  BY <1>1, <1>2, <1>4 DEF SourceInv, LogInOrder, AllServed, AccountDrawn, LogDrawn, Complete
<1> QED BY <1>1, <1>2, <1>4, <1>5, <1>6, <1>7 DEF SourceInv

\* The replay of the longer log begins as before.
LEMMA HistoryGrows ==
  ASSUME SourceInv, NEW ev, EventStep(ev), NEW f, History(log, f)
  PROVE  \E g : /\ History(log', g) /\ Extends(log, f, g)
                /\ g[Len(log) + 1] = Apply(f[Len(log)], ev)
<1>1. PICK z, l, k : z = Len(log) /\ l = log /\ k = log'
  OBVIOUS
<1>2. /\ z \in Nat /\ Len(l) = z /\ Len(k) = z + 1 /\ k[z + 1] = ev
      /\ \A i \in 1 .. z : k[i] = l[i]
      /\ ev \in Event
  BY <1>1, LogGrows
<1>3. /\ f \in [0 .. z -> AccountState] /\ f[0] = FreshState
      /\ \A i \in 1 .. z : f[i] = Apply(f[i - 1], l[i])
  BY <1>1 DEF History
<1>4. PICK s : s = Apply(f[z], ev)
  OBVIOUS
<1>5. s \in AccountState
  BY <1>2, <1>3, <1>4, ApplyFields
<1>6. PICK g : g = [i \in 0 .. z + 1 |-> IF i <= z THEN f[i] ELSE s]
  OBVIOUS
<1>7. g \in [0 .. z + 1 -> AccountState]
  BY <1>2, <1>3, <1>5, <1>6
<1>8. (\A i \in 0 .. z : g[i] = f[i]) /\ g[z + 1] = s
  BY <1>2, <1>6
<1>9. ASSUME NEW i \in 1 .. z + 1 PROVE g[i] = Apply(g[i - 1], k[i])
  <2>1. CASE i \in 1 .. z
    <3>1. i - 1 \in 0 .. z /\ i \in 0 .. z
      BY <1>2, <2>1
    <3> QED BY <1>2, <1>3, <1>8, <2>1, <3>1
  <2>2. CASE i = z + 1
    <3>1. i - 1 = z /\ z \in 0 .. z
      BY <1>2, <2>2
    <3> QED BY <1>2, <1>4, <1>8, <2>2, <3>1
  <2> QED BY <1>2, <2>1, <2>2
<1>10. History(k, g)
  <2>1. g[0] = FreshState
    BY <1>2, <1>3, <1>8
  <2> QED BY <1>2, <1>7, <1>9, <2>1 DEF History
<1> QED BY <1>1, <1>2, <1>4, <1>8, <1>10 DEF Extends

LEMMA EventChain ==
  ASSUME SourceInv, NEW ev, EventStep(ev), NEW f, History(log, f), ChainFollows(log, f),
         NEW g, Extends(log, f, g), g[Len(log) + 1] = Apply(f[Len(log)], ev)
  PROVE  ChainFollows(log, g)'
<1>1. PICK z, l, k, n : z = Len(log) /\ l = log /\ k = log' /\ n = Latest
  OBVIOUS
<1>2. /\ z \in Nat /\ Len(l) = z /\ Len(k) = z + 1 /\ n \in Nat /\ Latest' = n
  BY <1>1, LogGrows
<1>3. Matches(g[Len(k)], account')
  <2>1. f[z] \in AccountState
    BY <1>1, <1>2 DEF History
  <2>2. Matches(f[z], account)
    BY <1>1 DEF ChainFollows
  <2> QED BY <1>1, <1>2, <2>1, <2>2 DEF EventStep, Says
<1>4. ASSUME NEW m \in 1 .. n, NEW j \in 0 .. Len(k), Upto(k, j, m)
      PROVE  Matches(g[j], truth'[m])
  <2>1. Grows(l, n, k, n) /\ m \in Int /\ m <= n
    BY <1>1, <1>2, EventSourceInv
  <2>2. Upto(l, j, m)
    BY <1>4, <2>1, UptoGrows
  <2>3. j \in 0 .. Len(l)
    BY <2>2 DEF Upto
  <2>4. Matches(f[j], truth[m])
    BY <1>1, <2>2, <2>3 DEF ChainFollows
  <2>5. truth' = truth /\ g[j] = f[j]
    BY <1>1, <2>3 DEF EventStep, Extends
  <2> QED BY <2>4, <2>5
<1>5. ChainFollows(log, g)' = (/\ Matches(g[Len(k)], account')
                               /\ \A m \in 1 .. Latest', j \in 0 .. Len(k) :
                                    Upto(k, j, m) => Matches(g[j], truth'[m]))
  BY <1>1 DEF ChainFollows, Upto, Matches
<1> QED BY <1>2, <1>3, <1>4, <1>5

LEMMA CloseChain ==
  ASSUME SourceInv, CloseLedger, NEW f, ChainFollows(log, f)
  PROVE  ChainFollows(log, f)'
<1>1. PICK z, l, n, a, u : z = Len(log) /\ l = log /\ n = Latest /\ a = account /\ u = truth
  OBVIOUS
<1>2. log' = l /\ account' = a /\ truth' = Append(u, a) /\ Latest' = n + 1
  BY <1>1, CloseSourceInv DEF CloseLedger
<1>3. /\ l \in Seq(Event) /\ z \in Nat /\ u \in Seq(Account) /\ n = Len(u) /\ n \in Nat
      /\ a \in Account
  BY <1>1 DEF SourceInv, SourceTypeOK, Latest
<1>4. Matches(f[z], a)
  BY <1>1 DEF ChainFollows
<1>5. ASSUME NEW m \in 1 .. n + 1, NEW j \in 0 .. z, Upto(l, j, m)
      PROVE  Matches(f[j], Append(u, a)[m])
  <2>1. CASE m = n + 1
    <3>1. \A i \in 1 .. z : l[i].ledger <= n + 1
      BY <1>1 DEF SourceInv, LogInOrder
    <3>2. j = z
      <4> SUFFICES ASSUME j # z PROVE FALSE
        OBVIOUS
      <4>1. z \in 1 .. z /\ ~(z <= j)
        BY <1>3
      <4> QED BY <1>1, <1>5, <2>1, <3>1, <4>1 DEF Upto
    <3>3. Append(u, a)[m] = a
      BY <1>3, <2>1
    <3> QED BY <1>4, <3>2, <3>3
  <2>2. CASE m # n + 1
    <3>1. m \in 1 .. n /\ Append(u, a)[m] = u[m]
      BY <1>3, <2>2
    <3> QED BY <1>1, <1>5, <3>1 DEF ChainFollows
  <2> QED BY <2>1, <2>2
<1>6. ChainFollows(log, f)' = (/\ Matches(f[Len(l)], a)
                               /\ \A m \in 1 .. n + 1, j \in 0 .. Len(l) :
                                    Upto(l, j, m) => Matches(f[j], Append(u, a)[m]))
  BY <1>1, <1>2 DEF ChainFollows, Upto, Matches
<1> QED BY <1>1, <1>4, <1>5, <1>6

-----------------------------------------------------------------------------
(* What a tab has stays true while the chain moves on *)

LEMMA NearGrows ==
  ASSUME NEW l, NEW n, NEW k, NEW m, Grows(l, n, k, m), NEW f, NEW g, Extends(l, f, g),
         NEW b \in 0 .. Len(l), NEW d \in Nat, NEW e \in Nat, d <= e, NEW s, Near(l, f, s, b, d)
  PROVE  Near(k, g, s, b, e)
<1>1. g[b] = f[b] /\ Len(l) \in Nat /\ Len(k) \in Nat /\ Len(l) <= Len(k)
  BY DEF Extends, Grows
<1>2. CASE s.spendable = f[b].spendable
  BY <1>1, <1>2 DEF Near
<1>3. CASE s.spendable # f[b].spendable
  <2>1. PICK p \in (b + 1) .. Len(l) :
          Own(l[p]) /\ l[p].ledger <= d /\ s.spendable = l[p].checkpoint
    BY <1>3 DEF Near
  <2>2. p \in 1 .. Len(l) /\ p \in (b + 1) .. Len(k) /\ p \in 1 .. Len(k)
    BY <1>1
  <2>3. k[p] = l[p] /\ k[p].ledger \in Nat
    BY <2>2 DEF Grows
  <2>4. Own(k[p]) /\ k[p].ledger <= e /\ s.spendable = k[p].checkpoint
    BY <2>1, <2>3
  <2> QED BY <1>1, <2>2, <2>4 DEF Near
<1> QED BY <1>2, <1>3

LEMMA CacheGrows ==
  ASSUME NEW l, NEW n, NEW k, NEW m, Grows(l, n, k, m), NEW f, NEW g, Extends(l, f, g),
         NEW c, c.version = 3 => c.cursor \in Nat /\ c.cursor <= n, CacheFollows(l, n, f, c)
  PROVE  CacheFollows(k, m, g, c)
<1> SUFFICES ASSUME c.version = 3
             PROVE  \E b \in 0 .. Len(k) : Upto(k, b, c.cursor) /\ Near(k, g, c, b, m)
  BY DEF CacheFollows
<1>1. PICK b \in 0 .. Len(l) : Upto(l, b, c.cursor) /\ Near(l, f, c, b, n)
  BY DEF CacheFollows
<1>2. /\ Len(l) \in Nat /\ Len(k) \in Nat /\ Len(l) <= Len(k)
      /\ n \in Nat /\ m \in Nat /\ n <= m
  BY DEF Grows
<1>3. Near(k, g, c, b, m)
  BY <1>1, <1>2, NearGrows
<1>4. Upto(k, b, c.cursor)
  BY <1>1, UptoGrows
<1> QED BY <1>2, <1>3, <1>4

LEMMA BaseGrows ==
  ASSUME NEW l, NEW n, NEW k, NEW m, Grows(l, n, k, m), NEW f, NEW g, Extends(l, f, g),
         NEW b \in 0 .. Len(l), NEW d \in Nat, NEW e \in Nat, d <= e,
         NEW w, w.state.cursor \in Nat, w.state.cursor <= n, BaseAt(l, f, w, b, d)
  PROVE  BaseAt(k, g, w, b, e)
<1>1. Near(k, g, w.state, b, e)
  BY NearGrows DEF BaseAt
<1>2. ASSUME NEW i \in 1 .. b PROVE k[i].ledger <= e
  <2>1. i \in 1 .. Len(l) /\ i \in 1 .. Len(k)
    BY DEF Grows
  <2>2. k[i] = l[i] /\ k[i].ledger \in Nat
    BY <2>1 DEF Grows
  <2>3. l[i].ledger <= d
    BY DEF BaseAt
  <2> QED BY <2>2, <2>3
<1>3. Upto(l, b, w.state.cursor) => Upto(k, b, w.state.cursor)
  BY UptoGrows
<1> QED BY <1>1, <1>2, <1>3 DEF BaseAt

LEMMA RunGrows ==
  ASSUME NEW l, NEW n, NEW k, NEW m, Grows(l, n, k, m),
         NEW w, NEW b, NEW e \in Int, e <= n,
         \E a, c \in 0 .. Len(l) : FetchedRun(l, w, b, a, c, e)
  PROVE  \E a, c \in 0 .. Len(k) : FetchedRun(k, w, b, a, c, e)
<1>1. PICK a \in 0 .. Len(l), c \in 0 .. Len(l) : FetchedRun(l, w, b, a, c, e)
  OBVIOUS
<1>2. a \in 0 .. Len(k) /\ c \in 0 .. Len(k)
  BY DEF Grows
<1>3. Upto(k, c, e)
  BY <1>1, UptoGrows DEF FetchedRun
<1>4. FetchedRun(k, w, b, a, c, e)
  BY <1>1, <1>3 DEF FetchedRun
<1> QED BY <1>2, <1>4

LEMMA TabGrows ==
  ASSUME NEW l, NEW n, NEW k, NEW m, Grows(l, n, k, m), NEW f, NEW g, Extends(l, f, g),
         NEW x \in Nat, NEW y \in Nat, x <= y, x <= n,
         NEW w, w.state.cursor \in Nat, w.state.cursor <= n,
         w.start \in Nat, w.asOf \in Nat, Umbra /\ w.pc = "health" => w.asOf <= n,
         TabFollows(l, n, x, f, w)
  PROVE  TabFollows(k, m, y, g, w)
<1> SUFFICES ASSUME w.pc \in Syncing PROVE TabFollows(k, m, y, g, w)
  BY DEF TabFollows
<1>1. PICK b \in 0 .. Len(l) :
      /\ BaseAt(l, f, w, b, IF w.pc = "fetched" THEN w.asOf ELSE n)
      /\ w.pc = "health" => RestIsRecent(l, w, b)
      /\ w.pc = "backfill" =>
           /\ Indexer /\ w.start - 1 <= x
           /\ \E a, c \in 0 .. Len(l) :
                /\ Upto(l, a, w.state.cursor) /\ a <= b /\ a <= c
                /\ w.fetched = Run(a, c)
                /\ \A i \in 1 .. c : l[i].ledger <= w.start - 1
      /\ w.pc = "tail" =>
           /\ w.start - 1 <= n
           /\ \E a, c \in 0 .. Len(l) : FetchedRun(l, w, b, a, c, w.start - 1)
      /\ w.pc = "fetched" =>
           /\ w.asOf \in 1 .. n
           /\ \E a, c \in 0 .. Len(l) : FetchedRun(l, w, b, a, c, w.asOf)
  BY DEF TabFollows
<1>2. /\ Len(l) \in Nat /\ Len(k) \in Nat /\ Len(l) <= Len(k)
      /\ n \in Nat /\ m \in Nat /\ n <= m /\ w.start - 1 \in Int /\ w.asOf \in Int
  BY DEF Grows
<1>3. b \in 0 .. Len(k)
  BY <1>2
<1>4. BaseAt(k, g, w, b, IF w.pc = "fetched" THEN w.asOf ELSE m)
  <2>1. CASE w.pc = "fetched"
    BY <1>1, <2>1, BaseGrows, w.asOf <= w.asOf
  <2>2. CASE w.pc # "fetched"
    BY <1>1, <1>2, <2>2, BaseGrows
  <2> QED BY <2>1, <2>2
<1>5. w.pc = "health" => RestIsRecent(k, w, b)
  <2> SUFFICES ASSUME w.pc = "health", Umbra, NEW i \in (b + 1) .. Len(k)
               PROVE  k[i].ledger > w.asOf - MaxLag
    BY DEF RestIsRecent
  <2>1. i \in 1 .. Len(k) /\ k[i].ledger \in Nat /\ MaxLag \in Nat
    BY <1>2, Constants DEF Grows
  <2>2. CASE i <= Len(l)
    <3>1. i \in 1 .. Len(l) /\ i \in (b + 1) .. Len(l)
      BY <1>2, <2>2
    <3>2. k[i] = l[i] /\ l[i].ledger > w.asOf - MaxLag
      BY <1>1, <3>1 DEF RestIsRecent, Grows
    <3> QED BY <3>2
  <2>3. CASE i > Len(l)
    <3>1. k[i].ledger > n /\ w.asOf <= n
      BY <2>1, <2>3 DEF Grows
    <3>2. PICK q : q = k[i].ledger
      OBVIOUS
    <3>3. q \in Nat /\ q > n /\ w.asOf <= n /\ n \in Nat /\ MaxLag \in Nat
      BY <1>2, <2>1, <3>1, <3>2
    <3>4. q > w.asOf - MaxLag
      BY <3>3
    <3> QED BY <3>2, <3>4
  <2> QED BY <1>2, <2>2, <2>3
<1>6. w.pc = "backfill" =>
        /\ Indexer /\ w.start - 1 <= y
        /\ \E a, c \in 0 .. Len(k) :
             /\ Upto(k, a, w.state.cursor) /\ a <= b /\ a <= c
             /\ w.fetched = Run(a, c)
             /\ \A i \in 1 .. c : k[i].ledger <= w.start - 1
  <2> SUFFICES ASSUME w.pc = "backfill"
               PROVE  /\ w.start - 1 <= y
                      /\ \E a, c \in 0 .. Len(k) :
                           /\ Upto(k, a, w.state.cursor) /\ a <= b /\ a <= c
                           /\ w.fetched = Run(a, c)
                           /\ \A i \in 1 .. c : k[i].ledger <= w.start - 1
    BY <1>1
  <2>1. PICK a \in 0 .. Len(l), c \in 0 .. Len(l) :
             /\ Upto(l, a, w.state.cursor) /\ a <= b /\ a <= c
             /\ w.fetched = Run(a, c)
             /\ \A i \in 1 .. c : l[i].ledger <= w.start - 1
    BY <1>1
  <2>2. a \in 0 .. Len(k) /\ c \in 0 .. Len(k)
    BY <1>2
  <2>2a. w.start - 1 <= x
    BY <1>1
  <2>2b. w.start - 1 <= y
    BY <1>2, <2>2a
  <2>3. Upto(k, a, w.state.cursor)
    BY <2>1, UptoGrows
  <2>4. \A i \in 1 .. c : k[i].ledger <= w.start - 1
    <3>1. \A i \in 1 .. c : i \in 1 .. Len(l)
      BY <1>2
    <3>2. \A i \in 1 .. c : k[i] = l[i]
      BY <3>1 DEF Grows
    <3> QED BY <2>1, <3>2
  <2> QED BY <2>1, <2>2, <2>2b, <2>3, <2>4
<1>7. w.pc = "tail" =>
        /\ w.start - 1 <= m
        /\ \E a, c \in 0 .. Len(k) : FetchedRun(k, w, b, a, c, w.start - 1)
  <2> SUFFICES ASSUME w.pc = "tail"
               PROVE  /\ w.start - 1 <= m
                      /\ \E a, c \in 0 .. Len(k) : FetchedRun(k, w, b, a, c, w.start - 1)
    OBVIOUS
  <2>1. w.start - 1 <= n
    BY <1>1
  <2>2. \E a, c \in 0 .. Len(l) : FetchedRun(l, w, b, a, c, w.start - 1)
    BY <1>1
  <2>3. w.start - 1 <= m
    BY <1>2, <2>1
  <2> QED BY <1>2, <2>1, <2>2, <2>3, RunGrows
<1>8. w.pc = "fetched" =>
        /\ w.asOf \in 1 .. m
        /\ \E a, c \in 0 .. Len(k) : FetchedRun(k, w, b, a, c, w.asOf)
  <2> SUFFICES ASSUME w.pc = "fetched"
               PROVE  /\ w.asOf \in 1 .. m
                      /\ \E a, c \in 0 .. Len(k) : FetchedRun(k, w, b, a, c, w.asOf)
    OBVIOUS
  <2>1. w.asOf \in 1 .. n
    BY <1>1
  <2>2. \E a, c \in 0 .. Len(l) : FetchedRun(l, w, b, a, c, w.asOf)
    BY <1>1
  <2>3. w.asOf \in 1 .. m /\ w.asOf <= n
    BY <1>2, <2>1
  <2> QED BY <1>2, <2>2, <2>3, RunGrows
<1> QED BY <1>3, <1>4, <1>5, <1>6, <1>7, <1>8 DEF TabFollows

-----------------------------------------------------------------------------
(* Types *)

\* What is fetched are places of the log.
TInv == TypeOK /\ \A t \in Tabs : tab[t].fetched \in Seq(DOMAIN log)

LEMMA TabFields ==
  ASSUME NEW w \in Tab
  PROVE  /\ w.pc \in Pcs /\ w.goal \in Goals \cup {"refresh"}
         /\ w.leg \in {"history", "releases", "tail"} /\ w.state \in AccountState
         /\ w.recovered \in SUBSET Nat /\ w.fetched \in Seq(Nat)
         /\ w.start \in Nat /\ w.asOf \in Nat /\ w.tx \in Tx
BY DEF Tab

LEMMA Values ==
  /\ FreshState \in AccountState /\ Nothing \in AccountState /\ NoTx \in Tx /\ Idle \in Tab
  /\ FreshState.registered = FALSE /\ FreshState.spendable = Zero /\ FreshState.receiving = Zero
  /\ FreshState.cursor = 0 /\ FreshState.version = 3
  /\ Nothing.version = 0 /\ Nothing.cursor = 0
  /\ Idle.pc = "idle" /\ Idle.state = FreshState /\ Idle.fetched = << >> /\ Idle.tx = NoTx
  /\ Idle.recovered = {} /\ Idle.leg = "tail" /\ Idle.start = 0 /\ Idle.asOf = 0
  /\ NoTx.next = Zero
<1>1. Zero \in Commitment
  BY CommitmentOps
<1>2. PICK z \in Commitment : z = Zero
  BY <1>1
<1>3. FreshState = [registered |-> FALSE, spendable |-> z, receiving |-> z,
                    cursor |-> 0, version |-> 3]
  BY <1>2 DEF FreshState
<1>4. /\ FreshState \in AccountState
      /\ FreshState.registered = FALSE /\ FreshState.spendable = z /\ FreshState.receiving = z
      /\ FreshState.cursor = 0 /\ FreshState.version = 3
  BY <1>3 DEF AccountState
<1>5. PICK f \in AccountState : f = FreshState
  BY <1>4
<1>6. Nothing \in AccountState /\ Nothing.version = 0 /\ Nothing.cursor = 0
  BY <1>4, <1>5 DEF Nothing, AccountState
<1>7. NoTx \in Tx /\ NoTx.next = z
  BY <1>2, Names DEF NoTx, Tx
<1>8. PICK n \in Tx : n = NoTx
  BY <1>7
<1>9. Idle = [pc |-> "idle", goal |-> "refresh", leg |-> "tail", state |-> f,
              recovered |-> {}, fetched |-> << >>, start |-> 0, asOf |-> 0, tx |-> n]
  BY <1>5, <1>8 DEF Idle
<1>10. << >> \in Seq(Nat)
  OBVIOUS
<1>11. Idle \in Tab
  BY <1>9, <1>10 DEF Tab, Pcs
<1> QED BY <1>2, <1>4, <1>5, <1>6, <1>7, <1>8, <1>9, <1>11

LEMMA TabUpdate ==
  ASSUME tab \in [Tabs -> Tab], NEW t \in Tabs, NEW w \in Tab, Becomes(t, w)
  PROVE  /\ tab' \in [Tabs -> Tab] /\ tab'[t] = w
         /\ \A u \in Tabs : u # t => tab'[u] = tab[u]
BY DEF Becomes

LEMMA TabStepType ==
  ASSUME TInv, SourceTypeOK', log' = log, NEW t \in Tabs, NEW w \in Tab, Becomes(t, w),
         w.fetched \in Seq(DOMAIN log), cache' \in AccountState, inflight' \in SUBSET Tx
  PROVE  TInv'
<1>1. tab \in [Tabs -> Tab] /\ \A u \in Tabs : tab[u].fetched \in Seq(DOMAIN log)
  BY DEF TInv, TypeOK
<1>2. tab' \in [Tabs -> Tab] /\ \A u \in Tabs : tab'[u] = w \/ tab'[u] = tab[u]
  BY <1>1, TabUpdate
<1>3. \A u \in Tabs : tab'[u].fetched \in Seq(DOMAIN log)
  BY <1>1, <1>2
<1> QED BY <1>2, <1>3 DEF TInv, TypeOK

\* A replay keeps the cursor and the version.
LEMMA ReplayType ==
  ASSUME log \in Seq(Event), NEW s \in AccountState, NEW ids \in Seq(DOMAIN log), NEW skipped
  PROVE  /\ Replay(s, ids, skipped) \in AccountState
         /\ Replay(s, ids, skipped).cursor = s.cursor
         /\ Replay(s, ids, skipped).version = s.version
<1>1. PICK h \in [0 .. Len(ids) -> AccountState] : Plays(h, s, ids, skipped)
  BY RunExists
<1>2. Replay(s, ids, skipped) = h[Len(ids)]
  BY <1>1, ReplayIsRun
<1>3. Len(ids) \in Nat /\ \A j \in 1 .. Len(ids) : ids[j] \in DOMAIN log
  OBVIOUS
<1> DEFINE N == {j \in Nat : j <= Len(ids) => h[j].cursor = s.cursor /\ h[j].version = s.version}
<1>4. 0 \in N
  BY <1>1 DEF Plays
<1>5. ASSUME NEW j \in Nat, j \in N PROVE j + 1 \in N
  <2> SUFFICES ASSUME j + 1 <= Len(ids)
               PROVE  h[j + 1].cursor = s.cursor /\ h[j + 1].version = s.version
    OBVIOUS
  <2>1. j + 1 \in 1 .. Len(ids) /\ (j + 1) - 1 = j /\ j \in 0 .. Len(ids) /\ j <= Len(ids)
    BY <1>3
  <2>2. h[j + 1] = Played(h[j], ids[j + 1], skipped)
    BY <1>1, <2>1 DEF Plays
  <2>3. h[j] \in AccountState /\ ids[j + 1] \in DOMAIN log
    BY <1>1, <1>3, <2>1
  <2>4. h[j].cursor = s.cursor /\ h[j].version = s.version
    BY <1>5, <2>1
  <2> QED BY <2>2, <2>3, <2>4, PlayedType
<1>6. Len(ids) \in N
  <2> HIDE DEF N
  <2> QED BY <1>3, <1>4, <1>5, NatSetInduction
<1> QED BY <1>1, <1>2, <1>3, <1>6

LEMMA AnswerType ==
  ASSUME log \in Seq(Event), NEW ids \in SUBSET DOMAIN log
  PROVE  InOrder(ids) \in Seq(DOMAIN log) /\ Cardinality(ids) \in Nat /\ Len(InOrder(ids)) = Cardinality(ids)
<1>1. Len(log) \in Nat /\ ids \in SUBSET (0 .. Len(log))
  OBVIOUS
<1>2. InOrder(ids) \in Seq(ids) /\ Cardinality(ids) \in Nat
  BY <1>1, InOrderType, RankTaken
<1>3. Len(InOrder(ids)) = Cardinality(ids)
  BY <1>2 DEF InOrder
<1>4. Seq(ids) \subseteq Seq(DOMAIN log)
  OBVIOUS
<1> QED BY <1>2, <1>3, <1>4

LEMMA Facts ==
  ASSUME TInv, NEW t \in Tabs
  PROVE  /\ SourceTypeOK /\ cache \in AccountState /\ tab \in [Tabs -> Tab] /\ inflight \in SUBSET Tx
         /\ tab[t] \in Tab /\ tab[t].fetched \in Seq(DOMAIN log)
         /\ log \in Seq(Event) /\ Latest \in Nat /\ Latest >= 1 /\ truth \in Seq(Account)
         /\ truth[Latest] \in Account /\ salt \in Nat
         /\ indexed \in 1 .. Latest /\ recorded \in 0 .. Len(log) /\ Oldest \in 1 .. Latest
<1>1. /\ SourceTypeOK /\ cache \in AccountState /\ tab \in [Tabs -> Tab] /\ inflight \in SUBSET Tx
      /\ tab[t] \in Tab /\ tab[t].fetched \in Seq(DOMAIN log)
  BY DEF TInv, TypeOK
<1>2. /\ log \in Seq(Event) /\ truth \in Seq(Account) /\ salt \in Nat
      /\ indexed \in 1 .. Latest /\ recorded \in 0 .. Len(log)
  BY <1>1 DEF SourceTypeOK
<1>3. Latest \in Nat /\ Latest >= 1
  BY <1>2 DEF Latest
<1>4. truth[Latest] \in Account
  BY <1>2, <1>3 DEF Latest
<1>5. Oldest \in 1 .. Latest
  BY <1>3, Constants DEF Oldest
<1> QED BY <1>1, <1>2, <1>3, <1>4, <1>5

LEMMA SameSource == ASSUME SourceTypeOK, UNCHANGED sourceVars PROVE SourceTypeOK' /\ log' = log
BY DEF SourceTypeOK, sourceVars, Latest

Prior == IF cache.version = 0 THEN FreshState ELSE cache

LEMMA SyncStartType ==
  ASSUME TInv, NEW t \in Tabs, NEW goal \in Goals, SyncStart(t, goal)
  PROVE  TInv'
<1>1. PICK p \in AccountState : p = Prior
  BY Facts, Values DEF Prior
<1>2. PICK leg \in {"history", "releases", "tail"} :
         leg = IF Umbra THEN "history" ELSE IF p.version < 2 THEN "releases" ELSE "tail"
  OBVIOUS
<1>3. PICK i \in Tab : i = Idle
  BY Values
<1>4. PICK w : w = [i EXCEPT !.goal = goal, !.state = p, !.leg = leg,
                             !.pc = IF Umbra THEN "history" ELSE "health"]
  OBVIOUS
<1>5. w \in Tab /\ w.fetched = i.fetched
  BY <1>1, <1>2, <1>4 DEF Tab, Pcs
<1>6. Becomes(t, w) /\ UNCHANGED <<sourceVars, cache, inflight>>
  BY <1>1, <1>2, <1>3, <1>4 DEF SyncStart, Prior
<1>7. w.fetched \in Seq(DOMAIN log)
  BY <1>3, <1>5, Values
<1> QED BY <1>5, <1>6, <1>7, Facts, SameSource, TabStepType

LEMMA IdleType ==
  ASSUME TInv, NEW t \in Tabs, Becomes(t, Idle), SourceTypeOK', log' = log,
         cache' \in AccountState, inflight' \in SUBSET Tx
  PROVE  TInv'
<1>1. Idle \in Tab /\ Idle.fetched \in Seq(DOMAIN log)
  BY Values
<1> QED BY <1>1, TabStepType

LEMMA FetchHistoryType ==
  ASSUME TInv, NEW t \in Tabs, FetchHistory(t)
  PROVE  TInv'
<1>1. PICK ids : ids = [i \in 1 .. recorded |-> i]
  OBVIOUS
<1>2. /\ ids \in Seq(DOMAIN log) /\ 1 .. recorded \in SUBSET Nat
  <2>1. recorded \in Nat /\ 1 .. recorded \subseteq DOMAIN log
    BY Facts
  <2> QED BY <1>1, <2>1
<1>3. PICK r : r = Replay(FreshState, ids, {})
  OBVIOUS
<1>4. r \in AccountState
  BY <1>2, <1>3, Facts, Values, ReplayType
<1>5. PICK v : v = tab[t]
  OBVIOUS
<1>6. v \in Tab /\ v.fetched \in Seq(DOMAIN log) /\ Latest \in Nat
  BY <1>5, Facts
<1>7. PICK w : w = [v EXCEPT !.pc = "health", !.leg = "tail", !.state = r,
                             !.recovered = 1 .. recorded, !.asOf = Latest]
  OBVIOUS
<1>8. w \in Tab /\ w.fetched = v.fetched
  BY <1>2, <1>4, <1>6, <1>7 DEF Tab, Pcs
<1>9. Becomes(t, w) /\ UNCHANGED <<sourceVars, cache, inflight>>
  BY <1>1, <1>3, <1>5, <1>7 DEF FetchHistory
<1> QED BY <1>6, <1>8, <1>9, Facts, SameSource, TabStepType

LEMMA ReadHealthType ==
  ASSUME TInv, NEW t \in Tabs, NEW oldest \in 0 .. MaxHead, ReadHealth(t, oldest)
  PROVE  TInv'
<1>1. PICK v : v = tab[t]
  OBVIOUS
<1>2. v \in Tab
  BY <1>1, Facts
<1>3. v.state.cursor \in Nat /\ oldest \in Nat /\ SeamMargin \in Nat
  BY <1>2, TabFields, StateFields, Constants
<1>4. Cursor(v) \in Nat
  BY <1>3 DEF Cursor
<1>5. ColdStart(oldest) \in Nat
  BY <1>3 DEF ColdStart, FromLedger
<1>6. PICK pc \in {"backfill", "tail"} :
         pc = IF NeedsBackfill(v, oldest) THEN "backfill" ELSE "tail"
  OBVIOUS
<1>7. PICK start \in Nat :
         start = IF NeedsBackfill(v, oldest) THEN oldest + SeamMargin
                 ELSE IF Cursor(v) # 0 THEN Cursor(v) + 1 ELSE ColdStart(oldest)
  BY <1>3, <1>4, <1>5
<1>8. PICK w : w = [v EXCEPT !.pc = pc, !.fetched = << >>, !.start = start]
  OBVIOUS
<1>9. w \in Tab /\ w.fetched = << >>
  <2>0. << >> \in Seq(Nat)
    OBVIOUS
  <2>1. PICK e \in Seq(Nat) : e = << >>
    BY <2>0
  <2>2. w = [v EXCEPT !.pc = pc, !.fetched = e, !.start = start]
    BY <1>8, <2>1
  <2> QED BY <1>2, <1>6, <1>7, <2>1, <2>2 DEF Tab, Pcs
<1>10. Becomes(t, w) /\ UNCHANGED <<sourceVars, cache, inflight>>
  BY <1>1, <1>6, <1>7, <1>8 DEF ReadHealth
<1>11. w.fetched \in Seq(DOMAIN log)
  BY <1>9
<1> QED BY <1>9, <1>10, <1>11, Facts, SameSource, TabStepType

\* The rows one page may hold, of those left.
BackfillRows(w) ==
  LET last == IF LastBackfilled(w) < indexed THEN LastBackfilled(w) ELSE indexed
  IN {i \in InLedgers(NextNeeded(w), last) : log[i].type \in Served /\ i > PageCursor(w)}
PageOf(rows) ==
  IF Cardinality(rows) > PageSize THEN SubSeq(InOrder(rows), 1, PageSize) ELSE InOrder(rows)

LEMMA BackfillBecomes ==
  ASSUME NEW t, BackfillPage(t), NEW v, v = tab[t], NEW rows, rows = BackfillRows(v)
  PROVE  Becomes(t, [v EXCEPT !.pc = IF Cardinality(rows) > PageSize THEN "backfill" ELSE "tail",
                              !.fetched = v.fetched \o PageOf(rows)])
BY DEF BackfillPage, BackfillRows, PageOf

LEMMA BackfillType ==
  ASSUME TInv, NEW t \in Tabs, BackfillPage(t)
  PROVE  TInv'
<1>1. PICK v, rows : v = tab[t] /\ rows = BackfillRows(v)
  OBVIOUS
<1>2. v \in Tab /\ v.fetched \in Seq(DOMAIN log) /\ log \in Seq(Event)
  BY <1>1, Facts
<1>3. rows \in SUBSET DOMAIN log
  BY <1>1 DEF BackfillRows, InLedgers
<1>4. PICK page : page = PageOf(rows)
  OBVIOUS
<1>5. page \in Seq(DOMAIN log)
  <2>1. PICK q : q = InOrder(rows)
    OBVIOUS
  <2>2. q \in Seq(DOMAIN log) /\ Len(q) = Cardinality(rows) /\ Cardinality(rows) \in Nat
    BY <1>2, <1>3, <2>1, AnswerType
  <2>3. ASSUME Cardinality(rows) > PageSize PROVE SubSeq(q, 1, PageSize) \in Seq(DOMAIN log)
    <3>1. PageSize \in Nat /\ PageSize <= Len(q) /\ Len(q) \in Nat
      BY <2>2, <2>3, Constants
    <3>2. \A k \in 1 .. PageSize : q[k] \in DOMAIN log
      BY <2>2, <3>1
    <3> QED BY <2>2, <3>1, <3>2
  <2> QED BY <1>4, <2>1, <2>2, <2>3 DEF PageOf
<1>6. PICK got : got = v.fetched \o page
  OBVIOUS
<1>7. got \in Seq(DOMAIN log) /\ got \in Seq(Nat)
  <2>1. got \in Seq(DOMAIN log)
    BY <1>2, <1>5, <1>6, ConcatProperties
  <2>2. DOMAIN log \subseteq Nat
    BY <1>2
  <2> QED BY <2>1, <2>2
<1>8. PICK pc \in {"backfill", "tail"} :
         pc = IF Cardinality(rows) > PageSize THEN "backfill" ELSE "tail"
  OBVIOUS
<1>9. PICK w : w = [v EXCEPT !.pc = pc, !.fetched = got]
  OBVIOUS
<1>10. w \in Tab /\ w.fetched = got
  BY <1>2, <1>7, <1>8, <1>9 DEF Tab, Pcs
<1>11. Becomes(t, w)
  BY <1>1, <1>4, <1>6, <1>8, <1>9, BackfillBecomes
<1>12. UNCHANGED <<sourceVars, cache, inflight>>
  BY DEF BackfillPage
<1> QED BY <1>7, <1>10, <1>11, <1>12, Facts, SameSource, TabStepType

LEMMA FetchTailType ==
  ASSUME TInv, NEW t \in Tabs, FetchTail(t)
  PROVE  TInv'
<1>1. PICK v, rows : v = tab[t] /\ rows = InLedgers(v.start, Latest)
  OBVIOUS
<1>2. v \in Tab /\ v.fetched \in Seq(DOMAIN log) /\ log \in Seq(Event) /\ Latest \in Nat
  BY <1>1, Facts
<1>3. rows \in SUBSET DOMAIN log
  BY <1>1 DEF InLedgers
<1>4. PICK got : got = v.fetched \o InOrder(rows)
  OBVIOUS
<1>5. got \in Seq(DOMAIN log) /\ got \in Seq(Nat)
  <2>1. InOrder(rows) \in Seq(DOMAIN log)
    BY <1>2, <1>3, AnswerType
  <2>2. got \in Seq(DOMAIN log)
    BY <1>2, <1>4, <2>1, ConcatProperties
  <2>3. DOMAIN log \subseteq Nat
    BY <1>2
  <2> QED BY <2>2, <2>3
<1>6. PICK w : w = [v EXCEPT !.pc = "fetched", !.asOf = Latest, !.fetched = got]
  OBVIOUS
<1>7. w \in Tab /\ w.fetched = got
  BY <1>2, <1>5, <1>6 DEF Tab, Pcs
<1>8. Becomes(t, w) /\ UNCHANGED <<sourceVars, cache, inflight>>
  BY <1>1, <1>4, <1>6 DEF FetchTail
<1> QED BY <1>5, <1>7, <1>8, Facts, SameSource, TabStepType

LEMMA RecoverReleasesType ==
  ASSUME TInv, NEW t \in Tabs, RecoverReleases(t)
  PROVE  TInv'
<1>1. PICK v, fetched, releases : /\ v = tab[t] /\ fetched = ToSet(v.fetched)
                                  /\ releases = {i \in fetched : log[i].type = "spender_transfer"}
  OBVIOUS
<1>2. v \in Tab /\ v.fetched \in Seq(DOMAIN log) /\ log \in Seq(Event)
  BY <1>1, Facts
<1>3. releases \in SUBSET Nat
  <2>1. \A k \in DOMAIN v.fetched : v.fetched[k] \in Nat
    BY <1>2
  <2>2. fetched \subseteq Nat
    BY <1>1, <2>1 DEF ToSet
  <2> QED BY <1>1, <2>2
<1>4. PICK r \in AccountState : r = Replay(v.state, v.fetched, fetched \ releases)
  BY <1>2, TabFields, ReplayType
<1>5. PICK s : s = [r EXCEPT !.version = 3]
  OBVIOUS
<1>6. s \in AccountState
  BY <1>5 DEF AccountState
<1>7. PICK w : w = [v EXCEPT !.pc = "health", !.leg = "tail", !.recovered = releases, !.state = s]
  OBVIOUS
<1>8. w \in Tab /\ w.fetched = v.fetched
  BY <1>2, <1>3, <1>6, <1>7 DEF Tab, Pcs
<1>9. Becomes(t, w) /\ UNCHANGED <<sourceVars, cache, inflight>>
  BY <1>1, <1>4, <1>5, <1>7 DEF RecoverReleases
<1> QED BY <1>2, <1>8, <1>9, Facts, SameSource, TabStepType

\* What a sync stores.
Stored(w) == [Replay(w.state, w.fetched, Skipped(w)) EXCEPT !.cursor = w.asOf, !.version = 3]

\* The openings s, stored up to ledger n by version v.
UpTo(u, s, n, v) == u = [s EXCEPT !.cursor = n, !.version = v]

LEMMA CursorFields ==
  ASSUME NEW s \in AccountState, NEW n \in Nat, NEW v \in 0 .. 3,
         NEW u, UpTo(u, s, n, v)
  PROVE  /\ u \in AccountState /\ u.registered = s.registered /\ u.spendable = s.spendable
         /\ u.receiving = s.receiving /\ u.cursor = n /\ u.version = v
<1>1. PICK d : d = [s EXCEPT !.cursor = n]
  OBVIOUS
<1>2. /\ d \in AccountState /\ d.registered = s.registered /\ d.spendable = s.spendable
      /\ d.receiving = s.receiving /\ d.cursor = n
  BY <1>1 DEF AccountState
<1>3. u = [d EXCEPT !.version = v]
  BY <1>1 DEF AccountState, UpTo
<1>4. /\ u \in AccountState /\ u.registered = d.registered /\ u.spendable = d.spendable
      /\ u.receiving = d.receiving /\ u.cursor = d.cursor /\ u.version = v
  BY <1>2, <1>3 DEF AccountState
<1> QED BY <1>2, <1>4

LEMMA StoredFields ==
  ASSUME log \in Seq(Event), NEW w \in Tab, w.fetched \in Seq(DOMAIN log),
         NEW r, r = Replay(w.state, w.fetched, Skipped(w))
  PROVE  /\ Stored(w) \in AccountState
         /\ Stored(w).registered = r.registered /\ Stored(w).spendable = r.spendable
         /\ Stored(w).receiving = r.receiving
         /\ Stored(w).cursor = w.asOf /\ Stored(w).version = 3
<1>1. r \in AccountState /\ w.asOf \in Nat
  BY TabFields, ReplayType
<1>2. PICK n \in Nat : n = w.asOf
  BY <1>1
<1>3. PICK u : u = Stored(w)
  OBVIOUS
<1>4. UpTo(u, r, n, 3)
  BY <1>2, <1>3 DEF Stored, UpTo
<1>5. /\ u \in AccountState /\ u.registered = r.registered /\ u.spendable = r.spendable
      /\ u.receiving = r.receiving /\ u.cursor = n /\ u.version = 3
  BY <1>1, <1>4, 3 \in 0 .. 3, CursorFields
<1> QED BY <1>2, <1>3, <1>5

LEMMA SyncSaveType ==
  ASSUME TInv, NEW t \in Tabs, SyncSave(t)
  PROVE  TInv'
<1>1. PICK v, s : v = tab[t] /\ s = Stored(v)
  OBVIOUS
<1>2. v \in Tab /\ s \in AccountState
  BY <1>1, Facts, StoredFields
<1>3. PICK i \in Tab : i = Idle
  BY Values
<1>4. PICK w : w = IF v.goal = "refresh" THEN i
                   ELSE [i EXCEPT !.pc = "verify", !.goal = v.goal, !.state = s]
  OBVIOUS
<1>5. w \in Tab /\ w.fetched = i.fetched
  <2>1. v.goal \in Goals \cup {"refresh"}
    BY <1>2, TabFields
  <2>2. [i EXCEPT !.pc = "verify", !.goal = v.goal, !.state = s] \in Tab
    BY <1>2, <2>1 DEF Tab, Pcs
  <2>3. w.fetched = i.fetched
    BY <1>4 DEF Tab
  <2> QED BY <1>4, <2>2, <2>3
<1>6. w.fetched \in Seq(DOMAIN log)
  BY <1>3, <1>5, Values
<1>7. Becomes(t, w) /\ cache' = s /\ UNCHANGED <<sourceVars, inflight>>
  BY <1>1, <1>3, <1>4 DEF SyncSave, Stored
<1> QED BY <1>2, <1>5, <1>6, <1>7, Facts, SameSource, TabStepType

LEMMA OldSyncType ==
  ASSUME TInv, OldSync, SourceTypeOK', log' = log
  PROVE  TInv'
<1>1. PICK p : p = Prior
  OBVIOUS
<1>2. /\ p \in AccountState /\ SourceTypeOK /\ tab \in [Tabs -> Tab]
      /\ inflight \in SUBSET Tx /\ log \in Seq(Event) /\ truth \in Seq(Account)
  BY <1>1, Values DEF Prior, TInv, TypeOK, SourceTypeOK
<1>3. PICK ids : ids = {i \in InLedgers(p.cursor + 1, Latest) : log[i].type # "spender_transfer"}
  OBVIOUS
<1>4. ids \in SUBSET DOMAIN log
  BY <1>3 DEF InLedgers
<1>5. InOrder(ids) \in Seq(DOMAIN log)
  BY <1>2, <1>4, AnswerType
<1>6. PICK r \in AccountState : r = Replay(p, InOrder(ids), {})
  BY <1>2, <1>5, ReplayType
<1>7. PICK n \in Nat : n = Latest
  BY <1>2 DEF Latest
<1>8. PICK c : c = cache'
  OBVIOUS
<1>9. UpTo(c, r, n, 1)
  BY <1>1, <1>3, <1>6, <1>7, <1>8 DEF OldSync, Prior, UpTo
<1>10. cache' \in AccountState
  BY <1>8, <1>9, 1 \in 0 .. 3, CursorFields
<1>11. tab' = tab /\ inflight' = inflight
  BY DEF OldSync
<1> QED BY <1>2, <1>10, <1>11 DEF TInv, TypeOK

\* What else a step of a tab leaves true: only a spend is verified, and its
\* opening is blinded by salts that have been drawn.
Aims == \A t \in Tabs : tab[t].pc = "verify" => tab[t].goal # "refresh"
Keeps(w, v) == (w.tx = v.tx \/ w.tx = NoTx) /\ (w.pc = "verify" => w.goal # "refresh")

LEMMA KeepsDrawn ==
  ASSUME TInv, Aims, SpendsDrawn, NEW t \in Tabs, NEW w, Becomes(t, w), Keeps(w, tab[t]),
         salt' = salt, inflight' \subseteq inflight \cup {tab[t].tx}
  PROVE  Aims' /\ SpendsDrawn'
<1>1. PICK n, v : n = salt /\ v = tab[t]
  OBVIOUS
<1>2. tab \in [Tabs -> Tab] /\ n \in Nat
  BY <1>1, Facts
<1>3. /\ tab'[t] = w
      /\ \A u \in Tabs : u # t => tab'[u] = tab[u]
  BY <1>2 DEF Becomes
<1>4. /\ \A tx \in inflight : tx.next.r \subseteq 0 .. n
      /\ \A u \in Tabs : tab[u].tx.next.r \subseteq 0 .. n
  BY <1>1 DEF SpendsDrawn
<1>5. NoTx.next.r \subseteq 0 .. n
  BY Values, CommitmentOps
<1>6. w.tx.next.r \subseteq 0 .. n
  BY <1>1, <1>4, <1>5 DEF Keeps
<1>7. \A u \in Tabs : tab'[u].tx.next.r \subseteq 0 .. n
  BY <1>3, <1>4, <1>6
<1>8. \A tx \in inflight' : tx.next.r \subseteq 0 .. n
  BY <1>1, <1>4
<1>9. SpendsDrawn'
  BY <1>1, <1>7, <1>8 DEF SpendsDrawn
<1>10. Aims'
  BY <1>3 DEF Aims, Keeps
<1> QED BY <1>9, <1>10

\* Each of a tab's steps but the drawing of a salt is of this kind.
LEMMA IdleKeeps == ASSUME NEW v PROVE Keeps(Idle, v)
BY Values DEF Keeps

LEMMA AnswerKeeps ==
  ASSUME TInv, NEW t \in Tabs, Answer(t)
  PROVE  \E w : Becomes(t, w) /\ Keeps(w, tab[t])
<1>1. PICK v : v = tab[t]
  OBVIOUS
<1>2. v \in Tab
  BY <1>1, Facts
<1>4. CASE FetchHistory(t)
  <2>1. PICK r : r = Replay(FreshState, [i \in 1 .. recorded |-> i], {})
    OBVIOUS
  <2>2. PICK w : w = [v EXCEPT !.pc = "health", !.leg = "tail", !.state = r,
                               !.recovered = 1 .. recorded, !.asOf = Latest]
    OBVIOUS
  <2>3. Becomes(t, w)
    BY <1>1, <1>4, <2>1, <2>2 DEF FetchHistory
  <2>4. w.pc = "health" /\ w.tx = v.tx
    BY <1>2, <2>2 DEF Tab
  <2> QED BY <1>1, <2>3, <2>4 DEF Keeps
<1>5. CASE \E oldest \in 0 .. MaxHead : ReadHealth(t, oldest)
  <2>1. PICK oldest \in 0 .. MaxHead : ReadHealth(t, oldest)
    BY <1>5
  <2>2. PICK pc \in {"backfill", "tail"} :
           pc = IF NeedsBackfill(v, oldest) THEN "backfill" ELSE "tail"
    OBVIOUS
  <2>3. PICK start :
           start = IF NeedsBackfill(v, oldest) THEN oldest + SeamMargin
                   ELSE IF Cursor(v) # 0 THEN Cursor(v) + 1 ELSE ColdStart(oldest)
    OBVIOUS
  <2>4. PICK w : w = [v EXCEPT !.pc = pc, !.fetched = << >>, !.start = start]
    OBVIOUS
  <2>5. Becomes(t, w)
    BY <1>1, <2>1, <2>2, <2>3, <2>4 DEF ReadHealth
  <2>6. w.pc = pc /\ w.tx = v.tx
    BY <1>2, <2>4 DEF Tab
  <2> QED BY <1>1, <2>2, <2>5, <2>6 DEF Keeps
<1>6. CASE BackfillPage(t)
  <2>1. PICK rows : rows = BackfillRows(v)
    OBVIOUS
  <2>2. PICK pc \in {"backfill", "tail"} :
           pc = IF Cardinality(rows) > PageSize THEN "backfill" ELSE "tail"
    OBVIOUS
  <2>2a. PICK got : got = v.fetched \o PageOf(rows)
    OBVIOUS
  <2>3. PICK w : w = [v EXCEPT !.pc = pc, !.fetched = got]
    OBVIOUS
  <2>4. Becomes(t, w)
    BY <1>1, <1>6, <2>1, <2>2, <2>2a, <2>3, BackfillBecomes
  <2>5. w.pc = pc /\ w.tx = v.tx
    BY <1>2, <2>3 DEF Tab
  <2> QED BY <1>1, <2>2, <2>4, <2>5 DEF Keeps
<1>7. CASE FetchTail(t)
  <2>1. PICK got : got = v.fetched \o InOrder(InLedgers(v.start, Latest))
    OBVIOUS
  <2>2. PICK w : w = [v EXCEPT !.pc = "fetched", !.asOf = Latest, !.fetched = got]
    OBVIOUS
  <2>3. Becomes(t, w)
    BY <1>1, <1>7, <2>1, <2>2 DEF FetchTail
  <2>4. w.pc = "fetched" /\ w.tx = v.tx
    BY <1>2, <2>2 DEF Tab
  <2> QED BY <1>1, <2>3, <2>4 DEF Keeps
<1>8. CASE RecoverReleases(t)
  <2>1. PICK fetched, releases, s :
           /\ fetched = ToSet(v.fetched)
           /\ releases = {i \in fetched : log[i].type = "spender_transfer"}
           /\ s = [Replay(v.state, v.fetched, fetched \ releases) EXCEPT !.version = 3]
    OBVIOUS
  <2>2. PICK w : w = [v EXCEPT !.pc = "health", !.leg = "tail", !.recovered = releases, !.state = s]
    OBVIOUS
  <2>3. Becomes(t, w)
    BY <1>1, <1>8, <2>1, <2>2 DEF RecoverReleases
  <2>4. w.pc = "health" /\ w.tx = v.tx
    BY <1>2, <2>2 DEF Tab
  <2> QED BY <1>1, <2>3, <2>4 DEF Keeps
<1>9. CASE SyncSave(t)
  <2>1. PICK i \in Tab : i = Idle
    BY Values
  <2>2. PICK w : w = IF v.goal = "refresh" THEN i
                     ELSE [i EXCEPT !.pc = "verify", !.goal = v.goal, !.state = Stored(v)]
    OBVIOUS
  <2>3. Becomes(t, w)
    BY <1>1, <1>9, <2>1, <2>2 DEF SyncSave, Stored
  <2>4. w.tx = i.tx /\ (w = i \/ w.goal = v.goal)
    BY <2>1, <2>2 DEF Tab
  <2>5. Keeps(w, v)
    BY <2>1, <2>2, <2>4, Values, IdleKeeps DEF Keeps
  <2> QED BY <1>1, <2>3, <2>5
<1> QED BY <1>4, <1>5, <1>6, <1>7, <1>8, <1>9 DEF Answer

LEMMA SyncStartKeeps ==
  ASSUME TInv, NEW t \in Tabs, NEW goal \in Goals, SyncStart(t, goal)
  PROVE  \E w : Becomes(t, w) /\ Keeps(w, tab[t])
<1>1. PICK i \in Tab : i = Idle
  BY Values
<1>2. PICK leg, p, pc :
         /\ p = Prior
         /\ leg = IF Umbra THEN "history" ELSE IF p.version < 2 THEN "releases" ELSE "tail"
         /\ pc = IF Umbra THEN "history" ELSE "health"
  OBVIOUS
<1>3. PICK w : w = [i EXCEPT !.goal = goal, !.state = p, !.leg = leg, !.pc = pc]
  OBVIOUS
<1>4. Becomes(t, w)
  BY <1>1, <1>2, <1>3 DEF SyncStart, Prior
<1>5. w.pc = pc /\ w.tx = i.tx
  BY <1>1, <1>3 DEF Tab
<1> QED BY <1>1, <1>2, <1>4, <1>5, Values DEF Keeps

\* The opening a witness leaves is blinded by the salt it draws.
LEMMA VerifyType ==
  ASSUME TInv, Aims, SpendsDrawn, NEW t \in Tabs, Verify(t)
  PROVE  TInv' /\ Aims' /\ SpendsDrawn'
<1>1. PICK v, m, q : v = tab[t] /\ m = salt + 1 /\ q = v.state.spendable
  OBVIOUS
<1>2. /\ v \in Tab /\ v.fetched \in Seq(DOMAIN log) /\ salt \in Nat /\ m \in Nat /\ m \in Int
      /\ v.state \in AccountState
  BY <1>1, Facts, TabFields
<1>3. q \in Commitment /\ q.v \in Nat /\ q.v >= 1
  <2>1. q \in Commitment
    BY <1>1, <1>2, StateFields
  <2>2. q.v >= 1
    BY <1>1 DEF Verify, MaySpend
  <2> QED BY <2>1, <2>2 DEF Commitment
<1>4. PICK next : next = Committed(q.v - 1, m)
  OBVIOUS
<1>5. next \in Commitment /\ next.r = {m}
  BY <1>2, <1>3, <1>4, CommitmentOps, q.v - 1 \in Nat
<1>6. v.goal \in Spends
  <2>1. v.goal \in Spends \/ v.goal = "refresh"
    BY <1>2, TabFields, Constants
  <2>2. v.pc = "verify"
    BY <1>1 DEF Verify, At
  <2> QED BY <1>1, <2>1, <2>2 DEF Aims
<1>7. PICK tx : tx = [type |-> v.goal, spent |-> q, next |-> next]
  OBVIOUS
<1>8. tx \in Tx /\ tx.next = next
  BY <1>3, <1>5, <1>6, <1>7 DEF Tx
<1>9. PICK w : w = [v EXCEPT !.pc = "prove", !.tx = tx]
  OBVIOUS
<1>10. w \in Tab /\ w.fetched = v.fetched /\ w.tx = tx /\ w.pc = "prove"
  BY <1>2, <1>8, <1>9 DEF Tab, Pcs
<1>11. /\ Becomes(t, w) /\ salt' = m
       /\ UNCHANGED <<account, log, truth, indexed, recorded, cache, inflight>>
  BY <1>1, <1>4, <1>7, <1>9 DEF Verify
<1>12. SourceTypeOK'
  BY <1>2, <1>11, Facts DEF SourceTypeOK, Latest
<1>13. TInv'
  BY <1>2, <1>10, <1>11, <1>12, Facts, TabStepType
<1>14. PICK n, tb : n = salt /\ tb = tab'
  OBVIOUS
<1>15. /\ tab \in [Tabs -> Tab] /\ tb[t] = w
       /\ \A u \in Tabs : u # t => tb[u] = tab[u]
  BY <1>11, <1>14, Facts DEF Becomes
<1>16. m \in 0 .. m /\ 0 .. n \subseteq 0 .. m
  BY <1>1, <1>2, <1>14
<1>17. /\ \A x \in inflight : x.next.r \subseteq 0 .. n
       /\ \A u \in Tabs : tab[u].tx.next.r \subseteq 0 .. n
  BY <1>14 DEF SpendsDrawn
<1>18. \A u \in Tabs : tb[u].tx.next.r \subseteq 0 .. m
  BY <1>5, <1>8, <1>10, <1>15, <1>16, <1>17
<1>19. \A x \in inflight' : x.next.r \subseteq 0 .. m
  BY <1>11, <1>16, <1>17
<1>20. SpendsDrawn'
  BY <1>11, <1>14, <1>18, <1>19 DEF SpendsDrawn
<1>21. Aims'
  BY <1>10, <1>14, <1>15 DEF Aims
<1> QED BY <1>13, <1>20, <1>21

LEMMA AwaitFields ==
  ASSUME NEW v \in Tab, NEW pc \in Pcs, NEW w, w = [v EXCEPT !.pc = pc]
  PROVE  w \in Tab /\ w.pc = pc /\ w.tx = v.tx /\ w.goal = v.goal /\ w.fetched = v.fetched
BY DEF Tab

LEMMA SubmitType ==
  ASSUME TInv, Aims, SpendsDrawn, NEW t \in Tabs, Submit(t)
  PROVE  TInv' /\ Aims' /\ SpendsDrawn'
<1>1. PICK v : v = tab[t]
  OBVIOUS
<1>2. v \in Tab /\ v.fetched \in Seq(DOMAIN log) /\ v.tx \in Tx /\ UNCHANGED <<sourceVars, cache>>
  BY <1>1, Facts, TabFields DEF Submit
<1>3. salt' = salt
  BY <1>2 DEF sourceVars
<1>4. CASE v.tx.spent = truth[Latest].spendable
  <2>1. PICK w : w = [v EXCEPT !.pc = "poll"]
    OBVIOUS
  <2>2. w \in Tab /\ w.pc = "poll" /\ w.tx = v.tx /\ w.fetched = v.fetched
    BY <1>2, <2>1, AwaitFields DEF Pcs
  <2>3. Becomes(t, w) /\ inflight' = inflight \cup {v.tx}
    BY <1>1, <1>4, <2>1 DEF Submit, Await
  <2>4. inflight' \in SUBSET Tx /\ cache' \in AccountState
    BY <1>2, <2>3, Facts
  <2>5. TInv'
    BY <1>2, <2>2, <2>3, <2>4, Facts, SameSource, TabStepType
  <2>6. Keeps(w, v)
    BY <2>2 DEF Keeps
  <2> QED BY <1>1, <1>3, <2>3, <2>5, <2>6, KeepsDrawn
<1>5. CASE v.tx.spent # truth[Latest].spendable
  <2>1. Becomes(t, Idle) /\ inflight' = inflight
    BY <1>1, <1>5 DEF Submit
  <2>2. inflight' \in SUBSET Tx /\ cache' \in AccountState
    BY <1>2, <2>1, Facts
  <2>3. TInv'
    BY <1>2, <2>1, <2>2, Facts, SameSource, IdleType
  <2> QED BY <1>1, <1>3, <2>1, <2>3, IdleKeeps, KeepsDrawn
<1> QED BY <1>4, <1>5

LEMMA ConfirmType ==
  ASSUME TInv, NEW t \in Tabs, Confirm(t)
  PROVE  TInv'
<1>1. PICK v, c : v = tab[t] /\ c = cache
  OBVIOUS
<1>2. /\ v \in Tab /\ v.tx \in Tx /\ c \in AccountState
      /\ UNCHANGED <<sourceVars, inflight>> /\ Becomes(t, Idle)
  BY <1>1, Facts, TabFields DEF Confirm
<1>3. PICK n \in Commitment : n = v.tx.next
  BY <1>2 DEF Tx
<1>4. cache' = [c EXCEPT !.spendable = n]
  BY <1>1, <1>3 DEF Confirm
<1>5. cache' \in AccountState
  BY <1>2, <1>4 DEF AccountState
<1>6. inflight' \in SUBSET Tx
  BY <1>2, Facts
<1> QED BY <1>2, <1>5, <1>6, Facts, SameSource, IdleType

-----------------------------------------------------------------------------
(* Type correctness *)

TypeInv == TInv /\ SourceInv /\ Aims /\ SpendsDrawn

\* A tab's step leaves the chain alone, but for the salt a witness draws.
LEMMA SourceKept ==
  ASSUME SourceInv, UNCHANGED <<account, log, truth, indexed, recorded>>,
         salt' \in Nat, salt <= salt'
  PROVE  SourceInv'
<1>1. PICK n, m, k : n = salt /\ m = salt' /\ k = Latest
  OBVIOUS
<1>2. Latest' = k /\ n \in Nat /\ m \in Nat /\ n <= m
  BY <1>1 DEF Latest, SourceInv, SourceTypeOK
<1>3. RecordedLedger' = RecordedLedger
  BY <1>1, <1>2 DEF RecordedLedger
<1>4. SourceTypeOK' /\ LogInOrder' /\ ServicesFollow' /\ AllServed'
  BY <1>1, <1>2, <1>3
     DEF SourceInv, SourceTypeOK, LogInOrder, ServicesFollow, AllServed, Complete
<1>5. AccountDrawn'
  <2>1. WithSalts(account.spendable, n) /\ WithSalts(account.receiving, n)
    BY <1>1 DEF SourceInv, AccountDrawn
  <2>2. WithSalts(account.spendable, m) /\ WithSalts(account.receiving, m)
    BY <1>2, <2>1, MoreSalts
  <2> QED BY <1>1, <2>2 DEF AccountDrawn
<1>6. LogDrawn'
  <2>1. \A i \in 1 .. Len(log) : WithSalts(log[i].checkpoint, n)
    BY <1>1 DEF SourceInv, LogDrawn
  <2>2. \A i \in 1 .. Len(log) : WithSalts(log[i].checkpoint, m)
    BY <1>2, <2>1, MoreSalts
  <2> QED BY <1>1, <2>2 DEF LogDrawn
<1> QED BY <1>4, <1>5, <1>6 DEF SourceInv

LEMMA SourceSame == ASSUME SourceInv, UNCHANGED sourceVars PROVE SourceInv'
<1>1. salt \in Nat /\ salt' = salt /\ UNCHANGED <<account, log, truth, indexed, recorded>>
  BY DEF SourceInv, SourceTypeOK, sourceVars
<1>2. salt' \in Nat /\ salt <= salt'
  BY <1>1
<1> QED BY <1>1, <1>2, SourceKept

\* A call leaves the tabs alone; a transaction that lands is pending no more.
LEMMA CallType ==
  ASSUME TypeInv, NEW ev, EventStep(ev), UNCHANGED <<cache, tab>>, inflight' \subseteq inflight
  PROVE  TypeInv'
<1>1. PICK z, n, m : z = Len(log) /\ n = salt /\ m = salt'
  OBVIOUS
<1>2. SourceInv' /\ z \in Nat /\ log \in Seq(Event) /\ log' \in Seq(Event) /\ Len(log') = z + 1
  BY <1>1, EventSourceInv, LogGrows DEF TypeInv
<1>3. n \in Nat /\ m \in Nat /\ n <= m
  BY <1>1 DEF TypeInv, SourceInv, SourceTypeOK, EventStep
<1>4. DOMAIN log \subseteq DOMAIN log'
  BY <1>1, <1>2
<1>5. ASSUME NEW t \in Tabs PROVE tab[t].fetched \in Seq(DOMAIN log')
  <2>1. tab[t].fetched \in Seq(DOMAIN log)
    BY DEF TypeInv, TInv
  <2> QED BY <1>4, <2>1
<1>6. TInv'
  BY <1>2, <1>5 DEF TypeInv, TInv, TypeOK, SourceInv
<1>7. SpendsDrawn'
  <2>1. 0 .. n \subseteq 0 .. m
    BY <1>3
  <2>2. /\ \A tx \in inflight : tx.next.r \subseteq 0 .. n
        /\ \A t \in Tabs : tab[t].tx.next.r \subseteq 0 .. n
    BY <1>1 DEF TypeInv, SpendsDrawn
  <2>3. /\ \A tx \in inflight' : tx.next.r \subseteq 0 .. m
        /\ \A t \in Tabs : tab[t].tx.next.r \subseteq 0 .. m
    BY <2>1, <2>2
  <2> QED BY <1>1, <2>3 DEF SpendsDrawn
<1>8. Aims'
  BY DEF TypeInv, Aims
<1> QED BY <1>2, <1>6, <1>7, <1>8 DEF TypeInv

\* So do the ledgers and the services.
LEMMA ServiceType ==
  ASSUME TypeInv, SourceInv', log' = log, salt' = salt, UNCHANGED <<cache, tab>>,
         inflight' \subseteq inflight
  PROVE  TypeInv'
<1>1. TInv'
  BY DEF TypeInv, TInv, TypeOK, SourceInv
<1>2. SpendsDrawn' /\ Aims'
  BY DEF TypeInv, SpendsDrawn, Aims
<1> QED BY <1>1, <1>2 DEF TypeInv

LEMMA LandStep ==
  ASSUME TypeInv, NEW tx \in inflight, Land(tx)
  PROVE  (\E ev : EventStep(ev)) /\ inflight' \subseteq inflight /\ UNCHANGED <<cache, tab>>
<1>1. PICK s \in tx.next.r : Spend(tx.type, IF tx.type = "withdraw" THEN Me ELSE Other, s, salt)
  BY DEF Land
<1>2. tx \in Tx /\ salt \in Nat /\ SourceTypeOK /\ AccountDrawn
  BY DEF TypeInv, TInv, TypeOK, SourceInv, SourceTypeOK
<1>3. tx.type \in Spends
  BY <1>2 DEF Tx
<1>4. s \in 0 .. salt
  BY DEF TypeInv, SpendsDrawn
<1>5. PICK to \in {Me, Other} : to = IF tx.type = "withdraw" THEN Me ELSE Other
  OBVIOUS
<1>6. Spend(tx.type, to, s, salt)
  BY <1>1, <1>5
<1>7. salt <= salt
  BY <1>2
<1> QED BY <1>2, <1>3, <1>4, <1>6, <1>7, SpendMineStep DEF Land

\* The account a run may begin with, and the events that opened it.
IsOpening(n, c, e1, e2, e3, one, z) ==
  /\ n = NoAccount /\ c = Merged /\ one = Unblinded(1) /\ z = Zero
  /\ e1 = Entry(2, "register", Me, Me, Registered, Zero)
  /\ e2 = Entry(2, "deposit", Other, Me, Credited, Unblinded(1))
  /\ e3 = Entry(2, "merge", Me, Me, Merged, Zero)

OpeningIs(n, c, e1, e2, e3, one, z) ==
  /\ one \in Commitment /\ z \in Commitment /\ one.r = {} /\ z.r = {}
  /\ n \in Account /\ n.registered = FALSE /\ n.spendable = z /\ n.receiving = z
  /\ c \in Account /\ c.registered = TRUE /\ c.spendable = one /\ c.receiving = z
  /\ e1 \in Event /\ e1.ledger = 2 /\ e1.type = "register" /\ e1.checkpoint = z
  /\ e1.from = Me
  /\ e2 \in Event /\ e2.ledger = 2 /\ e2.type = "deposit" /\ e2.checkpoint = z
  /\ e2.from = Other /\ e2.to = Me /\ e2.credit = one
  /\ e3 \in Event /\ e3.ledger = 2 /\ e3.type = "merge" /\ e3.checkpoint = one
  /\ e3.from = Me

LEMMA OpeningFields ==
  ASSUME NEW n, NEW c, NEW e1, NEW e2, NEW e3, NEW one, NEW z, IsOpening(n, c, e1, e2, e3, one, z)
  PROVE  OpeningIs(n, c, e1, e2, e3, one, z)
<1>1. PICK a, b : a = Registered /\ b = Credited
  OBVIOUS
<1>2. one \in Commitment /\ z \in Commitment /\ one.r = {} /\ z.r = {}
  BY CommitmentOps DEF IsOpening
<1>3. n = [registered |-> FALSE, spendable |-> z, receiving |-> z, delegated |-> 0]
  BY DEF NoAccount, IsOpening
<1>4. n \in Account /\ n.registered = FALSE /\ n.spendable = z /\ n.receiving = z
  BY <1>2, <1>3 DEF Account
<1>5. a = [n EXCEPT !.registered = TRUE] /\ b = [a EXCEPT !.receiving = one]
      /\ c = [a EXCEPT !.spendable = one]
  BY <1>1 DEF Registered, Credited, Merged, IsOpening
<1>6. a \in Account /\ a.registered = TRUE /\ a.spendable = z /\ a.receiving = z
  BY <1>4, <1>5 DEF Account
<1>7. b \in Account /\ b.spendable = z /\ b.receiving = one
  BY <1>2, <1>5, <1>6 DEF Account
<1>8. c \in Account /\ c.registered = TRUE /\ c.spendable = one /\ c.receiving = z
  BY <1>2, <1>5, <1>6 DEF Account
<1>9. /\ e1 = Entry(2, "register", Me, Me, a, z) /\ e2 = Entry(2, "deposit", Other, Me, b, one)
      /\ e3 = Entry(2, "merge", Me, Me, c, z)
  BY <1>1 DEF IsOpening
<1>10. e1 \in Event /\ e1.ledger = 2 /\ e1.type = "register" /\ e1.checkpoint = z /\ e1.from = Me
  BY <1>2, <1>6, <1>9, Names DEF Entry, Event
<1>11. e2 \in Event /\ e2.ledger = 2 /\ e2.type = "deposit" /\ e2.checkpoint = z
       /\ e2.from = Other /\ e2.to = Me /\ e2.credit = one
  BY <1>2, <1>7, <1>9, Names DEF Entry, Event
<1>12. e3 \in Event /\ e3.ledger = 2 /\ e3.type = "merge" /\ e3.checkpoint = one /\ e3.from = Me
  BY <1>2, <1>8, <1>9, Names DEF Entry, Event
<1> QED BY <1>2, <1>4, <1>8, <1>10, <1>11, <1>12 DEF OpeningIs

LEMMA OpeningExists == \E n, c, e1, e2, e3, one, z : IsOpening(n, c, e1, e2, e3, one, z)
BY DEF IsOpening

LEMMA TypeInit == ASSUME Init PROVE TypeInv
<1>1. PICK n, c, e1, e2, e3, one, z :
        IsOpening(n, c, e1, e2, e3, one, z) /\ OpeningIs(n, c, e1, e2, e3, one, z)
  BY OpeningExists, OpeningFields
<1>2. /\ one \in Commitment /\ z \in Commitment /\ one.r = {} /\ z.r = {}
      /\ n \in Account /\ n.spendable = z /\ n.receiving = z
      /\ c \in Account /\ c.spendable = one /\ c.receiving = z
      /\ e1 \in Event /\ e1.ledger = 2 /\ e1.type = "register" /\ e1.checkpoint = z
      /\ e2 \in Event /\ e2.ledger = 2 /\ e2.type = "deposit" /\ e2.checkpoint = z
      /\ e3 \in Event /\ e3.ledger = 2 /\ e3.type = "merge" /\ e3.checkpoint = one
  BY <1>1 DEF OpeningIs
<1>3. \A s \in {one, z} : WithSalts(s, 0)
  BY <1>2 DEF WithSalts
<1>4. indexed = 1 /\ recorded = 0 /\ salt = 0 /\ 0 \in Nat
  BY DEF Init, SourceInit
<1>5. SourceInv
  <2>1. CASE Opened
    <3>1. account = c /\ log = <<e1, e2, e3>> /\ truth = <<n, c>>
      BY <1>1, <2>1 DEF Init, SourceInit, OpeningLog, IsOpening
    <3>2. log \in Seq(Event) /\ Len(log) = 3
      BY <1>2, <3>1
    <3>3. \A i \in 1 .. 3 : log[i] = e1 \/ log[i] = e2 \/ log[i] = e3
      BY <3>1
    <3>4. truth \in Seq(Account) /\ Len(truth) = 2
      BY <1>2, <3>1
    <3>5. Latest = 2
      BY <3>4 DEF Latest
    <3>6. \A i \in 1 .. 3 : log[i].ledger = 2 /\ log[i].type \in {"register", "deposit", "merge"}
                            /\ log[i].checkpoint \in {one, z}
      BY <1>2, <3>3
    <3>7. SourceTypeOK
      BY <1>2, <1>4, <3>1, <3>2, <3>4, <3>5 DEF SourceTypeOK
    <3>8. LogInOrder
      <4>1. MaxHead >= 2
        BY <2>1, Constants
      <4>2. \A i \in 1 .. 3 : log[i].ledger \in 2 .. 3
        BY <3>6
      <4>3. \A i, j \in 1 .. 3 : log[i].ledger <= log[j].ledger
        BY <3>6
      <4> QED BY <3>2, <3>5, <4>1, <4>2, <4>3 DEF LogInOrder
    <3>9. ServicesFollow
      <4>1. MaxLag \in Nat /\ MaxLag >= 1
        BY <2>1, Constants
      <4>2. RecordedLedger = 1
        <5>1. recorded # Len(log) /\ recorded + 1 = 1 /\ log[1].ledger = 2
          BY <1>4, <3>2, <3>6
        <5> QED BY <5>1 DEF RecordedLedger
      <4>3. 1 .. recorded = {}
        BY <1>4
      <4> QED BY <1>4, <3>5, <4>1, <4>2, <4>3 DEF ServicesFollow
    <3>10. AllServed
      BY <2>1, <3>2, <3>6 DEF AllServed, Complete
    <3>11. AccountDrawn /\ LogDrawn
      BY <1>2, <1>3, <1>4, <3>1, <3>2, <3>6 DEF AccountDrawn, LogDrawn
    <3> QED BY <3>7, <3>8, <3>9, <3>10, <3>11 DEF SourceInv
  <2>2. CASE ~Opened
    <3>1. account = n /\ log = << >> /\ truth = <<n>>
      BY <1>1, <2>2 DEF Init, SourceInit, IsOpening
    <3>2. log \in Seq(Event) /\ Len(log) = 0 /\ 1 .. 0 = {}
      BY <3>1
    <3>3. truth \in Seq(Account) /\ Len(truth) = 1
      BY <1>2, <3>1
    <3>4. Latest = 1
      BY <3>3 DEF Latest
    <3>5. SourceTypeOK
      BY <1>2, <1>4, <3>1, <3>2, <3>3, <3>4 DEF SourceTypeOK
    <3>6. LogInOrder
      BY <3>2, <3>4 DEF LogInOrder
    <3>7. ServicesFollow
      <4>1. MaxLag \in Nat
        BY Constants
      <4>2. RecordedLedger = 1
        BY <1>4, <3>2, <3>4 DEF RecordedLedger
      <4>3. 1 .. recorded = {}
        BY <1>4
      <4> QED BY <1>4, <3>4, <4>1, <4>2, <4>3 DEF ServicesFollow
    <3>8. AllServed /\ LogDrawn
      BY <3>2 DEF AllServed, LogDrawn
    <3>9. AccountDrawn
      BY <1>2, <1>3, <1>4, <3>1 DEF AccountDrawn
    <3> QED BY <3>5, <3>6, <3>7, <3>8, <3>9 DEF SourceInv
  <2> QED BY <2>1, <2>2
<1>6. cache = Nothing /\ tab = [t \in Tabs |-> Idle] /\ inflight = {}
  BY DEF Init
<1>7. PICK i \in Tab : i = Idle
  BY Values
<1>8. \A t \in Tabs : tab[t] = i
  BY <1>6, <1>7
<1>9. tab \in [Tabs -> Tab]
  BY <1>6, <1>7
<1>10. i.fetched \in Seq(DOMAIN log) /\ i.pc # "verify" /\ i.tx.next.r = {}
  <2>1. i.fetched = << >> /\ i.pc = "idle" /\ i.tx.next = z
    BY <1>1, <1>7, Values DEF IsOpening
  <2>2. << >> \in Seq(DOMAIN log)
    OBVIOUS
  <2> QED BY <1>2, <2>1, <2>2
<1>11. TInv
  BY <1>5, <1>6, <1>8, <1>9, <1>10, Values DEF TInv, TypeOK, SourceInv
<1>12. Aims /\ SpendsDrawn
  BY <1>6, <1>8, <1>10 DEF Aims, SpendsDrawn
<1> QED BY <1>5, <1>11, <1>12 DEF TypeInv

LEMMA AnswerTypeInv ==
  ASSUME TypeInv, NEW t \in Tabs, Answer(t)
  PROVE  TypeInv'
<1>1. TInv /\ SourceInv /\ Aims /\ SpendsDrawn
  BY DEF TypeInv
<1>2. UNCHANGED <<sourceVars, inflight>>
  BY DEF Answer, FetchHistory, ReadHealth, BackfillPage, FetchTail, RecoverReleases, SyncSave
<1>3. TInv'
  BY <1>1, FetchHistoryType, ReadHealthType, BackfillType, FetchTailType, RecoverReleasesType,
     SyncSaveType DEF Answer
<1>4. Aims' /\ SpendsDrawn'
  <2>1. PICK w : Becomes(t, w) /\ Keeps(w, tab[t])
    BY <1>1, AnswerKeeps
  <2>2. salt' = salt
    BY <1>2 DEF sourceVars
  <2> QED BY <1>1, <1>2, <2>1, <2>2, KeepsDrawn
<1>5. SourceInv'
  BY <1>1, <1>2, SourceSame
<1> QED BY <1>3, <1>4, <1>5 DEF TypeInv

\* A step that ends what a tab was doing.
LEMMA EndsTypeInv ==
  ASSUME TypeInv, NEW t \in Tabs, Becomes(t, Idle), UNCHANGED <<sourceVars, inflight>>, TInv'
  PROVE  TypeInv'
<1>1. SourceInv'
  BY SourceSame DEF TypeInv
<1>2. Aims' /\ SpendsDrawn'
  BY IdleKeeps, KeepsDrawn DEF TypeInv, sourceVars
<1> QED BY <1>1, <1>2 DEF TypeInv

LEMMA EndsType ==
  ASSUME TypeInv, NEW t \in Tabs, Becomes(t, Idle), UNCHANGED <<sourceVars, cache, inflight>>
  PROVE  TypeInv'
<1>1. TInv'
  BY Facts, SameSource, IdleType DEF TypeInv
<1> QED BY <1>1, EndsTypeInv

LEMMA TypeStep == ASSUME TypeInv, [Next]_vars PROVE TypeInv'
<1>1. TInv /\ SourceInv /\ Aims /\ SpendsDrawn /\ SourceTypeOK /\ AccountDrawn
  BY DEF TypeInv, SourceInv
<1>2. CASE Environment /\ UNCHANGED <<cache, tab, inflight>>
  <2>1. CASE Elsewhere
    <3>1. PICK ev : EventStep(ev)
      BY <1>1, <2>1, ElsewhereStep
    <3> QED BY <1>2, <3>1, CallType
  <2>2. CASE CloseLedger
    BY <1>1, <1>2, <2>2, CloseSourceInv, ServiceType DEF CloseLedger
  <2>3. CASE Ingest
    BY <1>1, <1>2, <2>3, IngestSourceInv, ServiceType DEF Ingest
  <2>4. CASE Record
    BY <1>1, <1>2, <2>4, RecordSourceInv, ServiceType DEF Record
  <2> QED BY <1>2, <2>1, <2>2, <2>3, <2>4 DEF Environment
<1>3. CASE OldSync
  <2>1. UNCHANGED sourceVars /\ tab' = tab /\ inflight' = inflight /\ salt' = salt
    BY <1>3 DEF OldSync, sourceVars
  <2>2. TInv' /\ SourceInv'
    BY <1>1, <1>3, <2>1, SameSource, OldSyncType, SourceSame
  <2>3. Aims' /\ SpendsDrawn'
    BY <1>1, <2>1 DEF Aims, SpendsDrawn
  <2> QED BY <2>2, <2>3 DEF TypeInv
<1>4. CASE \E tx \in inflight : Land(tx) \/ Drop(tx)
  <2>1. PICK tx \in inflight : Land(tx) \/ Drop(tx)
    BY <1>4
  <2>2. CASE Land(tx)
    <3>1. PICK ev : EventStep(ev)
      BY <2>2, LandStep
    <3> QED BY <2>2, <3>1, LandStep, CallType
  <2>3. CASE Drop(tx)
    <3>1. UNCHANGED <<sourceVars, cache, tab>> /\ inflight' \subseteq inflight
      BY <2>3 DEF Drop
    <3>2. log' = log /\ salt' = salt
      BY <3>1 DEF sourceVars
    <3> QED BY <1>1, <3>1, <3>2, SourceSame, ServiceType
  <2> QED BY <2>1, <2>2, <2>3
<1>5. ASSUME NEW t \in Tabs, NEW goal \in Goals, SyncStart(t, goal) PROVE TypeInv'
  <2>1. UNCHANGED <<sourceVars, cache, inflight>> /\ salt' = salt
    BY <1>5 DEF SyncStart, sourceVars
  <2>2. TInv' /\ SourceInv'
    BY <1>1, <1>5, <2>1, SyncStartType, SourceSame
  <2>3. PICK w : Becomes(t, w) /\ Keeps(w, tab[t])
    BY <1>1, <1>5, SyncStartKeeps
  <2> QED BY <1>1, <2>1, <2>2, <2>3, KeepsDrawn DEF TypeInv
<1>6. ASSUME NEW t \in Tabs, SyncFails(t) \/ Refuse(t) \/ GiveUp(t) \/ Reload(t) PROVE TypeInv'
  BY <1>6, EndsType DEF SyncFails, Refuse, GiveUp, Reload
<1>7. ASSUME NEW t \in Tabs, Verify(t) PROVE TypeInv'
  <2>1. TInv' /\ Aims' /\ SpendsDrawn'
    BY <1>1, <1>7, VerifyType
  <2>2. salt \in Nat /\ salt' = salt + 1 /\ UNCHANGED <<account, log, truth, indexed, recorded>>
    BY <1>1, <1>7 DEF Verify, SourceTypeOK
  <2>3. salt' \in Nat /\ salt <= salt'
    BY <2>2
  <2> QED BY <1>1, <2>1, <2>2, <2>3, SourceKept DEF TypeInv
<1>8. ASSUME NEW t \in Tabs, Submit(t) PROVE TypeInv'
  <2>1. TInv' /\ Aims' /\ SpendsDrawn'
    BY <1>1, <1>8, SubmitType
  <2>2. UNCHANGED sourceVars
    BY <1>8 DEF Submit
  <2> QED BY <1>1, <2>1, <2>2, SourceSame DEF TypeInv
<1>9. ASSUME NEW t \in Tabs, Confirm(t) PROVE TypeInv'
  BY <1>1, <1>9, ConfirmType, EndsTypeInv DEF Confirm
<1>10. CASE UNCHANGED vars
  BY <1>1, <1>10, SourceSame, ServiceType DEF vars, sourceVars
<1> QED BY <1>2, <1>3, <1>4, <1>5, <1>6, <1>7, <1>8, <1>9, <1>10, AnswerTypeInv
        DEF Next, SpendStep

\* Whatever the services answer and whatever lands, fails or is given up in
\* the meantime, the cache holds openings with a cursor and a version, every
\* place a tab has fetched is one of the log, and a transaction it builds
\* leaves an opening that can be committed to: a balance that does not cover
\* the amount is refused before the witness is built (wallet.ts spend).
THEOREM TypeCorrect == Spec => []TypeOK
<1>1. Init => TypeInv
  BY TypeInit
<1>2. TypeInv /\ [Next]_vars => TypeInv'
  BY TypeStep
<1>3. TypeInv => TypeOK
  BY DEF TypeInv, TInv
<1> QED BY <1>1, <1>2, <1>3, PTL DEF Spec

-----------------------------------------------------------------------------
(* What a sync computes *)

\* The openings v agree with those at place i, but for a spendable one that
\* the owner's spend at the later place p replaces.
Agrees(v, g, i, p) ==
  /\ v.registered = g.registered /\ v.receiving = g.receiving
  /\ v.spendable = g.spendable \/ p > i

LEMMA AgreesStep ==
  ASSUME NEW v \in AccountState, NEW g \in AccountState, NEW ev \in Event,
         NEW i \in Nat, NEW p \in Nat, p = i + 1 => Own(ev), Agrees(v, g, i, p)
  PROVE  Agrees(Apply(v, ev), Apply(g, ev), i + 1, p)
<1>1. PICK u, h : u = Apply(v, ev) /\ h = Apply(g, ev)
  OBVIOUS
<1>2. /\ u.registered = (v.registered \/ (ev.from = Me /\ ev.type = "register"))
      /\ u.spendable = IF ev.from = Me /\ ev.type = "merge" THEN Plus(v.spendable, v.receiving)
                       ELSE IF Own(ev) THEN ev.checkpoint ELSE v.spendable
      /\ u.receiving = IF ev.from = Me /\ ev.type = "merge" THEN Zero
                       ELSE IF ev.to = Me /\ ev.type \in Credits THEN Plus(v.receiving, ev.credit)
                       ELSE v.receiving
  BY <1>1, ApplyFields
<1>3. /\ h.registered = (g.registered \/ (ev.from = Me /\ ev.type = "register"))
      /\ h.spendable = IF ev.from = Me /\ ev.type = "merge" THEN Plus(g.spendable, g.receiving)
                       ELSE IF Own(ev) THEN ev.checkpoint ELSE g.spendable
      /\ h.receiving = IF ev.from = Me /\ ev.type = "merge" THEN Zero
                       ELSE IF ev.to = Me /\ ev.type \in Credits THEN Plus(g.receiving, ev.credit)
                       ELSE g.receiving
  BY <1>1, ApplyFields
<1>4. v.registered = g.registered /\ v.receiving = g.receiving
      /\ (v.spendable = g.spendable \/ p > i)
  BY DEF Agrees
<1>5. u.registered = h.registered /\ u.receiving = h.receiving
  BY <1>2, <1>3, <1>4
<1>6. u.spendable = h.spendable \/ p > i + 1
  <2>1. CASE v.spendable = g.spendable
    BY <1>2, <1>3, <1>4, <2>1
  <2>2. CASE p > i
    <3>1. CASE p = i + 1
      <4>1. Own(ev) /\ ~(ev.from = Me /\ ev.type = "merge")
        BY <3>1, Names DEF Own
      <4> QED BY <1>2, <1>3, <4>1
    <3>2. CASE p # i + 1
      BY <2>2, <3>2
    <3> QED BY <3>1, <3>2
  <2> QED BY <1>4, <2>1, <2>2
<1> QED BY <1>1, <1>5, <1>6 DEF Agrees

\* The replay of a run that starts at or before place b and skips what is
\* contained in the openings of place b gives the openings of its last place.
LEMMA RunReplay ==
  ASSUME log \in Seq(Event), NEW f, History(log, f), NEW s \in AccountState,
         NEW a \in Nat, NEW b \in Nat, NEW e \in 0 .. Len(log), a <= b, b <= e,
         NEW skipped, skipped = 1 .. b \/ (skipped = {} /\ a = b),
         NEW p \in 0 .. e, p > b => Own(log[p]), Agrees(s, f[b], b, p)
  PROVE  Matches(Replay(s, Run(a, e), skipped), f[e])
<1>1. PICK z \in Nat : z = Len(log)
  OBVIOUS
<1>2. /\ f \in [0 .. z -> AccountState] /\ e \in Nat /\ e <= z /\ p \in Nat /\ a <= e
      /\ \A i \in 1 .. z : f[i] = Apply(f[i - 1], log[i]) /\ log[i] \in Event
      /\ DOMAIN log = 1 .. z
  BY <1>1 DEF History
<1>3. PICK ids : ids = Run(a, e)
  OBVIOUS
<1>4. /\ ids \in Seq(Nat) /\ Len(ids) = e - a
      /\ \A k \in 1 .. e - a : ids[k] = a + k
  <2>1. e \in Nat /\ a <= e
    BY <1>2
  <2>2. /\ Run(a, e) \in Seq(Nat) /\ Len(Run(a, e)) = e - a
        /\ \A k \in 1 .. e - a : Run(a, e)[k] = a + k
    BY <2>1, RunFacts
  <2> QED BY <1>3, <2>2
<1>5. ids \in Seq(DOMAIN log)
  <2>0. e \in Nat /\ e <= z /\ a <= e
    BY <1>2
  <2>1. \A k \in 1 .. e - a : a + k \in 1 .. z
    BY <2>0
  <2>2. \A k \in 1 .. e - a : ids[k] \in 1 .. z
    BY <1>4, <2>1
  <2>3. \A k \in 1 .. Len(ids) : ids[k] \in 1 .. z
    BY <1>4, <2>2
  <2>4. ids \in Seq(1 .. z)
    BY <1>4, <2>3
  <2> QED BY <1>2, <2>4
<1>6. PICK h \in [0 .. Len(ids) -> AccountState] : Plays(h, s, ids, skipped)
  BY <1>5, RunExists
<1>7. Replay(s, ids, skipped) = h[Len(ids)]
  BY <1>5, <1>6, ReplayIsRun
<1> DEFINE Right(j) == /\ a + j <= b => h[j] = s
                       /\ a + j >= b => Agrees(h[j], f[a + j], a + j, p)
           N == {j \in Nat : j <= e - a => Right(j)}
<1>8. 0 \in N
  <2>1. h[0] = s /\ a + 0 = a
    BY <1>6 DEF Plays
  <2>2. a >= b => a = b
    OBVIOUS
  <2> QED BY <2>1, <2>2
<1>9. ASSUME NEW j \in Nat, j \in N PROVE j + 1 \in N
  <2> SUFFICES ASSUME j + 1 <= e - a PROVE Right(j + 1)
    OBVIOUS
  <2>1. PICK i \in Nat : i = a + j
    OBVIOUS
  <2>2. /\ i + 1 = a + (j + 1) /\ i + 1 \in 1 .. z /\ i \in 0 .. z /\ (i + 1) - 1 = i
        /\ j + 1 \in 1 .. Len(ids) /\ (j + 1) - 1 = j /\ j \in 0 .. Len(ids) /\ j <= e - a
        /\ j + 1 \in 1 .. e - a
    BY <1>2, <1>4, <2>1
  <2>3. Right(j)
    BY <1>9, <2>2
  <2>4. PICK v \in AccountState : v = h[j]
    BY <1>6, <2>2
  <2>5. h[j + 1] = Played(v, i + 1, skipped)
    BY <1>4, <1>6, <2>2, <2>4 DEF Plays
  <2>6. CASE i < b
    <3>1. a # b /\ i + 1 <= b /\ i + 1 \in 1 .. b
      BY <2>1, <2>6
    <3>2. i + 1 \in skipped
      BY <3>1
    <3>3. h[j + 1] = v /\ v = s
      BY <2>1, <2>3, <2>4, <2>5, <2>6, <3>2 DEF Played
    <3>4. i + 1 >= b => i + 1 = b
      BY <3>1
    <3> QED BY <2>2, <3>3, <3>4
  <2>7. CASE i >= b
    <3>1. i + 1 \notin skipped
      BY <2>7
    <3>2. h[j + 1] = Apply(v, log[i + 1])
      BY <2>5, <3>1 DEF Played
    <3>3. PICK g, ev : g = f[i] /\ ev = log[i + 1]
      OBVIOUS
    <3>4. g \in AccountState /\ ev \in Event /\ f[i + 1] = Apply(g, ev)
      BY <1>2, <2>2, <3>3
    <3>5. Agrees(v, g, i, p)
      BY <2>1, <2>3, <2>4, <2>7, <3>3
    <3>6. p = i + 1 => Own(ev)
      BY <2>7, <3>3
    <3>7. Agrees(Apply(v, ev), Apply(g, ev), i + 1, p)
      BY <1>2, <3>4, <3>5, <3>6, AgreesStep
    <3>8. ~(i + 1 <= b)
      BY <2>7
    <3> QED BY <2>2, <3>2, <3>3, <3>4, <3>7, <3>8
  <2> QED BY <2>6, <2>7
<1>10. e - a \in N
  <2>1. e - a \in Nat
    BY <1>2
  <2> HIDE DEF N
  <2> QED BY <1>8, <1>9, <2>1, NatSetInduction
<1>11. Right(e - a)
  BY <1>2, <1>10
<1>12. a + (e - a) = e /\ e >= b /\ ~(p > e)
  BY <1>2
<1>13. Agrees(h[e - a], f[e], e, p)
  BY <1>11, <1>12
<1> QED BY <1>3, <1>4, <1>7, <1>12, <1>13 DEF Agrees, Matches

-----------------------------------------------------------------------------
(* The tabs and their cache follow the chain *)

Follows(f) ==
  /\ History(log, f) /\ ChainFollows(log, f)
  /\ Single => CacheFollows(log, Latest, f, cache)
  /\ \A t \in Tabs : TabFollows(log, Latest, indexed, f, tab[t])

SyncInv == TypeInv /\ Legs /\ \E f : Follows(f)

\* While the chain moves on.
LEMMA FollowsGrows ==
  ASSUME TypeInv, Legs, NEW f, Follows(f), NEW g, History(log', g), ChainFollows(log, g)',
         Grows(log, Latest, log', Latest'), Extends(log, f, g),
         indexed' \in Nat, indexed <= indexed', UNCHANGED <<cache, tab>>
  PROVE  Follows(g)'
<1>1. PICK l, k, n, m, x, y : /\ l = log /\ k = log' /\ n = Latest /\ m = Latest'
                              /\ x = indexed /\ y = indexed'
  OBVIOUS
<1>2. /\ Grows(l, n, k, m) /\ Extends(l, f, g) /\ x \in Nat /\ y \in Nat /\ x <= y /\ x <= n
      /\ n \in Nat /\ cache \in AccountState /\ tab \in [Tabs -> Tab]
  BY <1>1 DEF TypeInv, TInv, TypeOK, SourceTypeOK, Latest
<1>3. Single => CacheFollows(k, m, g, cache)
  <2>1. PICK c : c = cache
    OBVIOUS
  <2>2. c.version = 3 => c.cursor \in Nat /\ c.cursor <= n
    BY <1>1, <1>2, <2>1 DEF Legs, CacheVersions
  <2>3. Single => CacheFollows(l, n, f, c)
    BY <1>1, <2>1 DEF Follows
  <2>4. Single => CacheFollows(k, m, g, c)
    BY <1>2, <2>2, <2>3, CacheGrows
  <2> QED BY <2>1, <2>4
<1>4. ASSUME NEW t \in Tabs PROVE TabFollows(k, m, y, g, tab[t])
  <2>1. PICK w \in Tab : w = tab[t]
    BY <1>2
  <2>2. w.state.cursor \in Nat /\ w.start \in Nat /\ w.asOf \in Nat
    BY TabFields, StateFields
  <2>3. Orderly(w, cache)
    BY <2>1 DEF Legs
  <2>4. w.state.cursor <= n /\ (Umbra /\ w.pc = "health" => w.asOf <= n)
    BY <1>1, <1>2, <2>2, <2>3 DEF Orderly, LegOf, OnTime
  <2>5. TabFollows(l, n, x, f, w)
    BY <1>1, <2>1 DEF Follows
  <2>6. TabFollows(k, m, y, g, w)
    BY <1>2, <2>2, <2>4, <2>5, TabGrows
  <2> QED BY <2>1, <2>6
<1>5. Single => CacheFollows(log, Latest, g, cache)'
  BY <1>1, <1>3 DEF CacheFollows, Upto, Near
<1>6. \A t \in Tabs : TabFollows(log, Latest, indexed, g, tab[t])'
  <2> SUFFICES ASSUME NEW t \in Tabs PROVE TabFollows(log, Latest, indexed, g, tab[t])'
    OBVIOUS
  <2>1. PICK w : w = tab[t] /\ w = tab'[t]
    OBVIOUS
  <2>2. TabFollows(k, m, y, g, w)
    BY <1>4, <2>1
  <2>3. TabFollows(log', Latest', indexed', g, w)
    BY <1>1, <2>2
  <2> QED BY <2>1, <2>3 DEF TabFollows, BaseAt, Near, Upto, RestIsRecent, FetchedRun
<1> QED BY <1>5, <1>6 DEF Follows, History

LEMMA LegsGrow ==
  ASSUME TypeInv, Legs, Grows(log, Latest, log', Latest'), UNCHANGED <<cache, tab>>,
         \A t \in Tabs : OnTime(tab[t])'
  PROVE  Legs'
<1>1. PICK l, k, n, m : l = log /\ k = log' /\ n = Latest /\ m = Latest'
  OBVIOUS
<1>2. /\ Len(l) \in Nat /\ Len(k) \in Nat /\ Len(l) <= Len(k) /\ n \in Nat /\ m \in Nat /\ n <= m
      /\ \A i \in 1 .. Len(l) : k[i] = l[i]
      /\ \A i \in 1 .. Len(k) : k[i].ledger \in Nat /\ (i > Len(l) => k[i].ledger > n)
  BY <1>1 DEF Grows
<1>3. PICK c : c = cache
  OBVIOUS
<1>4. /\ c.version \in {0, 3} /\ (c.version = 0 => c = Nothing)
      /\ (c.version = 3 => c.cursor \in 1 .. n)
  BY <1>1, <1>3 DEF Legs, CacheVersions
<1>5. c.cursor \in 0 .. n /\ (c.version = 3 => c.cursor \in 1 .. m)
  BY <1>2, <1>4, Values
<1>6. CacheVersions'
  BY <1>1, <1>3, <1>4, <1>5 DEF CacheVersions
<1>7. ASSUME NEW t \in Tabs PROVE Orderly(tab[t], cache)'
  <2>1. PICK w : w = tab[t] /\ w = tab'[t]
    OBVIOUS
  <2>2. LegOf(w, c) /\ (Single => LandsLater(w, c))
    BY <1>3, <2>1 DEF Legs, Orderly
  <2>3. LegOf(tab[t], cache)'
    <3>1. w.state.cursor \in 0 .. m
      BY <1>1, <1>2, <2>2 DEF LegOf
    <3> QED BY <1>1, <1>3, <2>1, <2>2, <3>1 DEF LegOf
  <2>4. Single => LandsLater(tab[t], cache)'
    <3> SUFFICES ASSUME Single, w.pc \in {"prove", "poll"}, NEW i \in 1 .. Len(k),
                        k[i].from = Me, k[i].type = w.tx.type, k[i].checkpoint = w.tx.next
                 PROVE  k[i].ledger > c.cursor
      BY <1>1, <1>3, <2>1 DEF LandsLater
    <3>1. CASE i <= Len(l)
      <4>1. i \in 1 .. Len(l) /\ k[i] = l[i]
        BY <1>2, <3>1
      <4> QED BY <1>1, <2>2, <4>1 DEF LandsLater
    <3>2. CASE i > Len(l)
      <4>1. PICK q : q = k[i].ledger
        OBVIOUS
      <4>2. q \in Nat /\ q > n
        BY <1>2, <3>2, <4>1
      <4> QED BY <1>2, <1>5, <4>1, <4>2
    <3> QED BY <1>2, <3>1, <3>2
  <2> QED BY <2>3, <2>4 DEF Orderly
<1> QED BY <1>6, <1>7 DEF Legs

\* A call, or a service that catches up, leaves a timely sync so.
LEMMA SameTime ==
  ASSUME Legs, Latest' = Latest, tab' = tab
  PROVE  \A t \in Tabs : OnTime(tab[t])'
BY DEF Legs, Orderly, OnTime

LEMMA CallSync ==
  ASSUME SyncInv, NEW ev, EventStep(ev), UNCHANGED <<cache, tab>>, inflight' \subseteq inflight
  PROVE  SyncInv'
<1>1. PICK f : Follows(f)
  BY DEF SyncInv
<1>2. TypeInv /\ Legs /\ SourceInv /\ History(log, f) /\ ChainFollows(log, f)
  BY <1>1 DEF SyncInv, TypeInv, Follows
<1>3. PICK g : History(log', g) /\ Extends(log, f, g) /\ g[Len(log) + 1] = Apply(f[Len(log)], ev)
  BY <1>2, HistoryGrows
<1>4. ChainFollows(log, g)'
  BY <1>2, <1>3, EventChain
<1>5. Grows(log, Latest, log', Latest') /\ Latest' = Latest /\ TypeInv'
  BY <1>2, EventSourceInv, LogGrows, CallType
<1>6. indexed' \in Nat /\ indexed <= indexed'
  BY <1>2 DEF EventStep, SourceInv, SourceTypeOK
<1>7. Follows(g)'
  BY <1>1, <1>2, <1>3, <1>4, <1>5, <1>6, FollowsGrows
<1>8. \A t \in Tabs : OnTime(tab[t])'
  BY <1>2, <1>5, SameTime
<1>9. Legs'
  BY <1>2, <1>5, <1>8, LegsGrow
<1> QED BY <1>5, <1>7, <1>9 DEF SyncInv

LEMMA CloseSync ==
  ASSUME SyncInv, Timely, CloseLedger, UNCHANGED <<cache, tab, inflight>>
  PROVE  SyncInv'
<1>1. PICK f : Follows(f)
  BY DEF SyncInv
<1>2. TypeInv /\ Legs /\ SourceInv /\ History(log, f) /\ ChainFollows(log, f)
  BY <1>1 DEF SyncInv, TypeInv, Follows
<1>3. /\ Grows(log, Latest, log', Latest') /\ Latest' = Latest + 1 /\ SourceInv'
      /\ log' = log /\ indexed' = indexed /\ salt' = salt
  BY <1>2, CloseSourceInv DEF CloseLedger
<1>4. TypeInv'
  BY <1>2, <1>3, ServiceType
<1>5. ChainFollows(log, f)'
  BY <1>2, CloseChain
<1>6. Extends(log, f, f) /\ History(log', f)
  BY <1>2, <1>3 DEF Extends
<1>7. indexed' \in Nat /\ indexed <= indexed'
  BY <1>2, <1>3 DEF SourceInv, SourceTypeOK
<1>8. Follows(f)'
  BY <1>1, <1>2, <1>3, <1>5, <1>6, <1>7, FollowsGrows
<1>9. ASSUME NEW t \in Tabs PROVE OnTime(tab[t])'
  <2>1. PICK w \in Tab : w = tab[t] /\ w = tab'[t]
    BY <1>2 DEF TypeInv, TInv, TypeOK
  <2>2. OnTime(w)
    BY <1>2, <2>1 DEF Legs, Orderly
  <2>3. Umbra /\ w.pc = "health" => Latest < w.asOf + MaxDelay
    BY <2>1 DEF Timely
  <2>4. w.asOf \in Nat /\ MaxDelay \in Nat /\ Latest \in Nat
    BY <1>2, TabFields, Constants DEF SourceInv, SourceTypeOK, Latest
  <2>5. Umbra /\ w.pc = "health" => w.asOf <= Latest + 1 /\ Latest + 1 <= w.asOf + MaxDelay
    BY <2>2, <2>3, <2>4 DEF OnTime
  <2> QED BY <1>3, <2>1, <2>5 DEF OnTime
<1>10. Legs'
  BY <1>2, <1>3, <1>9, LegsGrow
<1> QED BY <1>4, <1>8, <1>10 DEF SyncInv

LEMMA CatchUpSync ==
  ASSUME SyncInv, Ingest \/ Record, UNCHANGED <<cache, tab, inflight>>
  PROVE  SyncInv'
<1>1. PICK f : Follows(f)
  BY DEF SyncInv
<1>2. TypeInv /\ Legs /\ SourceInv /\ History(log, f) /\ ChainFollows(log, f)
  BY <1>1 DEF SyncInv, TypeInv, Follows
<1>3. /\ indexed \in Nat /\ Latest \in Nat
  BY <1>2 DEF SourceInv, SourceTypeOK, Latest
<1>4. /\ SourceInv' /\ log' = log /\ Latest' = Latest /\ indexed <= indexed'
      /\ UNCHANGED <<account, truth, salt>>
  <2>1. CASE Ingest
    BY <1>2, <2>1, IngestSourceInv DEF Ingest
  <2>2. CASE Record
    BY <1>2, <1>3, <2>2, RecordSourceInv DEF Record
  <2> QED BY <2>1, <2>2
<1>5. Grows(log, Latest, log', Latest')
  <2>1. PICK n : n = Latest' /\ n \in Nat /\ Latest <= n
    BY <1>3, <1>4
  <2> QED BY <1>2, <1>4, <2>1, SameLog
<1>6. TypeInv'
  BY <1>2, <1>4, ServiceType
<1>7. ChainFollows(log, f)'
  BY <1>2, <1>4 DEF ChainFollows
<1>8. Extends(log, f, f) /\ History(log', f)
  BY <1>2, <1>4 DEF Extends
<1>9. indexed' \in Nat
  BY <1>4 DEF SourceInv, SourceTypeOK
<1>10. Follows(f)'
  BY <1>1, <1>2, <1>4, <1>5, <1>7, <1>8, <1>9, FollowsGrows
<1>11. Legs'
  BY <1>2, <1>4, <1>5, SameTime, LegsGrow
<1> QED BY <1>6, <1>10, <1>11 DEF SyncInv

\* While a tab moves on.
LEMMA TabSync ==
  ASSUME SyncInv, TypeInv', UNCHANGED <<account, log, truth, indexed>>, CacheVersions',
         cache.version = 3 => cache'.version = 3,
         NEW t \in Tabs, NEW w, Becomes(t, w), Orderly(w, cache'),
         NEW f, Follows(f), Single => CacheFollows(log, Latest, f, cache'),
         TabFollows(log, Latest, indexed, f, w)
  PROVE  SyncInv'
<1>1. PICK d, n : d = cache' /\ n = Latest
  OBVIOUS
<1>2. Latest' = n /\ tab \in [Tabs -> Tab]
  BY <1>1 DEF Latest, SyncInv, TypeInv, TInv, TypeOK
<1>3. tab'[t] = w /\ \A u \in Tabs : u # t => tab'[u] = tab[u]
  BY <1>2 DEF Becomes
<1>4. Follows(f)'
  <2>1. ChainFollows(log, f)'
    BY <1>1, <1>2 DEF Follows, ChainFollows
  <2>2. Single => CacheFollows(log', Latest', f, d)
    BY <1>1, <1>2
  <2>3. \A u \in Tabs : TabFollows(log, n, indexed, f, tab'[u])
    BY <1>1, <1>3 DEF Follows
  <2> QED BY <1>1, <1>2, <2>1, <2>2, <2>3 DEF Follows
<1>5. ASSUME NEW u \in Tabs PROVE Orderly(tab[u], cache)'
  <2>1. CASE u = t
    BY <1>1, <1>2, <1>3, <2>1 DEF Orderly, LegOf, OnTime, LandsLater
  <2>2. CASE u # t
    <3>1. PICK v : v = tab[u] /\ v = tab'[u]
      BY <1>3, <2>2
    <3>2. LegOf(v, cache) /\ OnTime(v)
      BY <3>1 DEF SyncInv, Legs, Orderly
    <3>3. ~Single
      BY <2>2 DEF Single
    <3>4. LegOf(v, d)
      BY <1>1, <3>2 DEF LegOf
    <3> QED BY <1>1, <1>2, <3>1, <3>2, <3>3, <3>4 DEF Orderly, LegOf, OnTime
  <2> QED BY <2>1, <2>2
<1> QED BY <1>4, <1>5 DEF SyncInv, Legs

\* What is known of the chain when a tab moves on.
LEMMA ChainFacts ==
  ASSUME SyncInv, NEW f, Follows(f), NEW l, l = log, NEW n, n = Latest
  PROVE  /\ l \in Seq(Event) /\ Len(l) \in Nat /\ n \in Nat /\ n >= 1
         /\ \A i \in 1 .. Len(l) : l[i].ledger \in Nat /\ l[i].ledger >= 2
         /\ Ordered(l)
         /\ History(l, f) /\ f[0] = FreshState /\ f \in [0 .. Len(l) -> AccountState]
         /\ Upto(l, 0, 0) /\ Upto(l, 0, 1)
         /\ n = 1 \/ n <= MaxHead
<1>1. /\ l \in Seq(Event) /\ Len(l) \in Nat /\ n \in Nat /\ n >= 1 /\ (n = 1 \/ n <= MaxHead)
      /\ \A i \in 1 .. Len(l) : l[i].ledger \in 2 .. n + 1
      /\ \A i, j \in 1 .. Len(l) : i <= j => l[i].ledger <= l[j].ledger
  BY DEF SyncInv, TypeInv, SourceInv, SourceTypeOK, Latest, LogInOrder
<1>2. \A i \in 1 .. Len(l) : l[i].ledger \in Nat /\ l[i].ledger >= 2
  BY <1>1
<1>3. History(l, f) /\ f[0] = FreshState /\ f \in [0 .. Len(l) -> AccountState]
  BY DEF Follows, History
<1>4. \A i \in 1 .. Len(l) : ~(i <= 0) /\ ~(l[i].ledger <= 0) /\ ~(l[i].ledger <= 1)
  BY <1>2
<1>5. Upto(l, 0, 0) /\ Upto(l, 0, 1)
  BY <1>1, <1>4 DEF Upto
<1> QED BY <1>1, <1>2, <1>3, <1>5 DEF Ordered

\* A tab that does nothing is in order.
LEMMA IdleOrderly ==
  ASSUME SyncInv, NEW f, NEW c
  PROVE  Orderly(Idle, c) /\ TabFollows(log, Latest, indexed, f, Idle)
<1>1. Latest \in Nat
  BY DEF SyncInv, TypeInv, SourceInv, SourceTypeOK, Latest
<1> QED BY <1>1, Values DEF Orderly, LegOf, OnTime, LandsLater, Syncing, TabFollows

LEMMA CacheSame == ASSUME SyncInv, UNCHANGED <<truth, cache>> PROVE CacheVersions'
BY DEF SyncInv, Legs, CacheVersions, Latest

\* A sync begins with what is stored; only where no account history answers
\* do its openings stand for the events up to the stored cursor.
LEMMA SyncStartSync ==
  ASSUME Reliable, SyncInv, NEW t \in Tabs, NEW goal \in Goals, SyncStart(t, goal), TypeInv'
  PROVE  SyncInv'
<1>1. PICK f : Follows(f)
  BY DEF SyncInv
<1>2. PICK l, n, c : l = log /\ n = Latest /\ c = cache
  OBVIOUS
<1>3. /\ Len(l) \in Nat /\ n \in Nat /\ n >= 1 /\ f[0] = FreshState /\ Upto(l, 0, 0)
  BY <1>1, <1>2, ChainFacts
<1>4. /\ c.version \in {0, 3} /\ (c.version = 0 => c = Nothing)
      /\ (c.version = 3 => c.cursor \in 1 .. n) /\ c \in AccountState
  BY <1>2 DEF SyncInv, Legs, CacheVersions, TypeInv, TInv, TypeOK
<1>5. PICK p \in AccountState : p = Prior
  BY <1>2, <1>4, Values DEF Prior
<1>6. p.version = 3 /\ p.cursor \in 0 .. n
      /\ ((p = FreshState /\ p.cursor = 0) \/ (p = c /\ c.version = 3))
  BY <1>2, <1>3, <1>4, <1>5, Values DEF Prior
<1>7. PICK i \in Tab : i = Idle
  BY Values
<1>8. PICK leg, pc : leg = (IF Umbra THEN "history" ELSE "tail")
                     /\ pc = (IF Umbra THEN "history" ELSE "health")
  OBVIOUS
<1>9. PICK w : w = [i EXCEPT !.goal = goal, !.state = p, !.leg = leg, !.pc = pc]
  OBVIOUS
<1>10. Becomes(t, w)
  <2>1. leg = IF Umbra THEN "history" ELSE IF p.version < 2 THEN "releases" ELSE "tail"
    BY <1>6, <1>8
  <2>2. pc = IF Umbra THEN "history" ELSE "health"
    BY <1>8
  <2> QED BY <1>5, <1>7, <1>9, <2>1, <2>2 DEF SyncStart, Prior
<1>11. w.pc = pc /\ w.leg = leg /\ w.state = p /\ w.recovered = i.recovered
  BY <1>7, <1>9 DEF Tab
<1>12. w.recovered = {}
  BY <1>7, <1>11, Values
<1>13. Orderly(w, c)
  BY <1>2, <1>6, <1>8, <1>11 DEF Orderly, LegOf, OnTime, LandsLater, Syncing
<1>14. TabFollows(l, n, indexed, f, w)
  <2>1. CASE Umbra
    BY <1>8, <1>11, <2>1 DEF TabFollows, Syncing
  <2>2. CASE ~Umbra
    <3>1. \E b \in 0 .. Len(l) : Upto(l, b, p.cursor) /\ Near(l, f, p, b, n)
      <4>1. CASE p = FreshState /\ p.cursor = 0
        <5>1. Near(l, f, p, 0, n)
          BY <1>3, <4>1 DEF Near
        <5>2. 0 \in 0 .. Len(l)
          BY <1>3
        <5> QED BY <1>3, <4>1, <5>1, <5>2
      <4>2. CASE p = c /\ c.version = 3
        <5>1. Single
          BY <2>2 DEF Reliable
        <5>2. CacheFollows(l, n, f, c)
          BY <1>1, <1>2, <5>1 DEF Follows
        <5> QED BY <4>2, <5>2 DEF CacheFollows
      <4> QED BY <1>6, <4>1, <4>2
    <3>2. PICK b \in 0 .. Len(l) : Upto(l, b, p.cursor) /\ Near(l, f, p, b, n)
      BY <3>1
    <3>3. \A j \in 1 .. b : l[j].ledger <= n
      <4> SUFFICES ASSUME NEW j \in 1 .. b PROVE l[j].ledger <= n
        OBVIOUS
      <4>1. j \in 1 .. Len(l) /\ j <= b
        BY <1>3
      <4>2. l[j].ledger <= p.cursor
        BY <3>2, <4>1 DEF Upto
      <4>3. l[j].ledger \in Nat /\ p.cursor \in Nat /\ p.cursor <= n
        BY <1>1, <1>2, <1>3, <1>6, <4>1, ChainFacts
      <4> QED BY <1>3, <4>2, <4>3
    <3>4. BaseAt(l, f, w, b, n)
      BY <1>11, <1>12, <2>2, <3>2, <3>3 DEF BaseAt
    <3>5. w.pc = "health" /\ RestIsRecent(l, w, b)
      BY <1>8, <1>11, <2>2 DEF RestIsRecent
    <3> QED BY <3>4, <3>5 DEF TabFollows
  <2> QED BY <2>1, <2>2
<1>15. UNCHANGED <<account, log, truth, indexed, cache>> /\ CacheVersions'
  BY CacheSame DEF SyncStart, sourceVars
<1>16. Single => CacheFollows(log, Latest, f, cache')
  BY <1>1, <1>15 DEF Follows
<1> QED BY <1>1, <1>2, <1>10, <1>13, <1>14, <1>15, <1>16, TabSync

\* Umbra's answer is what its events replay to.
LEMMA HistorySync ==
  ASSUME SyncInv, NEW t \in Tabs, FetchHistory(t), TypeInv'
  PROVE  SyncInv'
<1>1. PICK f : Follows(f)
  BY DEF SyncInv
<1>2. PICK l, n, b, v : l = log /\ n = Latest /\ b = recorded /\ v = tab[t]
  OBVIOUS
<1>3. /\ l \in Seq(Event) /\ Len(l) \in Nat /\ n \in Nat /\ n >= 1 /\ History(l, f)
      /\ f[0] = FreshState /\ f \in [0 .. Len(l) -> AccountState]
      /\ \A i \in 1 .. Len(l) : l[i].ledger \in Nat
  BY <1>1, <1>2, ChainFacts
<1>4. b \in 0 .. Len(l) /\ b \in Nat /\ v \in Tab
  <2>1. TInv
    BY DEF SyncInv, TypeInv
  <2>2. b \in 0 .. Len(l) /\ v \in Tab
    BY <1>2, <2>1, Facts
  <2> QED BY <1>3, <2>2
<1>5. Umbra
  BY <1>2 DEF SyncInv, Legs, Orderly, LegOf, FetchHistory, At
<1>6. PICK s : s = Replay(FreshState, Run(0, b), {})
  OBVIOUS
<1>7. Run(0, b) = [i \in 1 .. b |-> i]
  BY <1>4 DEF Run
<1>8. Matches(s, f[b]) /\ s.cursor = 0
  <2>1. Agrees(FreshState, f[0], 0, 0)
    BY <1>3 DEF Agrees
  <2>2. 0 \in 0 .. b /\ 0 <= b /\ 0 \in Nat /\ ~(0 > 0)
    BY <1>4
  <2>3. Matches(Replay(FreshState, Run(0, b), {}), f[b])
    BY <1>2, <1>3, <1>4, <2>1, <2>2, Values, RunReplay
  <2>4. Run(0, b) \in Seq(DOMAIN log)
    <3>1. \A i \in 1 .. b : i \in DOMAIN log
      BY <1>2, <1>3, <1>4
    <3> QED BY <1>4, <1>7, <3>1
  <2>5. Replay(FreshState, Run(0, b), {}).cursor = FreshState.cursor
    BY <1>2, <1>3, <2>4, Values, ReplayType
  <2> QED BY <1>6, <2>3, <2>5, Values
<1>9. PICK w : w = [v EXCEPT !.pc = "health", !.leg = "tail", !.state = s,
                             !.recovered = 1 .. b, !.asOf = n]
  OBVIOUS
<1>10. Becomes(t, w)
  BY <1>2, <1>6, <1>7, <1>9 DEF FetchHistory
<1>11. /\ w.pc = "health" /\ w.leg = "tail" /\ w.state = s /\ w.recovered = 1 .. b /\ w.asOf = n
  BY <1>4, <1>9 DEF Tab
<1>12. MaxDelay \in Nat /\ MaxLag \in Nat
  BY Constants
<1>13. Orderly(w, cache)
  <2>1. n <= n /\ n <= n + MaxDelay /\ 0 \in 0 .. n
    BY <1>3, <1>12
  <2> QED BY <1>2, <1>8, <1>11, <2>1 DEF Orderly, LegOf, OnTime, LandsLater
<1>14. ServicesFollow
  BY DEF SyncInv, TypeInv, SourceInv
<1>15. BaseAt(l, f, w, b, n)
  <2>1. Near(l, f, s, b, n)
    BY <1>8 DEF Matches, Near
  <2>2. \A i \in 1 .. b : l[i].ledger <= n
    BY <1>2, <1>14 DEF ServicesFollow
  <2> QED BY <1>5, <1>8, <1>11, <2>1, <2>2 DEF BaseAt
<1>16. RestIsRecent(l, w, b)
  <2> SUFFICES ASSUME NEW i \in (b + 1) .. Len(l) PROVE l[i].ledger > n - MaxLag
    BY <1>11 DEF RestIsRecent
  <2>1. b # Len(l) /\ b + 1 \in 1 .. Len(l) /\ i \in 1 .. Len(l) /\ b + 1 <= i
    BY <1>3, <1>4
  <2>2. RecordedLedger = l[b + 1].ledger - 1
    BY <1>2, <2>1 DEF RecordedLedger
  <2>3. n <= RecordedLedger + MaxLag
    BY <1>2, <1>5, <1>14 DEF ServicesFollow
  <2>4. PICK x \in Nat, y \in Nat : x = l[b + 1].ledger /\ y = l[i].ledger
    BY <1>3, <2>1
  <2>5. x <= y
    BY <1>2, <2>1, <2>4 DEF SyncInv, TypeInv, SourceInv, LogInOrder
  <2>6. n <= (x - 1) + MaxLag
    BY <2>2, <2>3, <2>4
  <2>7. y > n - MaxLag
    BY <1>3, <1>12, <2>5, <2>6
  <2> QED BY <2>4, <2>7
<1>17. TabFollows(l, n, indexed, f, w)
  BY <1>4, <1>11, <1>15, <1>16 DEF TabFollows
<1>18. UNCHANGED <<account, log, truth, indexed, cache>> /\ CacheVersions'
  BY CacheSame DEF FetchHistory, sourceVars
<1>19. Single => CacheFollows(log, Latest, f, cache')
  BY <1>1, <1>18 DEF Follows
<1> QED BY <1>1, <1>2, <1>10, <1>13, <1>17, <1>18, <1>19, TabSync

\* The first ledger needed follows the cursor, whether there is one or not.
LEMMA NextLedger ==
  ASSUME NEW w \in Tab, w.leg = "tail"
  PROVE  Cursor(w) = w.state.cursor /\ Cursor(w) \in Nat /\ NextNeeded(w) = w.state.cursor + 1
<1>1. w.state.cursor \in Nat
  BY TabFields, StateFields
<1> QED BY <1>1 DEF Cursor, NextNeeded, FromLedger

\* The window reaches back far enough for whoever does not ask the indexer.
LEMMA WindowCovers ==
  ASSUME Covered, ~Indexer, SyncInv, NEW f, Follows(f), NEW l, l = log, NEW n, n = Latest,
         NEW w, w.asOf \in Nat, Umbra => n <= w.asOf + MaxDelay,
         NEW b \in 0 .. Len(l), RestIsRecent(l, w, b), NEW c, Upto(l, c, Oldest), Oldest # 1
  PROVE  Umbra /\ c <= b
<1>1. /\ n \in Nat /\ n >= 1 /\ (n = 1 \/ n <= MaxHead) /\ Len(l) \in Nat
      /\ \A i \in 1 .. Len(l) : l[i].ledger \in Nat
  BY ChainFacts
<1>2. /\ MaxHead \in Nat /\ MaxLag \in Nat /\ MaxDelay \in Nat /\ Retention \in Nat
      /\ Retention >= 1
  BY Constants
<1>3. n > Retention /\ Oldest = n - Retention + 1
  BY <1>1, <1>2 DEF Oldest
<1>4. ~(MaxHead <= Retention)
  BY <1>1, <1>2, <1>3
<1>5. Umbra /\ MaxLag + MaxDelay < Retention
  BY <1>4 DEF Covered
<1>6. c <= b
  <2> SUFFICES ASSUME c > b PROVE FALSE
    BY DEF Upto
  <2>1. c \in 1 .. Len(l) /\ c \in (b + 1) .. Len(l) /\ c <= c
    BY <1>1 DEF Upto
  <2>2. PICK q \in Nat : q = l[c].ledger
    BY <1>1, <2>1
  <2>3. q <= n - Retention + 1
    BY <1>3, <2>1, <2>2 DEF Upto
  <2>4. q > w.asOf - MaxLag
    BY <1>5, <2>1, <2>2 DEF RestIsRecent
  <2>5. n <= w.asOf + MaxDelay
    BY <1>5
  <2> QED BY <1>1, <1>2, <1>5, <2>3, <2>4, <2>5
<1> QED BY <1>5, <1>6

\* What ReadHealth makes of a tab.
HealthRead(v, w, oldest) ==
  /\ w.state = v.state /\ w.leg = v.leg /\ w.recovered = v.recovered /\ w.asOf = v.asOf
  /\ w.fetched = << >>
  /\ w.pc = IF NeedsBackfill(v, oldest) THEN "backfill" ELSE "tail"
  /\ w.start = IF NeedsBackfill(v, oldest) THEN oldest + SeamMargin
               ELSE IF Cursor(v) # 0 THEN Cursor(v) + 1 ELSE ColdStart(oldest)

LEMMA HealthBecomes ==
  ASSUME TInv, NEW t \in Tabs, NEW oldest, ReadHealth(t, oldest), NEW v, v = tab[t]
  PROVE  \E w : Becomes(t, w) /\ HealthRead(v, w, oldest)
<1>1. v \in Tab
  BY Facts
<1>2. PICK pc, start :
         /\ pc = IF NeedsBackfill(v, oldest) THEN "backfill" ELSE "tail"
         /\ start = IF NeedsBackfill(v, oldest) THEN oldest + SeamMargin
                    ELSE IF Cursor(v) # 0 THEN Cursor(v) + 1 ELSE ColdStart(oldest)
  OBVIOUS
<1>3. PICK w : w = [v EXCEPT !.pc = pc, !.fetched = << >>, !.start = start]
  OBVIOUS
<1>4. Becomes(t, w)
  BY <1>2, <1>3 DEF ReadHealth
<1>5. /\ w.state = v.state /\ w.leg = v.leg /\ w.recovered = v.recovered /\ w.asOf = v.asOf
      /\ w.fetched = << >> /\ w.pc = pc /\ w.start = start
  BY <1>1, <1>3 DEF Tab
<1> QED BY <1>2, <1>4, <1>5 DEF HealthRead

LEMMA HealthSync ==
  ASSUME Reliable, SyncInv, NEW t \in Tabs, NEW oldest, ReadHealth(t, oldest), TypeInv'
  PROVE  SyncInv'
<1>1. PICK f : Follows(f)
  BY DEF SyncInv
<1>2. PICK l, n, v, x : l = log /\ n = Latest /\ v = tab[t] /\ x = indexed
  OBVIOUS
<1>3. /\ Len(l) \in Nat /\ n \in Nat /\ n >= 1 /\ f[0] = FreshState
      /\ Upto(l, 0, 0) /\ Upto(l, 0, 1) /\ Ordered(l)
      /\ \A i \in 1 .. Len(l) : l[i].ledger \in Nat
  BY <1>1, <1>2, ChainFacts
<1>4. TInv /\ v \in Tab /\ Oldest \in 1 .. n /\ x \in 1 .. n
  <2>1. TInv
    BY DEF SyncInv, TypeInv
  <2> QED BY <1>2, <2>1, Facts
<1>5. v.pc = "health" /\ oldest \in (IF Indexer \/ Cursor(v) = 0 THEN {0, Oldest} ELSE {0})
  BY <1>2 DEF ReadHealth, At
<1>6. LegOf(v, cache) /\ OnTime(v) /\ v.leg = "tail"
  BY <1>2, <1>5 DEF SyncInv, Legs, Orderly, LegOf, Syncing
<1>7. PICK cur \in Nat : cur = v.state.cursor
  BY <1>4, TabFields, StateFields
<1>8. Cursor(v) = cur /\ NextNeeded(v) = cur + 1 /\ cur <= n
  BY <1>2, <1>4, <1>6, <1>7, NextLedger DEF LegOf
<1>9. PICK b \in 0 .. Len(l) : BaseAt(l, f, v, b, n) /\ RestIsRecent(l, v, b)
  BY <1>1, <1>2, <1>5 DEF Follows, TabFollows, Syncing
<1>10. PICK w : Becomes(t, w) /\ HealthRead(v, w, oldest)
  BY <1>2, <1>4, HealthBecomes
<1>11. PICK z : z = w.start
  OBVIOUS
<1>12. /\ w.state = v.state /\ w.leg = "tail" /\ w.fetched = << >>
       /\ w.pc \in {"backfill", "tail"} /\ BaseAt(l, f, w, b, n)
  BY <1>6, <1>9, <1>10 DEF HealthRead, BaseAt
<1>13. Umbra => cur = 0
  BY <1>7, <1>9 DEF BaseAt
<1>14. ~Umbra => Upto(l, b, cur)
  BY <1>7, <1>9 DEF BaseAt
<1>15. SeamMargin \in Nat /\ MaxLag \in Nat /\ Retention \in Nat /\ MaxDelay \in Nat
  BY Constants
<1>16. Orderly(w, cache)
  BY <1>6, <1>12 DEF Orderly, LegOf, OnTime, LandsLater, Syncing
<1>17. ASSUME NeedsBackfill(v, oldest) PROVE TabFollows(l, n, x, f, w)
  <2>1. /\ Indexer /\ oldest = Oldest /\ cur + 1 < oldest
        /\ z = oldest + SeamMargin /\ w.pc = "backfill"
    BY <1>5, <1>8, <1>10, <1>11, <1>17 DEF NeedsBackfill, HealthRead
  <2>2. z - 1 <= x
    <3>1. oldest = n - Retention + 1
      BY <1>2, <1>3, <1>4, <1>7, <1>15, <2>1 DEF Oldest
    <3>2. MaxLag + SeamMargin <= Retention
      BY <2>1 DEF Reliable, Covered
    <3>3. n <= x + MaxLag
      BY <1>2, <2>1 DEF SyncInv, TypeInv, SourceInv, ServicesFollow
    <3> QED BY <1>3, <1>4, <1>15, <2>1, <3>1, <3>2, <3>3
  <2>3. PICK a \in 0 .. Len(l) : Upto(l, a, cur) /\ a <= b
    <3>1. CASE Umbra
      BY <1>3, <1>13, <3>1
    <3>2. CASE ~Umbra
      BY <1>14, <3>2
    <3> QED BY <3>1, <3>2
  <2>4. w.fetched = Run(a, a)
    <3>1. Run(a, a) = << >>
      BY <1>3, RunFacts, a \in Nat, a <= a
    <3> QED BY <1>12, <3>1
  <2>5. \A i \in 1 .. a : l[i].ledger <= z - 1
    <3> SUFFICES ASSUME NEW i \in 1 .. a PROVE l[i].ledger <= z - 1
      OBVIOUS
    <3>1. i \in 1 .. Len(l) /\ i <= a
      BY <1>3
    <3>2. l[i].ledger <= cur /\ l[i].ledger \in Nat
      BY <1>3, <2>3, <3>1 DEF Upto
    <3>3. PICK q \in Nat : q = l[i].ledger
      BY <3>2
    <3>4. cur <= z - 1
      BY <1>4, <1>7, <1>15, <2>1
    <3>5. q <= z - 1
      BY <1>4, <1>15, <2>1, <3>2, <3>3, <3>4
    <3> QED BY <3>3, <3>5
  <2>6. a <= a /\ w.state.cursor = cur
    BY <1>7, <1>12
  <2> QED BY <1>11, <1>12, <2>1, <2>2, <2>3, <2>4, <2>5, <2>6 DEF TabFollows, Syncing
<1>18. ASSUME ~NeedsBackfill(v, oldest) PROVE TabFollows(l, n, x, f, w)
  <2>1. /\ w.pc = "tail"
        /\ z = IF cur # 0 THEN cur + 1 ELSE ColdStart(oldest)
    BY <1>8, <1>10, <1>11, <1>18 DEF HealthRead
  <2>2. ~Umbra /\ cur = 0 => b = 0
    <3> SUFFICES ASSUME ~Umbra, cur = 0 PROVE b = 0
      OBVIOUS
    <3>1. Upto(l, b, 0)
      BY <1>14
    <3> QED BY <1>3, <3>1, 0 \in Int, 0 <= 0, UptoMonotone
  <2>3. \E c \in 0 .. Len(l) : /\ Upto(l, c, z - 1) /\ c <= b /\ (Umbra \/ c = b)
                               /\ z - 1 <= n
    <3>1. CASE cur # 0
      <4>1. ~Umbra /\ z - 1 = cur /\ cur <= n
        BY <1>8, <1>13, <2>1, <3>1
      <4>2. Upto(l, b, z - 1) /\ b <= b
        BY <1>14, <4>1
      <4> QED BY <4>1, <4>2
    <3>2. CASE cur = 0 /\ oldest = 0
      <4>1. z - 1 = 0
        BY <2>1, <3>2 DEF ColdStart, FromLedger
      <4>2. 0 \in 0 .. Len(l) /\ 0 <= b /\ z - 1 <= n
        BY <1>3, <4>1
      <4> QED BY <1>3, <2>2, <3>2, <4>1, <4>2
    <3>3. CASE cur = 0 /\ oldest = Oldest /\ Oldest = 1
      <4>1. z - 1 = 1
        BY <2>1, <3>3 DEF ColdStart, FromLedger
      <4>2. 0 \in 0 .. Len(l) /\ 0 <= b /\ z - 1 <= n
        BY <1>3, <4>1
      <4> QED BY <1>3, <2>2, <3>3, <4>1, <4>2
    <3>4. CASE cur = 0 /\ oldest = Oldest /\ Oldest # 1
      <4>1. PICK o \in Nat : o = Oldest
        BY <1>4
      <4>2. o >= 1 /\ o <= n /\ o # 1
        BY <1>3, <1>4, <3>4, <4>1
      <4>3. z - 1 = o
        BY <2>1, <3>4, <4>1, <4>2 DEF ColdStart, FromLedger
      <4>4. ~Indexer
        <5>1. Indexer => NeedsBackfill(v, oldest)
          BY <1>8, <3>4, <4>1, <4>2 DEF NeedsBackfill
        <5> QED BY <1>18, <5>1
      <4>5. PICK c \in 0 .. Len(l) : Upto(l, c, o)
        BY <1>3, o \in Int, UptoExists
      <4>6. v.asOf \in Nat /\ (Umbra => n <= v.asOf + MaxDelay)
        BY <1>2, <1>4, <1>5, <1>6, TabFields DEF OnTime
      <4>7. Umbra /\ c <= b
        <5>1. Covered
          BY DEF Reliable
        <5>2. Upto(l, c, Oldest)
          BY <4>1, <4>5
        <5> QED BY <1>1, <1>2, <1>9, <3>4, <4>4, <4>6, <5>1, <5>2, WindowCovers
      <4> QED BY <4>2, <4>3, <4>5, <4>7
    <3> QED BY <1>5, <1>8, <3>1, <3>2, <3>3, <3>4
  <2>4. PICK c \in 0 .. Len(l) : /\ Upto(l, c, z - 1) /\ c <= b /\ (Umbra \/ c = b)
                                 /\ z - 1 <= n
    BY <2>3
  <2>5. w.fetched = Run(c, c) /\ c <= c
    <3>1. Run(c, c) = << >>
      BY <1>3, RunFacts, c \in Nat, c <= c
    <3> QED BY <1>3, <1>12, <3>1
  <2>6. FetchedRun(l, w, b, c, c, z - 1)
    BY <2>4, <2>5 DEF FetchedRun
  <2> QED BY <1>11, <1>12, <2>1, <2>4, <2>6 DEF TabFollows, Syncing
<1>19. UNCHANGED <<account, log, truth, indexed, cache>> /\ CacheVersions'
  BY CacheSame DEF ReadHealth, sourceVars
<1>20. Single => CacheFollows(log, Latest, f, cache')
  BY <1>1, <1>19 DEF Follows
<1>21. TabFollows(log, Latest, indexed, f, w)
  BY <1>2, <1>17, <1>18
<1> QED BY <1>1, <1>10, <1>16, <1>19, <1>20, <1>21, TabSync

\* The events of consecutive ledgers are a run of places.
LEMMA LedgerRun ==
  ASSUME log \in Seq(Event), NEW lo \in Int, NEW hi \in Int, NEW a, NEW d,
         Upto(log, a, lo), Upto(log, d, hi)
  PROVE  InLedgers(lo + 1, hi) = (a + 1) .. d
<1>1. Len(log) \in Nat /\ DOMAIN log = 1 .. Len(log)
      /\ \A i \in 1 .. Len(log) : log[i].ledger \in Nat
  BY EventFields
<1>2. a \in 0 .. Len(log) /\ d \in 0 .. Len(log)
  BY DEF Upto
<1>3. ASSUME NEW i \in 1 .. Len(log)
      PROVE  log[i].ledger \in (lo + 1) .. hi <=> i \in (a + 1) .. d
  <2>1. PICK q \in Nat : q = log[i].ledger
    BY <1>1
  <2>2. (i <= a <=> q <= lo) /\ (i <= d <=> q <= hi)
    BY <2>1 DEF Upto
  <2>3. q \in (lo + 1) .. hi <=> (~(q <= lo) /\ q <= hi)
    OBVIOUS
  <2>4. i \in (a + 1) .. d <=> (~(i <= a) /\ i <= d)
    BY <1>1, <1>2
  <2> QED BY <2>1, <2>2, <2>3, <2>4
<1>4. \A i \in (a + 1) .. d : i \in 1 .. Len(log)
  BY <1>1, <1>2
<1> QED BY <1>1, <1>3, <1>4 DEF InLedgers

\* The rows left are the places after the last one fetched.
LEMMA RowsLeft ==
  ASSUME log \in Seq(Event), NEW v \in Tab, v.leg = "tail", NEW cur, cur = v.state.cursor,
         NEW hi \in Int, hi = LastBackfilled(v), hi <= indexed,
         \A i \in 1 .. Len(log) : log[i].type \in Served, indexed \in Nat,
         NEW a \in Nat, NEW c \in Nat, NEW d \in Nat, a <= c, c <= d,
         Upto(log, a, cur), Upto(log, d, hi), v.fetched = Run(a, c)
  PROVE  BackfillRows(v) = (c + 1) .. d
<1>1. NextNeeded(v) = cur + 1 /\ cur \in Int
  BY NextLedger
<1>2. InLedgers(NextNeeded(v), hi) = (a + 1) .. d
  BY <1>1, LedgerRun
<1>3. hi = IF LastBackfilled(v) < indexed THEN LastBackfilled(v) ELSE indexed
  OBVIOUS
<1>4. PICK last : last = PageCursor(v)
  OBVIOUS
<1>5. last = IF a = c THEN 0 ELSE c
  <2>1. /\ Run(a, c) = << >> <=> a = c
        /\ Len(Run(a, c)) = c - a /\ \A k \in 1 .. c - a : Run(a, c)[k] = a + k
    BY RunFacts
  <2>2. ASSUME a # c PROVE Run(a, c)[c - a] = c
    <3>1. c - a \in 1 .. c - a /\ a + (c - a) = c
      BY <2>2
    <3> QED BY <2>1, <3>1
  <2> QED BY <1>4, <2>1, <2>2 DEF PageCursor, Last
<1>6. d <= Len(log) /\ Len(log) \in Nat
  BY DEF Upto
<1>7. PICK m : m = InLedgers(NextNeeded(v), hi)
  OBVIOUS
<1>8. BackfillRows(v) = {i \in m : log[i].type \in Served /\ i > last}
  BY <1>3, <1>4, <1>7 DEF BackfillRows
<1>9. \A i \in (a + 1) .. d : i \in 1 .. Len(log)
  BY <1>6
<1>10. \A i \in (a + 1) .. d : log[i].type \in Served
  BY <1>9
<1>11. BackfillRows(v) = {i \in (a + 1) .. d : i > last}
  BY <1>2, <1>7, <1>8, <1>10
<1>12. {i \in (a + 1) .. d : i > last} = (c + 1) .. d
  <2>1. CASE a = c
    BY <1>5, <2>1
  <2>2. CASE a # c
    BY <1>5, <2>2
  <2> QED BY <2>1, <2>2
<1> QED BY <1>11, <1>12

LEMMA BackfillSync ==
  ASSUME Reliable, SyncInv, NEW t \in Tabs, BackfillPage(t), TypeInv'
  PROVE  SyncInv'
<1>1. PICK f : Follows(f)
  BY DEF SyncInv
<1>2. PICK l, n, v, x : l = log /\ n = Latest /\ v = tab[t] /\ x = indexed
  OBVIOUS
<1>3. /\ l \in Seq(Event) /\ Len(l) \in Nat /\ n \in Nat /\ Ordered(l)
      /\ \A i \in 1 .. Len(l) : l[i].ledger \in Nat
  BY <1>1, <1>2, ChainFacts
<1>4. v \in Tab /\ x \in 1 .. n
  <2>1. TInv
    BY DEF SyncInv, TypeInv
  <2> QED BY <1>2, <2>1, Facts
<1>5. v.pc = "backfill"
  BY <1>2 DEF BackfillPage, At
<1>6. LegOf(v, cache) /\ v.leg = "tail"
  BY <1>2, <1>5 DEF SyncInv, Legs, Orderly, LegOf, Syncing
<1>7. PICK cur \in Nat, z \in Nat : cur = v.state.cursor /\ z = v.start
  BY <1>4, TabFields, StateFields
<1>8. PICK b \in 0 .. Len(l) :
        /\ BaseAt(l, f, v, b, n)
        /\ Indexer /\ z - 1 <= x
        /\ \E a, c \in 0 .. Len(l) :
             /\ Upto(l, a, cur) /\ a <= b /\ a <= c
             /\ v.fetched = Run(a, c)
             /\ \A i \in 1 .. c : l[i].ledger <= z - 1
  BY <1>1, <1>2, <1>5, <1>7 DEF Follows, TabFollows, Syncing
<1>9. PICK a \in 0 .. Len(l), c \in 0 .. Len(l) :
             /\ Upto(l, a, cur) /\ a <= b /\ a <= c
             /\ v.fetched = Run(a, c)
             /\ \A i \in 1 .. c : l[i].ledger <= z - 1
  BY <1>8
<1>10. PICK hi \in Int : hi = z - 1
  BY <1>7
<1>11. PICK d \in 0 .. Len(l) : Upto(l, d, hi)
  BY <1>3, UptoExists
<1>12. c <= d
  <2> SUFFICES ASSUME c > d PROVE FALSE
    BY <1>3
  <2>1. c \in 1 .. Len(l) /\ ~(c <= d) /\ c \in 1 .. c
    BY <1>3
  <2>2. l[c].ledger <= z - 1 /\ ~(l[c].ledger <= hi)
    BY <1>9, <1>11, <2>1 DEF Upto
  <2> QED BY <1>10, <2>2
<1>13. PICK rows : rows = BackfillRows(v)
  OBVIOUS
<1>14. rows = (c + 1) .. d
  <2>1. \A i \in 1 .. Len(log) : log[i].type \in Served
    BY <1>8 DEF Reliable, Covered, SyncInv, TypeInv, SourceInv, AllServed
  <2>2. hi = LastBackfilled(v) /\ hi <= indexed /\ indexed \in Nat
    BY <1>2, <1>4, <1>7, <1>8, <1>10 DEF LastBackfilled
  <2>3. a \in Nat /\ c \in Nat /\ d \in Nat
    BY <1>3
  <2> QED BY <1>2, <1>3, <1>4, <1>6, <1>7, <1>9, <1>11, <1>12, <1>13, <2>1, <2>2, <2>3, RowsLeft
<1>15. InOrder(rows) = Run(c, d) /\ Cardinality(rows) = d - c
  BY <1>3, <1>12, <1>14, RunInOrder, c \in Nat, d \in Nat
<1>16. PICK e \in 0 .. Len(l) : /\ PageOf(rows) = Run(c, e) /\ c <= e /\ e <= d
                                /\ (Cardinality(rows) <= PageSize => e = d)
  <2>1. CASE Cardinality(rows) > PageSize
    <3>1. PageSize \in Nat /\ c + PageSize <= d /\ c + PageSize \in 0 .. Len(l) /\ c <= c + PageSize
      BY <1>3, <1>15, <2>1, Constants
    <3>2. SubSeq(Run(c, d), 1, PageSize) = Run(c, c + PageSize)
      BY <1>3, <3>1, RunPrefix, c \in Nat, d \in Nat
    <3>3. PageOf(rows) = Run(c, c + PageSize)
      BY <1>15, <2>1, <3>2 DEF PageOf
    <3>4. ~(Cardinality(rows) <= PageSize)
      BY <1>3, <1>15, <2>1, <3>1
    <3> QED BY <3>1, <3>3, <3>4
  <2>2. CASE ~(Cardinality(rows) > PageSize)
    <3>1. PageOf(rows) = Run(c, d)
      BY <1>15, <2>2 DEF PageOf
    <3>2. d <= d
      BY <1>3
    <3> QED BY <1>12, <3>1, <3>2
  <2> QED BY <2>1, <2>2
<1>17. PICK got : got = v.fetched \o PageOf(rows)
  OBVIOUS
<1>18. got = Run(a, e)
  <2>1. a \in Nat /\ c \in Nat /\ e \in Nat /\ a <= c /\ c <= e
    BY <1>3, <1>9, <1>16
  <2>2. Run(a, c) \o Run(c, e) = Run(a, e)
    BY <2>1, RunConcat
  <2>3. v.fetched = Run(a, c) /\ PageOf(rows) = Run(c, e)
    BY <1>9, <1>16
  <2> QED BY <1>17, <2>2, <2>3
<1>19. PICK pc : pc = IF Cardinality(rows) > PageSize THEN "backfill" ELSE "tail"
  OBVIOUS
<1>20. PICK w : w = [v EXCEPT !.pc = pc, !.fetched = got]
  OBVIOUS
<1>21. Becomes(t, w)
  BY <1>2, <1>13, <1>17, <1>19, <1>20, BackfillBecomes
<1>22. /\ w.pc = pc /\ w.fetched = got /\ w.state = v.state /\ w.leg = v.leg
       /\ w.recovered = v.recovered /\ w.start = z
  BY <1>4, <1>7, <1>20 DEF Tab
<1>23. pc = "backfill" \/ (pc = "tail" /\ e = d)
  <2>1. Cardinality(rows) \in Int /\ PageSize \in Int
    BY <1>3, <1>15, Constants
  <2> QED BY <1>16, <1>19, <2>1
<1>24. Orderly(w, cache)
  BY <1>6, <1>22, <1>23 DEF Orderly, LegOf, OnTime, LandsLater, Syncing
<1>25. BaseAt(l, f, w, b, n)
  BY <1>8, <1>22 DEF BaseAt
<1>26. a <= e
  BY <1>3, <1>9, <1>16
<1>27. TabFollows(l, n, x, f, w)
  <2>1. CASE pc = "backfill"
    <3>1. \A i \in 1 .. e : l[i].ledger <= z - 1
      <4> SUFFICES ASSUME NEW i \in 1 .. e PROVE l[i].ledger <= z - 1
        OBVIOUS
      <4>1. i \in 1 .. Len(l) /\ i <= d
        BY <1>3, <1>16
      <4> QED BY <1>10, <1>11, <4>1 DEF Upto
    <3>2. Upto(l, a, w.state.cursor)
      BY <1>7, <1>9, <1>22
    <3> QED BY <1>8, <1>9, <1>18, <1>22, <1>25, <1>26, <2>1, <3>1, <3>2 DEF TabFollows, Syncing
  <2>2. CASE pc = "tail" /\ e = d
    <3>1. z - 1 <= n
      BY <1>3, <1>4, <1>7, <1>8
    <3>2. Umbra \/ a = b
      <4> SUFFICES ASSUME ~Umbra PROVE a = b
        OBVIOUS
      <4>1. Upto(l, b, cur)
        BY <1>7, <1>8 DEF BaseAt
      <4>2. Upto(l, a, cur)
        BY <1>9
      <4>3. Len(l) \in Nat /\ \A i \in 1 .. Len(l) : l[i].ledger \in Nat
        BY <1>3
      <4> QED BY <4>1, <4>2, <4>3, UptoUnique
    <3>3. FetchedRun(l, w, b, a, e, z - 1)
      BY <1>9, <1>10, <1>11, <1>18, <1>22, <1>26, <2>2, <3>2 DEF FetchedRun
    <3> QED BY <1>22, <1>25, <2>2, <3>1, <3>3 DEF TabFollows, Syncing
  <2> QED BY <1>23, <2>1, <2>2
<1>28. UNCHANGED <<account, log, truth, indexed, cache>> /\ CacheVersions'
  BY CacheSame DEF BackfillPage, sourceVars
<1>29. Single => CacheFollows(log, Latest, f, cache')
  BY <1>1, <1>28 DEF Follows
<1> QED BY <1>1, <1>2, <1>21, <1>24, <1>27, <1>28, <1>29, TabSync

LEMMA TailSync ==
  ASSUME SyncInv, NEW t \in Tabs, FetchTail(t), TypeInv'
  PROVE  SyncInv'
<1>1. PICK f : Follows(f)
  BY DEF SyncInv
<1>2. PICK l, n, v, x : l = log /\ n = Latest /\ v = tab[t] /\ x = indexed
  OBVIOUS
<1>3. /\ l \in Seq(Event) /\ Len(l) \in Nat /\ n \in Nat /\ n >= 1 /\ Ordered(l)
      /\ \A i \in 1 .. Len(l) : l[i].ledger \in Nat
  BY <1>1, <1>2, ChainFacts
<1>4. v \in Tab
  <2>1. TInv
    BY DEF SyncInv, TypeInv
  <2> QED BY <1>2, <2>1, Facts
<1>5. v.pc = "tail"
  BY <1>2 DEF FetchTail, At
<1>6. LegOf(v, cache) /\ v.leg = "tail"
  BY <1>2, <1>5 DEF SyncInv, Legs, Orderly, LegOf, Syncing
<1>7. PICK z \in Nat : z = v.start
  BY <1>4, TabFields
<1>8. PICK b \in 0 .. Len(l) :
        /\ BaseAt(l, f, v, b, n) /\ z - 1 <= n
        /\ \E a, c \in 0 .. Len(l) : FetchedRun(l, v, b, a, c, z - 1)
  BY <1>1, <1>2, <1>5, <1>7 DEF Follows, TabFollows, Syncing
<1>9. PICK a \in 0 .. Len(l), c \in 0 .. Len(l) : FetchedRun(l, v, b, a, c, z - 1)
  BY <1>8
<1>10. PICK lo \in Int : lo = z - 1
  BY <1>7
<1>11. PICK e \in 0 .. Len(l) : Upto(l, e, n)
  BY <1>3, n \in Int, UptoExists
<1>12. /\ a <= b /\ a <= c /\ (Umbra \/ a = b) /\ v.fetched = Run(a, c) /\ Upto(l, c, lo)
  BY <1>9, <1>10 DEF FetchedRun
<1>13. c <= e
  <2>1. lo <= n /\ n \in Int
    BY <1>3, <1>8, <1>10
  <2> QED BY <1>3, <1>11, <1>12, <2>1, UptoMonotone
<1>14. PICK rows : rows = InLedgers(z, n)
  OBVIOUS
<1>15. rows = (c + 1) .. e
  <2>1. z = lo + 1 /\ n \in Int
    BY <1>3, <1>7, <1>10
  <2>2. Upto(log, c, lo) /\ Upto(log, e, n) /\ log \in Seq(Event)
    BY <1>2, <1>3, <1>11, <1>12
  <2>3. InLedgers(lo + 1, n) = (c + 1) .. e
    BY <2>1, <2>2, LedgerRun
  <2> QED BY <1>14, <2>1, <2>3
<1>16. InOrder(rows) = Run(c, e)
  BY <1>3, <1>13, <1>15, RunInOrder, c \in Nat, e \in Nat
<1>17. PICK got : got = v.fetched \o InOrder(rows)
  OBVIOUS
<1>18. got = Run(a, e) /\ a <= e
  <2>1. a \in Nat /\ c \in Nat /\ e \in Nat /\ a <= c /\ c <= e
    BY <1>3, <1>12, <1>13
  <2>2. Run(a, c) \o Run(c, e) = Run(a, e)
    BY <2>1, RunConcat
  <2> QED BY <1>12, <1>16, <1>17, <2>1, <2>2
<1>19. PICK w : w = [v EXCEPT !.pc = "fetched", !.asOf = n, !.fetched = got]
  OBVIOUS
<1>20. Becomes(t, w)
  BY <1>2, <1>7, <1>14, <1>17, <1>19 DEF FetchTail
<1>21. /\ w.pc = "fetched" /\ w.asOf = n /\ w.fetched = got /\ w.state = v.state
       /\ w.leg = v.leg /\ w.recovered = v.recovered
  BY <1>4, <1>19 DEF Tab
<1>22. Orderly(w, cache)
  BY <1>6, <1>21 DEF Orderly, LegOf, OnTime, LandsLater
<1>23. BaseAt(l, f, w, b, w.asOf)
  BY <1>8, <1>21 DEF BaseAt
<1>24. FetchedRun(l, w, b, a, e, w.asOf)
  BY <1>11, <1>12, <1>18, <1>21 DEF FetchedRun
<1>25. w.asOf \in 1 .. n
  BY <1>3, <1>21
<1>26. TabFollows(l, n, x, f, w)
  BY <1>21, <1>23, <1>24, <1>25 DEF TabFollows
<1>27. UNCHANGED <<account, log, truth, indexed, cache>> /\ CacheVersions'
  BY CacheSame DEF FetchTail, sourceVars
<1>28. Single => CacheFollows(log, Latest, f, cache')
  BY <1>1, <1>27 DEF Follows
<1> QED BY <1>1, <1>2, <1>20, <1>22, <1>26, <1>27, <1>28, TabSync

\* A sync that completes stores the openings of its last ledger.
LEMMA SaveMatches ==
  ASSUME SyncInv, NEW f, Follows(f), NEW t \in Tabs, SyncSave(t), NEW l, l = log,
         NEW n, n = Latest, NEW v, v = tab[t], NEW s, s = Stored(v)
  PROVE  /\ s.cursor \in 1 .. n /\ s.version = 3 /\ Matches(s, truth[s.cursor])
         /\ \E c \in 0 .. Len(l) : Upto(l, c, s.cursor) /\ Matches(s, f[c])
<1>1. /\ l \in Seq(Event) /\ Len(l) \in Nat /\ n \in Nat /\ n >= 1 /\ History(l, f)
      /\ f \in [0 .. Len(l) -> AccountState]
      /\ \A i \in 1 .. Len(l) : l[i].ledger \in Nat
  BY ChainFacts
<1>2. v \in Tab /\ v.fetched \in Seq(DOMAIN l)
  <2>1. TInv
    BY DEF SyncInv, TypeInv
  <2> QED BY <2>1, Facts
<1>3. v.pc = "fetched"
  BY DEF SyncSave, At
<1>4. PICK m : m = v.asOf
  OBVIOUS
<1>5. PICK b \in 0 .. Len(l) :
        /\ BaseAt(l, f, v, b, m) /\ m \in 1 .. n
        /\ \E a, c \in 0 .. Len(l) : FetchedRun(l, v, b, a, c, m)
  BY <1>3, <1>4 DEF Follows, TabFollows, Syncing
<1>6. PICK a \in 0 .. Len(l), c \in 0 .. Len(l) : FetchedRun(l, v, b, a, c, m)
  BY <1>5
<1>7. /\ a <= b /\ a <= c /\ (Umbra \/ a = b) /\ v.fetched = Run(a, c) /\ Upto(l, c, m)
  BY <1>6 DEF FetchedRun
<1>8. a \in Nat /\ b \in Nat /\ c \in Nat /\ m \in Nat
  BY <1>1, <1>5
<1>9. b <= c
  <2> SUFFICES ASSUME b > c PROVE FALSE
    BY <1>8
  <2>1. b \in 1 .. Len(l) /\ b \in 1 .. b /\ ~(b <= c)
    BY <1>1, <1>8
  <2>2. l[b].ledger <= m
    BY <1>5, <2>1 DEF BaseAt
  <2>3. ~(l[b].ledger <= m)
    BY <1>7, <2>1 DEF Upto
  <2> QED BY <2>2, <2>3
<1>10. PICK o \in AccountState : o = v.state
  BY <1>2, TabFields
<1>11. Near(l, f, o, b, m)
  BY <1>5, <1>10 DEF BaseAt
<1>12. \E p \in 0 .. c : (p > b => Own(l[p])) /\ Agrees(o, f[b], b, p)
  <2>1. o.registered = f[b].registered /\ o.receiving = f[b].receiving
    BY <1>11 DEF Near
  <2>2. CASE o.spendable = f[b].spendable
    <3>1. Agrees(o, f[b], b, 0)
      BY <2>1, <2>2 DEF Agrees
    <3>2. 0 \in 0 .. c /\ ~(0 > b)
      BY <1>8
    <3> QED BY <3>1, <3>2
  <2>3. CASE o.spendable # f[b].spendable
    <3>1. PICK p \in (b + 1) .. Len(l) : Own(l[p]) /\ l[p].ledger <= m
      BY <1>11, <2>3 DEF Near
    <3>2. p \in 1 .. Len(l) /\ p > b
      BY <1>1, <1>8
    <3>3. p <= c
      BY <1>7, <3>1, <3>2 DEF Upto
    <3>4. p \in 0 .. c
      BY <1>8, <3>2, <3>3
    <3>5. Agrees(o, f[b], b, p)
      BY <2>1, <3>2 DEF Agrees
    <3> QED BY <3>1, <3>4, <3>5
  <2> QED BY <2>2, <2>3
<1>13. PICK p \in 0 .. c : (p > b => Own(l[p])) /\ Agrees(o, f[b], b, p)
  BY <1>12
<1>14. PICK skipped : skipped = v.recovered
  OBVIOUS
<1>15. skipped = 1 .. b \/ (skipped = {} /\ a = b)
  BY <1>5, <1>7, <1>14 DEF BaseAt
<1>16. PICK r : r = Replay(o, Run(a, c), skipped)
  OBVIOUS
<1>17. Matches(r, f[c])
  <2>1. log \in Seq(Event) /\ History(log, f) /\ c \in 0 .. Len(log)
    BY <1>1
  <2>2. p > b => Own(log[p])
    BY <1>13
  <2> QED BY <1>7, <1>8, <1>9, <1>13, <1>15, <1>16, <2>1, <2>2, RunReplay
<1>18. r = Replay(v.state, v.fetched, Skipped(v))
  BY <1>7, <1>10, <1>14, <1>16 DEF Skipped
<1>19. /\ s.registered = r.registered /\ s.spendable = r.spendable /\ s.receiving = r.receiving
       /\ s.cursor = m /\ s.version = 3
  BY <1>1, <1>2, <1>4, <1>18, StoredFields
<1>20. Matches(s, f[c])
  BY <1>17, <1>19 DEF Matches
<1>21. Matches(f[c], truth[m])
  BY <1>5, <1>7 DEF Follows, ChainFollows
<1>22. Matches(s, truth[m])
  BY <1>20, <1>21 DEF Matches
<1> QED BY <1>5, <1>7, <1>19, <1>20, <1>22

LEMMA SaveSync ==
  ASSUME SyncInv, NEW t \in Tabs, SyncSave(t), TypeInv'
  PROVE  SyncInv'
<1>1. PICK f : Follows(f)
  BY DEF SyncInv
<1>2. PICK l, n, v : l = log /\ n = Latest /\ v = tab[t]
  OBVIOUS
<1>3. PICK s : s = Stored(v)
  OBVIOUS
<1>4. /\ s.cursor \in 1 .. n /\ s.version = 3
      /\ \E c \in 0 .. Len(l) : Upto(l, c, s.cursor) /\ Matches(s, f[c])
  BY <1>1, <1>2, <1>3, SaveMatches
<1>5. UNCHANGED <<account, log, truth, indexed>> /\ cache' = s /\ n \in Nat
  BY <1>1, <1>2, <1>3, ChainFacts DEF SyncSave, Stored, sourceVars
<1>6. CacheVersions'
  BY <1>2, <1>4, <1>5 DEF CacheVersions, Latest
<1>7. CacheFollows(l, n, f, s)
  BY <1>4 DEF CacheFollows, Near, Matches
<1>8. PICK i \in Tab : i = Idle
  BY Values
<1>9. PICK w : w = IF v.goal = "refresh" THEN i
                   ELSE [i EXCEPT !.pc = "verify", !.goal = v.goal, !.state = s]
  OBVIOUS
<1>10. Becomes(t, w)
  BY <1>2, <1>3, <1>8, <1>9 DEF SyncSave, Stored
<1>11. w = i \/ (w.pc = "verify" /\ w.state = s)
  BY <1>8, <1>9 DEF Tab
<1>12. Orderly(w, s) /\ TabFollows(l, n, indexed, f, w)
  <2>1. CASE w = i
    BY <1>2, <1>8, <2>1, IdleOrderly
  <2>2. CASE w.pc = "verify" /\ w.state = s
    <3>1. s.cursor \in 0 .. n
      BY <1>4, <1>5
    <3> QED BY <1>2, <1>4, <2>2, <3>1 DEF Orderly, LegOf, OnTime, LandsLater, Syncing, TabFollows
  <2> QED BY <1>11, <2>1, <2>2
<1> QED BY <1>1, <1>2, <1>4, <1>5, <1>6, <1>7, <1>10, <1>12, TabSync

\* A tab that gives up leaves everything else as it was.
LEMMA EndsSync ==
  ASSUME SyncInv, NEW t \in Tabs, Becomes(t, Idle), UNCHANGED <<sourceVars, cache>>, TypeInv'
  PROVE  SyncInv'
<1>1. PICK f : Follows(f)
  BY DEF SyncInv
<1>2. UNCHANGED <<account, log, truth, indexed, cache>> /\ CacheVersions'
  BY CacheSame DEF sourceVars
<1>3. PICK c : c = cache /\ c = cache'
  BY <1>2
<1>4. Orderly(Idle, c) /\ TabFollows(log, Latest, indexed, f, Idle)
  BY IdleOrderly
<1>5. Single => CacheFollows(log, Latest, f, cache')
  BY <1>1, <1>2 DEF Follows
<1>6. PICK w : w = Idle
  OBVIOUS
<1> QED BY <1>1, <1>2, <1>3, <1>4, <1>5, <1>6, TabSync

\* No event has the opening a witness has just blinded with a fresh salt.
LEMMA VerifySync ==
  ASSUME SyncInv, NEW t \in Tabs, Verify(t), TypeInv'
  PROVE  SyncInv'
<1>1. PICK f : Follows(f)
  BY DEF SyncInv
<1>2. PICK l, n, v, m : l = log /\ n = Latest /\ v = tab[t] /\ m = salt
  OBVIOUS
<1>3. v \in Tab /\ m \in Nat
  <2>1. TInv
    BY DEF SyncInv, TypeInv
  <2> QED BY <1>2, <2>1, Facts
<1>4. v.pc = "verify"
  BY <1>2 DEF Verify, At
<1>5. PICK q, next : q = v.state.spendable.v - 1 /\ next = Committed(q, m + 1)
  OBVIOUS
<1>6. next.r = {m + 1}
  BY <1>5 DEF Committed
<1>7. PICK tx : tx = [type |-> v.goal, spent |-> v.state.spendable, next |-> next]
  OBVIOUS
<1>8. tx.next = next
  BY <1>7
<1>9. PICK w : w = [v EXCEPT !.pc = "prove", !.tx = tx]
  OBVIOUS
<1>10. Becomes(t, w) /\ UNCHANGED <<account, log, truth, indexed, cache>>
  BY <1>2, <1>5, <1>7, <1>9 DEF Verify
<1>11. w.pc = "prove" /\ w.tx = tx /\ w.state = v.state
  BY <1>3, <1>9 DEF Tab
<1>12. LegOf(v, cache)
  BY <1>2 DEF SyncInv, Legs, Orderly
<1>13. \A i \in 1 .. Len(log) : log[i].checkpoint # tx.next
  <2> SUFFICES ASSUME NEW i \in 1 .. Len(log), log[i].checkpoint = tx.next PROVE FALSE
    OBVIOUS
  <2>1. log[i].checkpoint.r \subseteq (-m) .. m
    BY <1>2 DEF SyncInv, TypeInv, SourceInv, LogDrawn, WithSalts
  <2>2. m + 1 \in (-m) .. m
    BY <1>6, <1>8, <2>1
  <2> QED BY <1>3, <2>2
<1>14. Orderly(w, cache)
  BY <1>4, <1>11, <1>12, <1>13 DEF Orderly, LegOf, OnTime, LandsLater, Syncing
<1>15. TabFollows(log, Latest, indexed, f, w)
  BY <1>11 DEF TabFollows, Syncing
<1>16. CacheVersions' /\ (Single => CacheFollows(log, Latest, f, cache'))
  BY <1>1, <1>10, CacheSame DEF Follows
<1>17. PICK c : c = cache /\ c = cache'
  BY <1>10
<1> QED BY <1>1, <1>10, <1>14, <1>15, <1>16, <1>17, TabSync

LEMMA SubmitSync ==
  ASSUME SyncInv, NEW t \in Tabs, Submit(t), TypeInv'
  PROVE  SyncInv'
<1>1. PICK f : Follows(f)
  BY DEF SyncInv
<1>2. PICK v : v = tab[t]
  OBVIOUS
<1>3. v \in Tab
  <2>1. TInv
    BY DEF SyncInv, TypeInv
  <2> QED BY <1>2, <2>1, Facts
<1>4. v.pc = "prove" /\ UNCHANGED <<sourceVars, cache>>
  BY <1>2 DEF Submit, At
<1>5. CASE v.tx.spent = truth[Latest].spendable
  <2>1. PICK w : w = [v EXCEPT !.pc = "poll"]
    OBVIOUS
  <2>2. Becomes(t, w)
    BY <1>2, <1>5, <2>1 DEF Submit, Await
  <2>3. w.pc = "poll" /\ w.tx = v.tx /\ w.state = v.state
    BY <1>3, <2>1 DEF Tab
  <2>4. LegOf(v, cache) /\ (Single => LandsLater(v, cache))
    BY <1>2 DEF SyncInv, Legs, Orderly
  <2>5. Orderly(w, cache)
    BY <1>4, <2>3, <2>4 DEF Orderly, LegOf, OnTime, LandsLater, Syncing
  <2>6. TabFollows(log, Latest, indexed, f, w)
    BY <2>3 DEF TabFollows, Syncing
  <2>7. UNCHANGED <<account, log, truth, indexed, cache>> /\ CacheVersions'
    BY <1>4, CacheSame DEF sourceVars
  <2>8. Single => CacheFollows(log, Latest, f, cache')
    BY <1>1, <2>7 DEF Follows
  <2>9. PICK c : c = cache /\ c = cache'
    BY <2>7
  <2> QED BY <1>1, <2>2, <2>5, <2>6, <2>7, <2>8, <2>9, TabSync
<1>6. CASE v.tx.spent # truth[Latest].spendable
  <2>1. Becomes(t, Idle)
    BY <1>2, <1>6 DEF Submit
  <2> QED BY <1>4, <2>1, EndsSync
<1> QED BY <1>5, <1>6

\* A confirmed spend is one that has landed after the ledger of the cache.
LEMMA ConfirmSync ==
  ASSUME SyncInv, NEW t \in Tabs, Confirm(t), TypeInv'
  PROVE  SyncInv'
<1>1. PICK f : Follows(f)
  BY DEF SyncInv
<1>2. PICK l, n, v, c : l = log /\ n = Latest /\ v = tab[t] /\ c = cache
  OBVIOUS
<1>3. /\ l \in Seq(Event) /\ Len(l) \in Nat /\ n \in Nat
      /\ \A i \in 1 .. Len(l) : l[i].ledger \in Nat
  BY <1>1, <1>2, ChainFacts
<1>4. v \in Tab /\ v.tx \in Tx /\ c \in AccountState
  <2>1. TInv
    BY DEF SyncInv, TypeInv
  <2> QED BY <1>2, <2>1, Facts, TabFields
<1>5. v.pc = "poll" /\ UNCHANGED <<account, log, truth, indexed>> /\ Becomes(t, Idle)
  BY <1>2 DEF Confirm, At, sourceVars
<1>6. PICK next : next = v.tx.next
  OBVIOUS
<1>7. PICK d : d = cache'
  OBVIOUS
<1>8. /\ d.spendable = next /\ d.registered = c.registered /\ d.receiving = c.receiving
      /\ d.cursor = c.cursor /\ d.version = c.version
  BY <1>2, <1>4, <1>6, <1>7 DEF Confirm, AccountState
<1>9. c.version = 3 /\ (Single => LandsLater(v, c)) /\ c.cursor \in 1 .. n
  BY <1>2, <1>5 DEF SyncInv, Legs, Orderly, LegOf, CacheVersions
<1>10. CacheVersions'
  BY <1>2, <1>5, <1>7, <1>8, <1>9 DEF CacheVersions, Latest
<1>11. Single => CacheFollows(l, n, f, d)
  <2> SUFFICES ASSUME Single PROVE CacheFollows(l, n, f, d)
    OBVIOUS
  <2>1. PICK b \in 0 .. Len(l) : Upto(l, b, c.cursor) /\ Near(l, f, c, b, n)
    BY <1>1, <1>2, <1>9 DEF Follows, CacheFollows
  <2>2. PICK i \in InLedgers(1, n) :
           l[i].from = Me /\ l[i].type = v.tx.type /\ l[i].checkpoint = next
    BY <1>2, <1>6 DEF Confirm, Landed
  <2>3. i \in 1 .. Len(l) /\ l[i].ledger <= n
    BY <1>2, <1>3 DEF InLedgers
  <2>4. l[i].ledger > c.cursor
    BY <1>2, <1>5, <1>6, <1>9, <2>2, <2>3 DEF LandsLater
  <2>5. ~(l[i].ledger <= c.cursor)
    BY <1>3, <1>9, <2>3, <2>4
  <2>6. ~(i <= b)
    BY <2>1, <2>3, <2>5 DEF Upto
  <2>7. i \in (b + 1) .. Len(l)
    BY <1>3, <2>3, <2>6
  <2>8. v.tx.type \in Spends
    BY <1>4 DEF Tx
  <2>9. Own(l[i])
    BY <2>2, <2>8, Names DEF Own
  <2>10. Near(l, f, d, b, n)
    BY <1>8, <2>1, <2>2, <2>3, <2>7, <2>9 DEF Near
  <2> QED BY <1>8, <2>1, <2>10 DEF CacheFollows
<1>12. Orderly(Idle, d) /\ TabFollows(log, Latest, indexed, f, Idle)
  BY IdleOrderly
<1>13. PICK w : w = Idle
  OBVIOUS
<1>14. cache.version = 3 => cache'.version = 3
  BY <1>2, <1>7, <1>8
<1> QED BY <1>1, <1>2, <1>5, <1>7, <1>10, <1>11, <1>12, <1>13, <1>14, TabSync

-----------------------------------------------------------------------------
(* The invariant holds *)

LEMMA HistoryExists == ASSUME log \in Seq(Event) PROVE \E f : History(log, f)
<1>1. PICK z \in Nat : z = Len(log)
  OBVIOUS
<1>2. PICK ids : ids = Run(0, z)
  OBVIOUS
<1>3. z - 0 = z /\ 0 <= z /\ \A k \in 1 .. z : 0 + k = k
  BY <1>1
<1>4. ids \in Seq(Nat) /\ Len(ids) = z /\ \A k \in 1 .. z : ids[k] = k
  BY <1>2, <1>3, RunFacts
<1>5. ids \in Seq(DOMAIN log)
  <2>1. DOMAIN log = 1 .. z
    BY <1>1
  <2> QED BY <1>4, <2>1
<1>6. FreshState \in AccountState
  BY Values
<1>7. PICK h \in [0 .. Len(ids) -> AccountState] : Plays(h, FreshState, ids, {})
  BY <1>5, <1>6, RunExists
<1>8. h[0] = FreshState /\ \A i \in 1 .. z : h[i] = Apply(h[i - 1], log[i])
  <2>1. h[0] = FreshState /\ \A i \in 1 .. z : h[i] = Played(h[i - 1], ids[i], {})
    BY <1>4, <1>7 DEF Plays
  <2> QED BY <1>4, <2>1 DEF Played
<1> QED BY <1>1, <1>4, <1>7, <1>8 DEF History

\* The replay of the events that opened the account.
LEMMA OpeningReplay ==
  ASSUME NEW n, NEW c, NEW e1, NEW e2, NEW e3, NEW one, NEW z,
         IsOpening(n, c, e1, e2, e3, one, z), NEW f, History(<<e1, e2, e3>>, f)
  PROVE  Matches(f[0], n) /\ Matches(f[3], c)
<1>1. OpeningIs(n, c, e1, e2, e3, one, z)
  BY OpeningFields
<1>2. PICK l : l = <<e1, e2, e3>>
  OBVIOUS
<1>3. e1 \in Event /\ e2 \in Event /\ e3 \in Event
  BY <1>1 DEF OpeningIs
<1>4. Len(l) = 3 /\ l[1] = e1 /\ l[2] = e2 /\ l[3] = e3
  BY <1>2
<1>5. f[0] = FreshState /\ \A i \in 1 .. 3 : f[i] = Apply(f[i - 1], l[i])
  BY <1>2, <1>4 DEF History
<1>6. f[1] = Apply(f[0], e1) /\ f[2] = Apply(f[1], e2) /\ f[3] = Apply(f[2], e3)
  <2>1. 1 - 1 = 0 /\ 2 - 1 = 1 /\ 3 - 1 = 2
    OBVIOUS
  <2> QED BY <1>4, <1>5, <2>1
<1>7. PICK s0, s1, s2, s3 : s0 = f[0] /\ s1 = f[1] /\ s2 = f[2] /\ s3 = f[3]
  OBVIOUS
<1>8. s0 \in AccountState /\ s0.registered = FALSE /\ s0.spendable = z /\ s0.receiving = z
  BY <1>5, <1>7, Values DEF IsOpening
<1>9. s1 = Apply(s0, e1) /\ s2 = Apply(s1, e2) /\ s3 = Apply(s2, e3)
  BY <1>6, <1>7
<1>10. /\ e1.from = Me /\ e1.type = "register" /\ "register" \notin Checkpoints
       /\ "register" \notin Credits
       /\ e2.from = Other /\ e2.to = Me /\ e2.type = "deposit" /\ e2.credit = one
       /\ "deposit" \in Credits
       /\ e3.from = Me /\ e3.type = "merge"
  BY <1>1 DEF OpeningIs, Checkpoints, Credits
<1>11. s1 \in AccountState /\ s1.registered = TRUE /\ s1.spendable = z /\ s1.receiving = z
  <2>1. ~Own(e1) /\ e1.type # "merge" /\ e1.type \notin Credits
    BY <1>10 DEF Own
  <2>2. /\ s1 \in AccountState
        /\ s1.registered = (s0.registered \/ (e1.from = Me /\ e1.type = "register"))
        /\ s1.spendable = s0.spendable /\ s1.receiving = s0.receiving
    BY <1>3, <1>8, <1>9, <2>1, ApplyFields
  <2> QED BY <1>8, <1>10, <2>2
<1>12. Plus(z, one) = one
  BY DEF IsOpening, Plus, Zero, Unblinded
<1>13. s2 \in AccountState /\ s2.registered = TRUE /\ s2.spendable = z /\ s2.receiving = one
  <2>1. e2.from # Me /\ ~Own(e2) /\ e2.to = Me /\ e2.type \in Credits
    BY <1>10, Constants DEF Own
  <2>2. /\ s2 \in AccountState
        /\ s2.registered = (s1.registered \/ (e2.from = Me /\ e2.type = "register"))
        /\ s2.spendable = s1.spendable /\ s2.receiving = Plus(s1.receiving, e2.credit)
    BY <1>3, <1>9, <1>11, <2>1, ApplyFields
  <2> QED BY <1>10, <1>11, <1>12, <2>1, <2>2
<1>14. s3.registered = TRUE /\ s3.spendable = one /\ s3.receiving = z
  <2>1. e3.from = Me /\ e3.type = "merge"
    BY <1>10
  <2>2. /\ s3.registered = (s2.registered \/ (e3.from = Me /\ e3.type = "register"))
        /\ s3.spendable = Plus(s2.spendable, s2.receiving) /\ s3.receiving = Zero
    BY <1>3, <1>9, <1>13, <2>1, ApplyFields
  <2> QED BY <1>12, <1>13, <2>1, <2>2 DEF IsOpening
<1> QED BY <1>1, <1>7, <1>8, <1>14 DEF OpeningIs, Matches

LEMMA SyncInit == ASSUME Init PROVE SyncInv
<1>1. TypeInv
  BY TypeInit
<1>2. log \in Seq(Event) /\ Latest \in Nat
  BY <1>1 DEF TypeInv, SourceInv, SourceTypeOK, Latest
<1>3. PICK f : History(log, f)
  BY <1>2, HistoryExists
<1>4. PICK n, c, e1, e2, e3, one, z :
        IsOpening(n, c, e1, e2, e3, one, z) /\ OpeningIs(n, c, e1, e2, e3, one, z)
  BY OpeningExists, OpeningFields
<1>5. PICK l : l = log
  OBVIOUS
<1>6. ChainFollows(l, f)
  <2>1. CASE Opened
    <3>1. account = c /\ l = <<e1, e2, e3>> /\ truth = <<n, c>>
      BY <1>4, <1>5, <2>1 DEF Init, SourceInit, OpeningLog, IsOpening
    <3>2. Matches(f[0], n) /\ Matches(f[3], c)
      BY <1>3, <1>4, <1>5, <3>1, OpeningReplay
    <3>3. Len(l) = 3 /\ \A i \in 1 .. 3 : l[i].ledger = 2
      BY <1>4, <3>1 DEF OpeningIs
    <3>4. Latest = 2 /\ truth[1] = n /\ truth[2] = c
      BY <3>1 DEF Latest
    <3>5. ASSUME NEW k \in 0 .. 3, Upto(l, k, 1) PROVE k = 0
      <4>1. \A i \in 1 .. 3 : i <= k <=> l[i].ledger <= 1
        BY <3>3, <3>5 DEF Upto
      <4>2. ~(1 <= k)
        BY <3>3, <4>1
      <4> QED BY <4>2
    <3>6. ASSUME NEW k \in 0 .. 3, Upto(l, k, 2) PROVE k = 3
      <4>1. \A i \in 1 .. 3 : i <= k <=> l[i].ledger <= 2
        BY <3>3, <3>6 DEF Upto
      <4>2. 3 <= k
        BY <3>3, <4>1
      <4> QED BY <4>2
    <3>7. ASSUME NEW m \in 1 .. 2, NEW k \in 0 .. 3, Upto(l, k, m) PROVE Matches(f[k], truth[m])
      <4>1. m = 1 \/ m = 2
        OBVIOUS
      <4> QED BY <3>2, <3>4, <3>5, <3>6, <3>7, <4>1
    <3> QED BY <3>1, <3>2, <3>3, <3>4, <3>7 DEF ChainFollows
  <2>2. CASE ~Opened
    <3>1. account = n /\ l = << >> /\ truth = <<n>>
      BY <1>4, <1>5, <2>2 DEF Init, SourceInit, IsOpening
    <3>2. Len(l) = 0 /\ Latest = 1 /\ truth[1] = n /\ 0 .. 0 = {0} /\ 1 .. 1 = {1}
      BY <3>1 DEF Latest
    <3>3. f[0] = FreshState
      BY <1>3 DEF History
    <3>4. Matches(f[0], n)
      BY <1>4, <3>3, Values DEF IsOpening, OpeningIs, Matches
    <3>5. \A m \in 1 .. 1, k \in 0 .. 0 : Matches(f[k], truth[m])
      BY <3>1, <3>2, <3>4
    <3> QED BY <3>1, <3>2, <3>4, <3>5 DEF ChainFollows
  <2> QED BY <2>1, <2>2
<1>7. cache = Nothing /\ \A t \in Tabs : tab[t] = Idle
  BY DEF Init
<1>8. Follows(f)
  <2>1. Nothing.version # 3
    BY Values
  <2>2. CacheFollows(log, Latest, f, cache)
    BY <1>7, <2>1 DEF CacheFollows
  <2>3. \A t \in Tabs : TabFollows(log, Latest, indexed, f, tab[t])
    BY <1>7, Values DEF TabFollows, Syncing
  <2> QED BY <1>3, <1>5, <1>6, <2>2, <2>3 DEF Follows
<1>9. Legs
  <2>1. CacheVersions
    BY <1>7, Values DEF CacheVersions
  <2>2. Orderly(Idle, cache)
    BY <1>2, Values DEF Orderly, LegOf, OnTime, LandsLater, Syncing
  <2> QED BY <1>7, <2>1, <2>2 DEF Legs
<1> QED BY <1>1, <1>8, <1>9 DEF SyncInv

\* A transaction the network forgets changes nothing but what is pending.
LEMMA DropSync ==
  ASSUME SyncInv, UNCHANGED <<sourceVars, cache, tab>>, TypeInv'
  PROVE  SyncInv'
<1>1. PICK f : Follows(f)
  BY DEF SyncInv
<1>2. PICK n : n = Latest /\ n = Latest'
  BY DEF Latest, sourceVars
<1>3. /\ UNCHANGED <<account, log, truth, indexed, cache, tab>>
      /\ History(log, f) /\ ChainFollows(log, f)
  BY <1>1 DEF Follows, sourceVars
<1>4. ChainFollows(log, f)'
  BY <1>2, <1>3 DEF ChainFollows
<1>5. Follows(f)'
  BY <1>1, <1>2, <1>3, <1>4 DEF Follows
<1>6. Legs'
  BY <1>2, <1>3 DEF SyncInv, Legs, CacheVersions, Orderly, LegOf, OnTime, LandsLater
<1> QED BY <1>5, <1>6 DEF SyncInv

\* No cache is of a version that ignored releases.
LEMMA NoMigration == ASSUME SyncInv, NEW t \in Tabs PROVE ~RecoverReleases(t)
<1> SUFFICES ASSUME RecoverReleases(t) PROVE FALSE
  OBVIOUS
<1>1. tab[t].pc = "fetched" /\ tab[t].leg = "releases"
  BY DEF RecoverReleases, At
<1>2. LegOf(tab[t], cache)
  BY DEF SyncInv, Legs, Orderly
<1>3. tab[t].leg = "tail"
  BY <1>1, <1>2 DEF LegOf, Syncing
<1> QED BY <1>1, <1>3

LEMMA AnswerSync ==
  ASSUME Reliable, SyncInv, NEW t \in Tabs, Answer(t), TypeInv'
  PROVE  SyncInv'
<1>1. CASE FetchHistory(t)
  BY <1>1, HistorySync
<1>2. CASE \E oldest \in 0 .. MaxHead : ReadHealth(t, oldest)
  BY <1>2, HealthSync
<1>3. CASE BackfillPage(t)
  BY <1>3, BackfillSync
<1>4. CASE FetchTail(t)
  BY <1>4, TailSync
<1>5. CASE SyncSave(t)
  BY <1>5, SaveSync
<1> QED BY <1>1, <1>2, <1>3, <1>4, <1>5, NoMigration DEF Answer

LEMMA SyncStep == ASSUME Reliable, SyncInv, [Next]_vars PROVE SyncInv'
<1>1. TypeInv /\ TypeInv' /\ SourceTypeOK /\ AccountDrawn
  BY TypeStep DEF SyncInv, TypeInv, SourceInv
<1>2. CASE Environment /\ UNCHANGED <<cache, tab, inflight>>
  <2>1. CASE Elsewhere
    <3>1. PICK ev : EventStep(ev)
      BY <1>1, <2>1, ElsewhereStep
    <3> QED BY <1>2, <3>1, CallSync
  <2>2. CASE Timely /\ CloseLedger
    BY <1>2, <2>2, CloseSync
  <2>3. CASE Ingest \/ Record
    BY <1>2, <2>3, CatchUpSync
  <2> QED BY <1>2, <2>1, <2>2, <2>3 DEF Environment
<1>3. ~OldSync
  BY DEF Reliable, OldSync
<1>4. CASE \E tx \in inflight : Land(tx) \/ Drop(tx)
  <2>1. PICK tx \in inflight : Land(tx) \/ Drop(tx)
    BY <1>4
  <2>2. CASE Land(tx)
    <3>1. PICK ev : EventStep(ev)
      BY <1>1, <2>2, LandStep
    <3> QED BY <1>1, <2>2, <3>1, LandStep, CallSync
  <2>3. CASE Drop(tx)
    BY <1>1, <2>3, DropSync DEF Drop
  <2> QED BY <2>1, <2>2, <2>3
<1>5. ASSUME NEW t \in Tabs, NEW goal \in Goals, SyncStart(t, goal) PROVE SyncInv'
  BY <1>1, <1>5, SyncStartSync
<1>6. ASSUME NEW t \in Tabs, Answer(t) PROVE SyncInv'
  BY <1>1, <1>6, AnswerSync
<1>7. ASSUME NEW t \in Tabs, SyncFails(t) \/ Refuse(t) \/ GiveUp(t) \/ Reload(t) PROVE SyncInv'
  BY <1>1, <1>7, EndsSync DEF SyncFails, Refuse, GiveUp, Reload
<1>8. ASSUME NEW t \in Tabs, Verify(t) \/ Submit(t) \/ Confirm(t) PROVE SyncInv'
  BY <1>1, <1>8, VerifySync, SubmitSync, ConfirmSync
<1>9. CASE UNCHANGED vars
  BY <1>1, <1>9, DropSync DEF vars
<1> QED BY <1>2, <1>3, <1>4, <1>5, <1>6, <1>7, <1>8, <1>9 DEF Next, SpendStep

\* What the cache holds between syncs.
LEMMA CacheIsConfirmed == ASSUME Single, SyncInv PROVE OptimismIsConfirmed
<1>1. PICK f : Follows(f)
  BY DEF SyncInv
<1>2. PICK l, n, c : l = log /\ n = Latest /\ c = cache
  OBVIOUS
<1>3. /\ Len(l) \in Nat /\ n \in Nat /\ l \in Seq(Event)
      /\ \A i \in 1 .. Len(l) : l[i].ledger \in Nat
  BY <1>1, <1>2, ChainFacts
<1> SUFFICES ASSUME c.version = 3
             PROVE  /\ c.receiving = truth[c.cursor].receiving
                    /\ \/ c.spendable = truth[c.cursor].spendable
                       \/ \E i \in InLedgers(c.cursor + 1, n) :
                            l[i].from = Me /\ l[i].checkpoint = c.spendable
  BY <1>2 DEF OptimismIsConfirmed
<1>4. PICK m \in 1 .. n : m = c.cursor
  BY <1>2 DEF SyncInv, Legs, CacheVersions
<1>5. PICK b \in 0 .. Len(l) : Upto(l, b, m) /\ Near(l, f, c, b, n)
  BY <1>1, <1>2, <1>4 DEF Follows, CacheFollows
<1>6. Matches(f[b], truth[m])
  BY <1>1, <1>2, <1>5 DEF Follows, ChainFollows
<1>7. c.receiving = truth[m].receiving
  BY <1>5, <1>6 DEF Near, Matches
<1>8. ASSUME c.spendable # truth[m].spendable
      PROVE  \E i \in InLedgers(m + 1, n) : l[i].from = Me /\ l[i].checkpoint = c.spendable
  <2>1. PICK p \in (b + 1) .. Len(l) :
          Own(l[p]) /\ l[p].ledger <= n /\ c.spendable = l[p].checkpoint
    BY <1>5, <1>6, <1>8 DEF Near, Matches
  <2>2. p \in 1 .. Len(l) /\ ~(p <= b)
    BY <1>3
  <2>3. ~(l[p].ledger <= m)
    BY <1>5, <2>2 DEF Upto
  <2>4. l[p].ledger \in (m + 1) .. n
    <3>1. PICK q \in Nat : q = l[p].ledger
      BY <1>3, <2>2
    <3> QED BY <1>3, <1>4, <2>1, <2>3, <3>1
  <2>5. p \in InLedgers(m + 1, n)
    BY <1>2, <1>3, <2>2, <2>4 DEF InLedgers
  <2> QED BY <2>1, <2>5 DEF Own
<1> QED BY <1>4, <1>7, <1>8

LEMMA SaveIsExact ==
  ASSUME SyncInv, NEW t \in Tabs, SyncSave(t)
  PROVE  Matches(cache', truth[cache'.cursor])
<1>1. PICK f : Follows(f)
  BY DEF SyncInv
<1>2. PICK l, n, v, s : l = log /\ n = Latest /\ v = tab[t] /\ s = Stored(v)
  OBVIOUS
<1>3. Matches(s, truth[s.cursor])
  BY <1>1, <1>2, SaveMatches
<1>4. cache' = s
  BY <1>2 DEF SyncSave, Stored
<1> QED BY <1>3, <1>4

\* Where the services cover the history between them, and the cache is written
\* by one tab or is rebuilt from the account history, every sync that completes
\* stores exactly the openings the contract committed to when the ledger of the
\* stored cursor closed (engine.ts sync), for any number of ledgers, events,
\* pages and tabs and whatever fails, lags behind or happens in between.
THEOREM SyncIsExact == Reliable => (Spec => SyncReconciles)
<1> SUFFICES ASSUME Reliable PROVE Spec => SyncReconciles
  OBVIOUS
<1>1. Init => SyncInv
  BY SyncInit
<1>2. SyncInv /\ [Next]_vars => SyncInv'
  BY SyncStep
<1>3. SyncInv => (\A t \in Tabs : SyncSave(t) => Matches(cache', truth[cache'.cursor]))
  BY SaveIsExact
<1> QED BY <1>1, <1>2, <1>3, PTL DEF Spec, SyncReconciles

\* And where one tab writes the cache, the receiving opening it holds is that of
\* its ledger at all times, and the spendable one is that of its ledger or what
\* a later spend of the owner has left on chain (wallet.ts setSpendable after
\* getTransaction answers SUCCESS): what was refused, dropped or given up never
\* reaches the cache.
THEOREM CacheIsOfTheChain == (Reliable /\ Single) => (Spec => []OptimismIsConfirmed)
<1> SUFFICES ASSUME Reliable, Single PROVE Spec => []OptimismIsConfirmed
  OBVIOUS
<1>1. Init => SyncInv
  BY SyncInit
<1>2. SyncInv /\ [Next]_vars => SyncInv'
  BY SyncStep
<1>3. SyncInv => OptimismIsConfirmed
  BY CacheIsConfirmed
<1> QED BY <1>1, <1>2, <1>3, PTL DEF Spec
=============================================================================

------------------------- MODULE Compliance_proofs -------------------------
(***************************************************************************)
(* What the admin page shows is what the contracts hold, for every set of  *)
(* accounts and owners and for logs of every length: replaying the events  *)
(* that are left of the log gives the flags that can be told from them, and *)
(* the log is long enough for the flags of the contracts.                  *)
(***************************************************************************)
EXTENDS Compliance, DataInduction

USE ComplianceAssumption

-----------------------------------------------------------------------------
(* The inductive invariant *)

\* The event at place i of the log changes the flag of `a`.
Changes(i, type, a) == log[i].type = type /\ log[i].account = a

\* Accounts whose last change among the events at `ids` is an addition.
Marked(ids, add, remove) ==
  {a \in Accounts : \E i \in ids : /\ Changes(i, add, a)
                                   /\ \A j \in ids : j > i => ~Changes(j, remove, a)}

\* The places of the events of a contract, and what its events say is listed.
Of(contract) == {i \in DOMAIN log : log[i].contract = contract}
Standing(contract, add, remove) == Marked(Of(contract), add, remove)

\* The contracts' sets are those their events say: no change is silent.
FlagsLogged ==
  /\ frozen = Standing("token", "freeze", "unfreeze")
  /\ members = Standing("policy", "add", "remove")

LogBounded == Len(log) <= MaxLog

\* A transaction of the page is signed by an owner.
SentSigned == page.pc = "sent" => page.tx \in Tx

\* What the page read first is still what the token holds when nothing was
\* emitted since (every change of a flag is), unless the page was reset.
FrozenAsRead ==
  page.pc = "policy" =>
    /\ page.loaded <= Len(log)
    /\ aged = 0 /\ page.loaded = Len(log) => page.frozen = frozen \/ page.registered = {}

IInv == TypeOK /\ FlagsLogged /\ LogBounded /\ SentSigned /\ FrozenAsRead

-----------------------------------------------------------------------------
(* What a replay computes *)

IsReplay(it, ids, add, remove) ==
  it = [s \in SUBSET ids |->
          IF s = {} THEN {} ELSE Applied(log[Max(s)], it[s \ {Max(s)}], add, remove)]

\* The latest event decides.
LEMMA LastDecides ==
  ASSUME TypeOK, NEW s \in SUBSET DOMAIN log, s # {}, NEW add, NEW remove, add # remove
  PROVE  Marked(s, add, remove) =
           Applied(log[Max(s)], Marked(s \ {Max(s)}, add, remove), add, remove)
<1> DEFINE m == Max(s)
<1>1. DOMAIN log = 1 .. Len(log) /\ Len(log) \in Nat /\ \A i \in DOMAIN log : log[i] \in Event
  BY DEF TypeOK
<1>2. s \in SUBSET (0 .. Len(log))
  BY <1>1
<1>3. m \in s /\ \A y \in s : y <= m
  BY <1>1, <1>2, GreatestNumber
<1> HIDE DEF m
<1>4. m \in Nat /\ s \subseteq Nat /\ log[m] \in Event
  BY <1>1, <1>3
<1>5. log[m].account \in Accounts
  BY <1>4 DEF Event
<1> DEFINE r == s \ {m}
<1>6. \A i \in r : i < m
  BY <1>3, <1>4
<1>7. ASSUME NEW a \in Accounts
      PROVE  a \in Marked(s, add, remove) <=>
               \/ Changes(m, add, a)
               \/ a \in Marked(r, add, remove) /\ ~Changes(m, remove, a)
  <2>1. ASSUME Changes(m, add, a) PROVE a \in Marked(s, add, remove)
    <3>1. \A j \in s : ~(j > m)
      BY <1>3, <1>4
    <3> QED BY <1>3, <2>1, <3>1 DEF Marked
  <2>2. ASSUME a \in Marked(r, add, remove), ~Changes(m, remove, a)
        PROVE  a \in Marked(s, add, remove)
    <3>1. PICK i \in r : Changes(i, add, a) /\ \A j \in r : j > i => ~Changes(j, remove, a)
      BY <2>2 DEF Marked
    <3>2. \A j \in s : j > i => ~Changes(j, remove, a)
      BY <2>2, <3>1
    <3> QED BY <3>1, <3>2 DEF Marked
  <2>3. ASSUME a \in Marked(s, add, remove), ~Changes(m, add, a)
        PROVE  a \in Marked(r, add, remove) /\ ~Changes(m, remove, a)
    <3>1. PICK i \in s : Changes(i, add, a) /\ \A j \in s : j > i => ~Changes(j, remove, a)
      BY <2>3 DEF Marked
    <3>2. i \in r /\ m > i
      BY <1>4, <1>6, <2>3, <3>1
    <3> QED BY <1>3, <3>1, <3>2 DEF Marked
  <2> QED BY <2>1, <2>2, <2>3
<1>8. Marked(s, add, remove) \subseteq Accounts /\ Marked(r, add, remove) \subseteq Accounts
  BY DEF Marked
<1>9. \A a : a \in Applied(log[m], Marked(r, add, remove), add, remove) <=>
               \/ log[m].type = add /\ a = log[m].account
               \/ a \in Marked(r, add, remove) /\ ~(log[m].type = remove /\ a = log[m].account)
  BY DEF Applied
<1>10. Marked(s, add, remove) = Applied(log[m], Marked(r, add, remove), add, remove)
  BY <1>5, <1>7, <1>8, <1>9 DEF Changes
<1> QED BY <1>10 DEF m

\* The fold of replaySet lists the accounts whose last change adds them.
LEMMA ReplayIsMarked ==
  ASSUME TypeOK, NEW ids \in SUBSET DOMAIN log, NEW add, NEW remove, add # remove
  PROVE  ReplaySet(ids, add, remove) = Marked(ids, add, remove)
<1> DEFINE it == CHOOSE it : IsReplay(it, ids, add, remove)
           jt == [s \in SUBSET ids |-> Marked(s, add, remove)]
           C == {s \in SUBSET ids : it[s] = Marked(s, add, remove)}
<1>1. ReplaySet(ids, add, remove) = it[ids]
  BY DEF ReplaySet, MapThenFoldSet, IsReplay
<1>2. DOMAIN log = 1 .. Len(log) /\ Len(log) \in Nat
  BY DEF TypeOK
<1>3. IsFiniteSet(ids)
  <2>1. IsFiniteSet(1 .. Len(log))
    BY <1>2, FS_Interval, 1 \in Int, Len(log) \in Int
  <2> QED BY <1>2, <2>1, FS_Subset
<1>4. ASSUME NEW s \in SUBSET ids, s # {} PROVE Max(s) \in s
  BY <1>2, <1>4, GreatestNumber, s \in SUBSET (0 .. Len(log))
<1>5. IsReplay(jt, ids, add, remove)
  <2> DEFINE kt == [s \in SUBSET ids |->
               IF s = {} THEN {} ELSE Applied(log[Max(s)], jt[s \ {Max(s)}], add, remove)]
  <2>1. ASSUME NEW s \in SUBSET ids PROVE jt[s] = kt[s]
    <3>1. CASE s = {}
      <4>1. Marked({}, add, remove) = {}
        BY DEF Marked
      <4> QED BY <3>1, <4>1
    <3>2. CASE s # {}
      <4>1. jt[s \ {Max(s)}] = Marked(s \ {Max(s)}, add, remove)
        OBVIOUS
      <4>2. s \in SUBSET DOMAIN log
        OBVIOUS
      <4>3. Marked(s, add, remove) =
             Applied(log[Max(s)], Marked(s \ {Max(s)}, add, remove), add, remove)
        BY <3>2, <4>2, LastDecides
      <4> QED BY <3>2, <4>1, <4>3
    <3> QED BY <3>1, <3>2
  <2>2. jt = kt
    <3>1. jt = [s \in SUBSET ids |-> jt[s]] /\ kt = [s \in SUBSET ids |-> kt[s]]
      OBVIOUS
    <3> HIDE DEF jt, kt
    <3> QED BY <2>1, <3>1, SameFunction
  <2> QED BY <2>2 DEF IsReplay
<1>6. IsReplay(it, ids, add, remove)
  <2> HIDE DEF jt
  <2> QED BY <1>5
<1>7. ASSUME NEW s \in SUBSET ids, \A x \in s : s \ {x} \in C PROVE s \in C
  <2> HIDE DEF it
  <2>1. it[s] = IF s = {} THEN {} ELSE Applied(log[Max(s)], it[s \ {Max(s)}], add, remove)
    BY <1>6 DEF IsReplay
  <2>2. CASE s = {}
    <3>1. Marked({}, add, remove) = {}
      BY DEF Marked
    <3> QED BY <2>1, <2>2, <3>1
  <2>3. CASE s # {}
    <3>1. it[s \ {Max(s)}] = Marked(s \ {Max(s)}, add, remove)
      BY <1>4, <1>7, <2>3
    <3>2. s \in SUBSET DOMAIN log
      OBVIOUS
    <3>3. Marked(s, add, remove) =
            Applied(log[Max(s)], Marked(s \ {Max(s)}, add, remove), add, remove)
      BY <2>3, <3>2, LastDecides
    <3> QED BY <2>1, <2>3, <3>1, <3>3
  <2> QED BY <2>2, <2>3
<1>8. ids \in C
  <2> HIDE DEF C
  <2> QED BY <1>3, <1>7, SubsetInduction
<1> QED BY <1>1, <1>8

\* From the events that are left a replay tells the flags they can tell.
LEMMA TruncatedReplay ==
  ASSUME TypeOK, NEW contract, NEW add, NEW remove, add # remove
  PROVE  ReplaySet(Fetched(contract), add, remove) =
           {a \in Standing(contract, add, remove) : Told(contract, {add, remove}, a)}
<1> DEFINE F == Fetched(contract)
<1>1. DOMAIN log \subseteq Nat /\ aged \in Nat
  BY DEF TypeOK
<1>2. ReplaySet(F, add, remove) = Marked(F, add, remove)
  BY ReplayIsMarked DEF Fetched
<1>3. \A i : i \in F <=> i \in Of(contract) /\ i > aged
  BY DEF Fetched, Of
<1>4. Of(contract) \subseteq Nat
  BY <1>1 DEF Of
<1> HIDE DEF F
<1>5. ASSUME NEW a \in Marked(F, add, remove)
      PROVE  a \in Standing(contract, add, remove) /\ Told(contract, {add, remove}, a)
  <2>1. PICK i \in F : Changes(i, add, a) /\ \A j \in F : j > i => ~Changes(j, remove, a)
    BY DEF Marked
  <2>2. \A j \in Of(contract) : j > i => ~Changes(j, remove, a)
    BY <1>1, <1>3, <1>4, <2>1
  <2>3. a \in Standing(contract, add, remove)
    BY <1>3, <2>1, <2>2 DEF Standing, Marked
  <2>4. Told(contract, {add, remove}, a)
    BY <1>3, <2>1 DEF Told, Changes, Of
  <2> QED BY <2>3, <2>4
<1>6. ASSUME NEW a \in Standing(contract, add, remove), Told(contract, {add, remove}, a)
      PROVE  a \in Marked(F, add, remove)
  <2>1. a \in Accounts
    BY DEF Standing, Marked
  <2>2. PICK i \in Of(contract) :
          Changes(i, add, a) /\ \A j \in Of(contract) : j > i => ~Changes(j, remove, a)
    BY DEF Standing, Marked
  <2>3. PICK k \in F : Changes(k, add, a) \/ Changes(k, remove, a)
    BY <1>3, <1>6 DEF Told, Changes, Of
  <2>4. CASE i > aged
    BY <1>3, <2>1, <2>2, <2>4 DEF Marked
  <2>5. CASE ~(i > aged)
    <3>1. k > i /\ k \in Of(contract)
      BY <1>1, <1>3, <1>4, <2>2, <2>3, <2>5
    <3>2. Changes(k, add, a)
      BY <2>2, <2>3, <3>1
    <3>3. \A j \in F : j > k => ~Changes(j, remove, a)
      BY <1>3, <1>4, <2>2, <3>1
    <3> QED BY <2>1, <2>3, <3>2, <3>3 DEF Marked
  <2> QED BY <2>4, <2>5
<1>7. Marked(F, add, remove) = {a \in Standing(contract, add, remove) : Told(contract, {add, remove}, a)}
  BY <1>5, <1>6
<1> QED BY <1>2, <1>7 DEF F

-----------------------------------------------------------------------------
(* The contracts *)

\* An event at the end of the log decides about its account and no other.
LEMMA EmitDecides ==
  ASSUME TypeOK, NEW c, NEW type, NEW a \in Accounts, Emit(c, type, a),
         NEW contract, NEW add, NEW remove, add # remove
  PROVE  Standing(contract, add, remove)' =
           IF c # contract THEN Standing(contract, add, remove)
           ELSE IF type = add THEN Standing(contract, add, remove) \cup {a}
           ELSE IF type = remove THEN Standing(contract, add, remove) \ {a}
           ELSE Standing(contract, add, remove)
<1>0. PICK n : n = Len(log) + 1
  OBVIOUS
<1> DEFINE S == Standing(contract, add, remove)
           T == Standing(contract, add, remove)'
<1>1. /\ DOMAIN log = 1 .. Len(log) /\ Len(log) \in Nat
      /\ DOMAIN log' = 1 .. n
      /\ \A i \in DOMAIN log : log'[i] = log[i]
      /\ log'[n] = [contract |-> c, type |-> type, account |-> a]
  BY <1>0 DEF TypeOK, Emit
<1>2. \A i \in DOMAIN log : i < n /\ i \in Nat
  BY <1>0, <1>1
<1>3. Of(contract)' = IF c = contract THEN Of(contract) \cup {n} ELSE Of(contract)
  <2>1. DOMAIN log' = DOMAIN log \cup {n} /\ n \notin DOMAIN log
    BY <1>0, <1>1
  <2>2. Of(contract)' = {i \in DOMAIN log' : log'[i].contract = contract}
    BY DEF Of
  <2>3. log'[n].contract = c
    BY <1>1
  <2>4. \A i \in DOMAIN log : log'[i].contract = log[i].contract
    BY <1>1
  <2> QED BY <2>1, <2>2, <2>3, <2>4 DEF Of
<1>4. \A t, b : \A i \in Of(contract) : Changes(i, t, b)' <=> Changes(i, t, b)
  BY <1>1 DEF Of, Changes
<1>5. \A t, b : Changes(n, t, b)' <=> (type = t /\ a = b)
  BY <1>1 DEF Changes
<1>6. Of(contract) \subseteq DOMAIN log
  BY DEF Of
<1>7. /\ S = {b \in Accounts : \E i \in Of(contract) : /\ Changes(i, add, b)
                 /\ \A j \in Of(contract) : j > i => ~Changes(j, remove, b)}
      /\ T = {b \in Accounts : \E i \in Of(contract)' : /\ Changes(i, add, b)'
                 /\ \A j \in Of(contract)' : j > i => ~Changes(j, remove, b)'}
  BY DEF Standing, Marked
<1> HIDE DEF S, T
<1>8. n \in Nat /\ \A i \in Of(contract) : i \in Nat /\ i < n
  BY <1>0, <1>1, <1>2, <1>6
<1>9. CASE c # contract
  BY <1>3, <1>4, <1>7, <1>9 DEF S, T
<1>10. CASE c = contract
  <2>1. ASSUME NEW b \in Accounts, type = add, a = b PROVE b \in T
    <3>1. n \in Of(contract)' /\ Changes(n, add, b)'
      BY <1>3, <1>5, <1>10, <2>1
    <3>2. \A j \in Of(contract)' : ~(j > n)
      BY <1>3, <1>8, <1>10
    <3> QED BY <1>7, <3>1, <3>2
  <2>2. ASSUME NEW b \in S, ~(type = remove /\ a = b) PROVE b \in T
    <3>1. PICK i \in Of(contract) : /\ Changes(i, add, b)
                 /\ \A j \in Of(contract) : j > i => ~Changes(j, remove, b)
      BY <1>7
    <3>2. \A j \in Of(contract)' : j > i => ~Changes(j, remove, b)'
      BY <1>3, <1>4, <1>5, <2>2, <3>1
    <3>3. i \in Of(contract)' /\ Changes(i, add, b)' /\ b \in Accounts
      BY <1>3, <1>4, <1>7, <3>1
    <3> QED BY <1>7, <3>2, <3>3
  <2>3. ASSUME NEW b \in T, ~(type = add /\ a = b) PROVE b \in S /\ ~(type = remove /\ a = b)
    <3>1. PICK i \in Of(contract)' : /\ Changes(i, add, b)'
                 /\ \A j \in Of(contract)' : j > i => ~Changes(j, remove, b)'
      BY <1>7
    <3>2. i \in Of(contract) /\ n > i /\ n \in Of(contract)'
      BY <1>3, <1>5, <1>8, <1>10, <2>3, <3>1
    <3>3. ~(type = remove /\ a = b)
      BY <1>5, <3>1, <3>2
    <3>4. \A j \in Of(contract) : j > i => ~Changes(j, remove, b)
      BY <1>3, <1>4, <1>10, <3>1
    <3>5. Changes(i, add, b) /\ b \in Accounts
      BY <1>4, <1>7, <3>1, <3>2
    <3> QED BY <1>7, <3>2, <3>3, <3>4, <3>5
  <2>4. S \subseteq Accounts /\ T \subseteq Accounts
    BY <1>7
  <2>5. \A b \in Accounts :
          b \in T <=> \/ (type = add /\ a = b)
                      \/ (b \in S /\ ~(type = remove /\ a = b))
    BY <2>1, <2>2, <2>3
  <2>6. T = IF type = add THEN S \cup {a} ELSE IF type = remove THEN S \ {a} ELSE S
    BY <2>4, <2>5
  <2> QED BY <1>10, <2>6 DEF S, T
<1> QED BY <1>9, <1>10

\* What every step of the contracts keeps, and how it can be noticed.
ContractsKept ==
  /\ kind' = kind /\ indexer' = indexer /\ policy' \in BOOLEAN
  /\ owner' \in [Contracts -> Owners]
  /\ {registered', frozen', members'} \subseteq SUBSET Accounts
  /\ log' \in Seq(Event) /\ Len(log') >= Len(log)
  /\ FlagsLogged' /\ LogBounded'
  /\ Len(log') = Len(log) => frozen' = frozen

LEMMA EmitGrows ==
  ASSUME TypeOK, NEW c \in Contracts, NEW type \in {"register"} \cup Ops, NEW a \in Accounts,
         Emit(c, type, a)
  PROVE  log' \in Seq(Event) /\ Len(log') = Len(log) + 1
<1>1. [contract |-> c, type |-> type, account |-> a] \in Event
  BY DEF Event
<1> QED BY <1>1 DEF TypeOK, Emit

LEMMA RegisterKeeps ==
  ASSUME IInv, NEW a \in Accounts, Register(a)
  PROVE  ContractsKept
<1> USE DEF IInv
<1>1. Emit("token", "register", a) /\ Len(log) \in Nat
  BY DEF Register, TypeOK
<1>2. log' \in Seq(Event) /\ Len(log') = Len(log) + 1
  BY <1>1, EmitGrows DEF Contracts
<1>3. FlagsLogged'
  <2>1. /\ Standing("token", "freeze", "unfreeze")' = Standing("token", "freeze", "unfreeze")
        /\ Standing("policy", "add", "remove")' = Standing("policy", "add", "remove")
    BY <1>1, EmitDecides
  <2> QED BY <2>1 DEF FlagsLogged, Register
<1>4. LogBounded'
  BY <1>1, <1>2 DEF LogBounded, Register
<1>5. {registered', frozen', members'} \subseteq SUBSET Accounts
  BY DEF Register, TypeOK
<1> QED BY <1>1, <1>2, <1>3, <1>4, <1>5 DEF ContractsKept, Register, TypeOK

LEMMA FlagKeeps ==
  ASSUME IInv, NEW op \in Ops, NEW a \in Accounts, Flag(op, a)
  PROVE  ContractsKept
<1> USE DEF IInv
<1> DEFINE Changing == (op \in {"freeze", "add"}) # (a \in (IF On(op) = "token" THEN frozen ELSE members))
<1>1. /\ frozen' = IF op = "freeze" THEN frozen \cup {a}
                  ELSE IF op = "unfreeze" THEN frozen \ {a} ELSE frozen
      /\ members' = IF op = "add" THEN members \cup {a}
                   ELSE IF op = "remove" THEN members \ {a} ELSE members
      /\ Len(log) < MaxLog /\ Len(log) \in Nat
      /\ UNCHANGED <<kind, indexer, owner, policy, registered>>
  BY DEF Flag, TypeOK
<1>2. Emit(On(op), op, a) \/ (~Changing /\ UNCHANGED log)
  BY DEF Flag
<1>3. /\ {registered', frozen', members'} \subseteq SUBSET Accounts
      /\ kind' = kind /\ indexer' = indexer /\ policy' \in BOOLEAN
      /\ owner' \in [Contracts -> Owners]
  BY <1>1 DEF TypeOK
<1>4. CASE Emit(On(op), op, a)
  <2>1. On(op) \in Contracts
    BY DEF On, Contracts
  <2>2. log' \in Seq(Event) /\ Len(log') = Len(log) + 1
    BY <1>4, <2>1, EmitGrows
  <2>3. frozen' = Standing("token", "freeze", "unfreeze")'
    <3>1. Standing("token", "freeze", "unfreeze")' =
            IF On(op) # "token" THEN frozen
            ELSE IF op = "freeze" THEN frozen \cup {a}
            ELSE IF op = "unfreeze" THEN frozen \ {a} ELSE frozen
      BY <1>4, EmitDecides DEF FlagsLogged
    <3> QED BY <1>1, <3>1 DEF On
  <2>4. members' = Standing("policy", "add", "remove")'
    <3>1. Standing("policy", "add", "remove")' =
            IF On(op) # "policy" THEN members
            ELSE IF op = "add" THEN members \cup {a}
            ELSE IF op = "remove" THEN members \ {a} ELSE members
      BY <1>4, EmitDecides DEF FlagsLogged
    <3> QED BY <1>1, <3>1 DEF On, Ops
  <2>5. FlagsLogged'
    BY <2>3, <2>4 DEF FlagsLogged
  <2>6. LogBounded' /\ Len(log') >= Len(log) /\ Len(log') # Len(log)
    BY <1>1, <2>2 DEF LogBounded
  <2> QED BY <1>3, <2>2, <2>5, <2>6 DEF ContractsKept
<1>5. CASE ~Changing /\ UNCHANGED log
  <2>1. frozen' = frozen /\ members' = members
    BY <1>1, <1>5 DEF On, Ops
  <2>2. FlagsLogged' /\ LogBounded'
    BY <1>5, <2>1 DEF FlagsLogged, LogBounded, Standing, Marked, Of, Changes
  <2> QED BY <1>1, <1>3, <1>5, <2>1, <2>2 DEF ContractsKept, TypeOK
<1> QED BY <1>2, <1>4, <1>5

\* A step that leaves the log and the flags alone.
LEMMA OwnersKeep ==
  ASSUME IInv, UNCHANGED <<kind, indexer, registered, frozen, members, log>>,
         policy' \in BOOLEAN, owner' \in [Contracts -> Owners]
  PROVE  ContractsKept
<1> USE DEF IInv
<1>1. FlagsLogged' /\ LogBounded'
  BY DEF FlagsLogged, LogBounded, Standing, Marked, Of, Changes
<1>2. Len(log) \in Nat
  BY DEF TypeOK
<1> QED BY <1>1, <1>2 DEF ContractsKept, TypeOK

LEMMA CallKeeps ==
  ASSUME IInv, NEW tx, tx.op \in Ops, tx.account \in Accounts, Call(tx)
  PROVE  ContractsKept
BY FlagKeeps DEF Call

-----------------------------------------------------------------------------
(* Invariance *)

\* Steps of the page: the contracts and the services stand still.
LEMMA PageStep ==
  ASSUME IInv, UNCHANGED <<contractVars, aged>>, page' \in Page,
         page'.pc = "sent" => page'.tx \in Tx,
         page'.pc = "policy" => /\ page'.loaded <= Len(log)
                                /\ aged = 0 /\ page'.loaded = Len(log) =>
                                     page'.frozen = frozen \/ page'.registered = {}
  PROVE  IInv'
BY DEF IInv, TypeOK, FlagsLogged, LogBounded, SentSigned, FrozenAsRead,
       Standing, Marked, Of, Changes, contractVars

\* Steps of the contracts, which leave the page where it is or confirm its
\* transaction.
LEMMA ContractsStep ==
  ASSUME IInv, ContractsKept, aged' = aged,
         \/ page' = page
         \/ page' \in Page /\ page'.pc \notin {"sent", "policy"}
  PROVE  IInv'
<1> USE DEF IInv
<1>1. Len(log) \in Nat /\ Len(log') \in Nat /\ aged \in 0 .. Len(log)
  BY DEF TypeOK, ContractsKept
<1>2. aged' \in 0 .. Len(log')
  BY <1>1 DEF ContractsKept
<1>3. page' \in Page
  BY DEF TypeOK
<1>4. TypeOK'
  BY <1>2, <1>3 DEF TypeOK, ContractsKept
<1>5. SentSigned'
  BY DEF SentSigned
<1>6. FrozenAsRead'
  <2>1. SUFFICES ASSUME page'.pc = "policy"
                 PROVE  /\ page'.loaded <= Len(log')
                        /\ aged' = 0 /\ page'.loaded = Len(log') =>
                             page'.frozen = frozen' \/ page'.registered = {}
    BY DEF FrozenAsRead
  <2>2. page' = page /\ page.loaded \in Nat
    BY <2>1 DEF TypeOK, Page
  <2>3. page.loaded <= Len(log) /\ (aged = 0 /\ page.loaded = Len(log) => page.frozen = frozen \/ page.registered = {})
    BY <2>1, <2>2 DEF FrozenAsRead
  <2>4. Len(log') >= Len(log) /\ (Len(log') = Len(log) => frozen' = frozen)
    BY DEF ContractsKept
  <2>5. page'.loaded <= Len(log')
    BY <1>1, <2>2, <2>3, <2>4
  <2>6. ASSUME aged' = 0, page'.loaded = Len(log')
        PROVE  page'.frozen = frozen' \/ page'.registered = {}
    <3>1. Len(log') = Len(log)
      BY <1>1, <2>2, <2>3, <2>4, <2>6
    <3> QED BY <2>2, <2>3, <2>4, <2>6, <3>1
  <2> QED BY <2>5, <2>6
<1> QED BY <1>4, <1>5, <1>6 DEF ContractsKept

LEMMA InitIInv == Init => IInv
<1> SUFFICES ASSUME Init PROVE IInv
  OBVIOUS
<1>1. TypeOK
  BY DEF Init, TypeOK, HasPolicy, BlankPage, Page, NoTx, Contracts
<1>2. FlagsLogged
  <2>1. Of("token") = {} /\ Of("policy") = {}
    BY DEF Init, Of
  <2> QED BY <2>1 DEF Init, FlagsLogged, Standing, Marked
<1>3. LogBounded /\ SentSigned /\ FrozenAsRead
  BY DEF Init, LogBounded, SentSigned, FrozenAsRead, BlankPage
<1> QED BY <1>1, <1>2, <1>3 DEF IInv

\* Connecting may start a load; it touches neither lists nor transaction.
LEMMA LoadingKeeps ==
  ASSUME NEW p \in Page
  PROVE  /\ Loading(p) \in Page /\ Loading(p).pc \in {p.pc, "token"}
         /\ Loading(p).tx = p.tx /\ Loading(p).loaded = p.loaded
         /\ Loading(p).frozen = p.frozen /\ Loading(p).registered = p.registered
BY DEF Loading, Page

LEMMA OpenPage ==
  ASSUME IInv, ReadOwner \/ \E s \in Owners : Connect(s)
  PROVE  IInv'
<1> USE DEF IInv
<1>1. page \in Page /\ owner["token"] \in Owners
  BY DEF TypeOK, Contracts
<1>2. PICK p \in Page : /\ Becomes(Loading(p)) /\ p.pc = page.pc /\ p.tx = page.tx
                        /\ p.loaded = page.loaded /\ p.frozen = page.frozen
                        /\ p.registered = page.registered
  <2>1. ASSUME NEW o \in Owners \cup {NoOwner}
        PROVE  /\ [page EXCEPT !.known = TRUE, !.owner = o] \in Page
               /\ [page EXCEPT !.signer = o] \in Page
    BY <1>1 DEF Page
  <2>2. CASE ReadOwner
    <3>1. PICK o \in {owner["token"], NoOwner} :
            Becomes(Loading([page EXCEPT !.known = TRUE, !.owner = o]))
      BY <2>2 DEF ReadOwner
    <3>2. o \in Owners \cup {NoOwner}
      BY <1>1
    <3>3. /\ [page EXCEPT !.known = TRUE, !.owner = o].pc = page.pc
          /\ [page EXCEPT !.known = TRUE, !.owner = o].tx = page.tx
          /\ [page EXCEPT !.known = TRUE, !.owner = o].loaded = page.loaded
          /\ [page EXCEPT !.known = TRUE, !.owner = o].frozen = page.frozen
          /\ [page EXCEPT !.known = TRUE, !.owner = o].registered = page.registered
      BY <1>1 DEF Page
    <3> QED BY <2>1, <3>1, <3>2, <3>3
  <2>3. ASSUME NEW s \in Owners, Connect(s)
        PROVE  \E p \in Page : /\ Becomes(Loading(p)) /\ p.pc = page.pc /\ p.tx = page.tx
                               /\ p.loaded = page.loaded /\ p.frozen = page.frozen
                               /\ p.registered = page.registered
    <3>1. Becomes(Loading([page EXCEPT !.signer = s]))
      BY <2>3 DEF Connect
    <3>2. /\ [page EXCEPT !.signer = s].pc = page.pc
          /\ [page EXCEPT !.signer = s].tx = page.tx
          /\ [page EXCEPT !.signer = s].loaded = page.loaded
          /\ [page EXCEPT !.signer = s].frozen = page.frozen
          /\ [page EXCEPT !.signer = s].registered = page.registered
      BY <1>1 DEF Page
    <3> QED BY <2>1, <3>1, <3>2
  <2> QED BY <2>2, <2>3
<1>3. page' = Loading(p) /\ UNCHANGED <<contractVars, aged>>
  BY <1>2 DEF Becomes
<1>4. page' \in Page /\ page'.pc \in {page.pc, "token"} /\ page'.tx = page.tx
      /\ page'.loaded = page.loaded /\ page'.frozen = page.frozen
      /\ page'.registered = page.registered
  BY <1>2, <1>3, LoadingKeeps
<1> QED BY <1>3, <1>4, PageStep DEF SentSigned, FrozenAsRead

\* What a read of the token's events lists.
LEMMA ListsRead ==
  ASSUME IInv
  PROVE  /\ RegisteredAccounts(Fetched("token")) \subseteq Accounts
         /\ ReplaySet(Fetched("token"), "freeze", "unfreeze") =
              {a \in frozen : Told("token", {"freeze", "unfreeze"}, a)}
         /\ ReplaySet(Fetched("policy"), "add", "remove") =
              {a \in members : Told("policy", {"add", "remove"}, a)}
         /\ aged = 0 => /\ {a \in frozen : Told("token", {"freeze", "unfreeze"}, a)} = frozen
                        /\ {a \in members : Told("policy", {"add", "remove"}, a)} = members
<1> USE DEF IInv
<1>1. \A i \in DOMAIN log : i \in Nat /\ i > 0 /\ log[i] \in Event
  BY DEF TypeOK
<1>2. RegisteredAccounts(Fetched("token")) \subseteq Accounts
  BY <1>1 DEF RegisteredAccounts, Fetched, Event
<1>3. ASSUME aged = 0, NEW contract, NEW add, NEW remove
      PROVE  \A a \in Standing(contract, add, remove) : Told(contract, {add, remove}, a)
  BY <1>1, <1>3 DEF Standing, Marked, Changes, Of, Told
<1>4. \A a \in frozen : aged = 0 => Told("token", {"freeze", "unfreeze"}, a)
  BY <1>3 DEF FlagsLogged
<1>5. \A a \in members : aged = 0 => Told("policy", {"add", "remove"}, a)
  BY <1>3 DEF FlagsLogged
<1>6. ReplaySet(Fetched("token"), "freeze", "unfreeze") =
              {a \in frozen : Told("token", {"freeze", "unfreeze"}, a)}
  BY TruncatedReplay DEF FlagsLogged
<1>7. ReplaySet(Fetched("policy"), "add", "remove") =
              {a \in members : Told("policy", {"add", "remove"}, a)}
  BY TruncatedReplay DEF FlagsLogged
<1> QED BY <1>2, <1>4, <1>5, <1>6, <1>7

LEMMA LoadTokenStep ==
  ASSUME IInv, LoadToken
  PROVE  IInv'
<1> USE DEF IInv
<1> DEFINE F == ReplaySet(Fetched("token"), "freeze", "unfreeze")
           R == RegisteredAccounts(Fetched("token"))
<1>1. /\ page' = [page EXCEPT !.pc = IF HasPolicy THEN "policy" ELSE "idle",
                    !.registered = R, !.frozen = F,
                    !.loaded = IF HasPolicy THEN Len(log) ELSE 0]
      /\ UNCHANGED <<contractVars, aged>>
  BY DEF LoadToken, Becomes
<1>2. R \subseteq Accounts /\ F \subseteq frozen /\ (aged = 0 => F = frozen)
  BY ListsRead
<1> HIDE DEF F, R
<1>3. page \in Page /\ Len(log) \in 0 .. MaxLog /\ frozen \subseteq Accounts
  BY DEF TypeOK, LogBounded
<1>4. page' \in Page
  <2>1. R \in SUBSET Accounts /\ F \in SUBSET Accounts
    BY <1>2, <1>3
  <2>2. (IF HasPolicy THEN Len(log) ELSE 0) \in 0 .. MaxLog
    BY <1>3
  <2>3. (IF HasPolicy THEN "policy" ELSE "idle") \in {"idle", "token", "policy", "sent"}
    OBVIOUS
  <2> QED BY <1>1, <1>3, <2>1, <2>2, <2>3 DEF Page
<1>5. page'.pc = "policy" => page'.loaded = Len(log) /\ page'.frozen = F
  BY <1>1, <1>3 DEF Page
<1>6. page'.pc # "sent"
  BY <1>1, <1>3 DEF Page
<1>7. Len(log) <= Len(log)
  BY <1>3
<1> QED BY <1>1, <1>2, <1>4, <1>5, <1>6, <1>7, PageStep

LEMMA LoadPolicyStep ==
  ASSUME IInv, LoadPolicy
  PROVE  IInv'
<1> USE DEF IInv
<1> DEFINE M == ReplaySet(Fetched("policy"), "add", "remove")
<1>1. /\ page' = [page EXCEPT !.pc = "idle", !.loaded = 0, !.members = M]
      /\ UNCHANGED <<contractVars, aged>>
  BY DEF LoadPolicy, Becomes
<1>2. M \subseteq members
  BY ListsRead
<1> HIDE DEF M
<1>3. page \in Page /\ members \subseteq Accounts
  BY DEF TypeOK
<1>4. page' \in Page /\ page'.pc = "idle"
  <2>1. M \in SUBSET Accounts
    BY <1>2, <1>3
  <2>2. 0 \in 0 .. MaxLog
    OBVIOUS
  <2> QED BY <1>1, <1>3, <2>1, <2>2 DEF Page
<1> QED BY <1>1, <1>4, PageStep

\* The page starts another load or drops one.
LEMMA IdlePage ==
  ASSUME IInv, LoadFails \/ Reload \/ Refused \/ GiveUp
  PROVE  IInv'
<1>1. page \in Page
  BY DEF IInv, TypeOK
<1>2. page' \in Page /\ page'.pc \in {"idle", "token"}
  <2>1. CASE LoadFails
    BY <1>1, <2>1, 0 \in 0 .. MaxLog DEF LoadFails, Becomes, Page
  <2>2. CASE Reload
    BY <1>1, <2>2 DEF Reload, Becomes, Page
  <2>3. CASE Refused
    BY <1>1, <2>3 DEF Refused, Becomes, Page
  <2>4. CASE GiveUp
    BY <1>1, <2>4 DEF GiveUp, Becomes, Page
  <2> QED BY <2>1, <2>2, <2>3, <2>4
<1>3. UNCHANGED <<contractVars, aged>>
  BY DEF LoadFails, Reload, Refused, GiveUp, Becomes
<1> QED BY <1>2, <1>3, PageStep

\* The page loses its lists under whatever it awaits.
LEMMA RemountStep ==
  ASSUME IInv, Remount
  PROVE  IInv'
<1>1. page \in Page
  BY DEF IInv, TypeOK
<1>2. BlankPage \in Page
  BY DEF BlankPage, Page
<1>3. /\ page' = [BlankPage EXCEPT !.pc = page.pc, !.loaded = page.loaded, !.tx = page.tx]
      /\ UNCHANGED <<contractVars, aged>>
  BY DEF Remount, Becomes
<1>4. page' \in Page
  <2>1. page.pc \in {"idle", "token", "policy", "sent"} /\ page.loaded \in 0 .. MaxLog
        /\ page.tx \in Tx \cup {NoTx}
    BY <1>1 DEF Page
  <2> HIDE DEF BlankPage
  <2> QED BY <1>2, <1>3, <2>1 DEF Page
<1>5. /\ page'.pc = page.pc /\ page'.loaded = page.loaded /\ page'.tx = page.tx
      /\ page'.registered = {}
  BY <1>3 DEF BlankPage
<1>6. page.pc = "sent" => page.tx \in Tx
  BY DEF IInv, SentSigned
<1>7. page.pc = "policy" => page.loaded <= Len(log)
  BY DEF IInv, FrozenAsRead
<1> QED BY <1>3, <1>4, <1>5, <1>6, <1>7, PageStep

LEMMA SubmitStep ==
  ASSUME IInv, NEW op \in Ops, NEW a \in Accounts, Submit(op, a)
  PROVE  IInv'
<1> DEFINE tx == [op |-> op, account |-> a, signer |-> page.signer]
<1>1. page \in Page /\ page.signer # NoOwner
  BY DEF IInv, TypeOK, Submit, IsAdmin
<1>2. tx \in Tx
  BY <1>1 DEF Page, Tx
<1>3. page' = [page EXCEPT !.pc = "sent", !.tx = tx] /\ UNCHANGED <<contractVars, aged>>
  BY DEF Submit, Becomes
<1> HIDE DEF tx
<1>4. page' \in Page /\ page'.pc = "sent" /\ page'.tx = tx
  BY <1>1, <1>2, <1>3 DEF Page
<1> QED BY <1>2, <1>3, <1>4, PageStep

LEMMA ConfirmedStep ==
  ASSUME IInv, Confirmed
  PROVE  IInv'
<1>1. page \in Page /\ page.tx \in Tx
  BY DEF IInv, TypeOK, SentSigned, Confirmed
<1>2. ContractsKept
  BY <1>1, CallKeeps DEF Confirmed, Tx
<1>3. page' \in Page /\ page'.pc = "token" /\ UNCHANGED aged
  BY <1>1 DEF Confirmed, Page
<1> QED BY <1>1, <1>2, <1>3, ContractsStep

LEMMA ElsewhereStep ==
  ASSUME IInv, Elsewhere
  PROVE  IInv'
<1> USE DEF IInv
<1>1. UNCHANGED <<aged, page>>
  BY DEF Elsewhere
<1>2. ContractsKept
  <2>1. ASSUME NEW a \in Accounts, Register(a) PROVE ContractsKept
    BY <2>1, RegisterKeeps
  <2>2. ASSUME NEW c \in Contracts, NEW o \in Owners, AcceptOwnership(c, o)
        PROVE  ContractsKept
    BY <2>2, OwnersKeep DEF AcceptOwnership, TypeOK
  <2>3. ASSUME NEW a \in Accounts, NEW op \in Ops, NEW o \in Owners,
               Call([op |-> op, account |-> a, signer |-> o])
        PROVE  ContractsKept
    BY <2>3, CallKeeps
  <2>4. CASE Configure
    BY <2>4, OwnersKeep DEF Configure, TypeOK
  <2> QED BY <2>1, <2>2, <2>3, <2>4 DEF Elsewhere
<1> QED BY <1>1, <1>2, ContractsStep

LEMMA AgeOutStep ==
  ASSUME IInv, AgeOut
  PROVE  IInv'
<1> USE DEF IInv
<1>1. aged' = aged + 1 /\ aged \in 0 .. Len(log) /\ aged < Len(log) /\ Len(log) \in Nat
      /\ UNCHANGED <<contractVars, page>>
  BY DEF AgeOut, TypeOK
<1>2. TypeOK'
  BY <1>1 DEF TypeOK, contractVars
<1>3. FlagsLogged' /\ LogBounded' /\ SentSigned'
  BY <1>1 DEF FlagsLogged, LogBounded, SentSigned, Standing, Marked, Of, Changes, contractVars
<1>4. FrozenAsRead'
  BY <1>1 DEF FrozenAsRead, contractVars
<1> QED BY <1>2, <1>3, <1>4

LEMMA NextStep ==
  ASSUME IInv, [Next]_vars
  PROVE  IInv'
<1>1. ASSUME UNCHANGED vars PROVE IInv'
  <2>1. UNCHANGED <<contractVars, aged>> /\ page' = page
    BY <1>1 DEF vars
  <2>2. page \in Page
    BY DEF IInv, TypeOK
  <2> QED BY <2>1, <2>2, PageStep DEF IInv, SentSigned, FrozenAsRead
<1>2. ASSUME NEW op \in Ops, NEW a \in Accounts, Submit(op, a) PROVE IInv'
  BY <1>2, SubmitStep
<1> QED BY <1>1, <1>2, ElsewhereStep, AgeOutStep, OpenPage, LoadTokenStep, LoadPolicyStep,
           IdlePage, RemountStep, ConfirmedStep DEF Next

\* Every reachable state of the page and the contracts satisfies IInv.
THEOREM Invariance == Spec => []IInv
<1>1. IInv /\ [Next]_vars => IInv'
  BY NextStep
<1> QED BY <1>1, InitIInv, PTL DEF Spec

\* A list of the page only ever holds accounts, and what it sends is a transaction
\* of an owner (TypeOK).
THEOREM TypeCorrect == Spec => []TypeOK
<1>1. IInv => TypeOK
  BY DEF IInv
<1> QED BY <1>1, Invariance, PTL

-----------------------------------------------------------------------------
(* What the page shows *)

\* A list that was just read holds the accounts that are flagged on the
\* contract and whose last change is still served, and no others (ListsExact).
THEOREM ListsTellTheFlags == Spec => ListsExact
<1>1. ASSUME IInv
      PROVE  /\ LoadToken => page'.frozen =
                  {a \in frozen : Told("token", {"freeze", "unfreeze"}, a)}
             /\ LoadPolicy => page'.members =
                  {a \in members : Told("policy", {"add", "remove"}, a)}
  <2>1. page \in Page
    BY <1>1 DEF IInv, TypeOK
  <2>2. LoadToken => page'.frozen = ReplaySet(Fetched("token"), "freeze", "unfreeze")
    BY <2>1 DEF LoadToken, Becomes, Page
  <2>3. LoadPolicy => page'.members = ReplaySet(Fetched("policy"), "add", "remove")
    BY <2>1 DEF LoadPolicy, Becomes, Page
  <2> QED BY <1>1, <2>2, <2>3, ListsRead
<1>2. IInv => [/\ LoadToken => page'.frozen =
                    {a \in frozen : Told("token", {"freeze", "unfreeze"}, a)}
               /\ LoadPolicy => page'.members =
                    {a \in members : Told("policy", {"add", "remove"}, a)}]_vars
  BY <1>1
<1> QED BY <1>2, Invariance, PTL DEF ListsExact

\* After a quiet load the lists are the contracts' sets; the page that was reset
\* under the load lists no account.
LEMMA QuietLoadReads ==
  ASSUME IInv, QuietLoad
  PROVE  /\ page'.frozen = frozen \/ page'.registered = {}
         /\ kind' = kind
         /\ HasPolicy => page'.members = members
         /\ page'.registered \subseteq Accounts
<1> USE DEF IInv
<1>1. page \in Page /\ aged = 0
  BY DEF TypeOK, QuietLoad
<1>2. CASE LoadToken /\ ~HasPolicy
  <2>1. /\ page'.frozen = ReplaySet(Fetched("token"), "freeze", "unfreeze")
        /\ page'.registered = RegisteredAccounts(Fetched("token"))
    BY <1>1, <1>2 DEF LoadToken, Becomes, Page
  <2>2. kind' = kind
    BY <1>2 DEF LoadToken, Becomes, contractVars
  <2> QED BY <1>1, <1>2, <2>1, <2>2, ListsRead
<1>3. CASE LoadPolicy /\ page.loaded = Len(log)
  <2>1. /\ page'.members = ReplaySet(Fetched("policy"), "add", "remove")
        /\ page'.registered = page.registered /\ page'.frozen = page.frozen
    BY <1>1, <1>3 DEF LoadPolicy, Becomes, Page
  <2>2. kind' = kind /\ page.pc = "policy"
    BY <1>3 DEF LoadPolicy, Becomes, contractVars
  <2>3. page.frozen = frozen \/ page.registered = {}
    BY <1>1, <1>3, <2>2 DEF FrozenAsRead
  <2>4. page.registered \subseteq Accounts
    BY <1>1 DEF Page
  <2> QED BY <1>1, <2>1, <2>2, <2>3, <2>4, ListsRead
<1> QED BY <1>2, <1>3 DEF QuietLoad

\* What the table says of a registered account after such a load is what the
\* token's hooks will do with its next operation (StatusTellsGate).
THEOREM StatusIsTheGate == Spec => StatusTellsGate
<1> DEFINE A == QuietLoad => \A a \in page'.registered \ SacDenied :
                               (Status(a)' = "active") <=> Authorized(a)
<1>1. IInv => A
  <2> SUFFICES ASSUME IInv, QuietLoad, NEW a \in page'.registered \ SacDenied
               PROVE  (Status(a)' = "active") <=> Authorized(a)
    OBVIOUS
  <2>1. /\ page'.frozen = frozen /\ kind' = kind
        /\ HasPolicy => page'.members = members
    BY QuietLoadReads, page'.registered # {}
  <2>2. kind \in {"compliance", "allowlist", "blocklist"} /\ policy = HasPolicy
    BY DEF IInv, TypeOK, QuietLoad
  <2>3. CASE a \in frozen
    BY <2>1, <2>3 DEF Status, Authorized
  <2>4. CASE a \notin frozen
    <3>1. Authorized(a) <=> (HasPolicy => PolicyAuthorizes(a))
      BY <2>2, <2>4 DEF Authorized
    <3>2. Status(a)' = IF kind = "allowlist" THEN IF a \in page'.members THEN "active" ELSE "refused"
                       ELSE IF kind = "blocklist"
                              THEN IF a \in page'.members THEN "refused" ELSE "active"
                       ELSE "active"
      BY <2>1, <2>4 DEF Status
    <3> QED BY <2>1, <2>2, <3>1, <3>2 DEF HasPolicy, PolicyAuthorizes
  <2> QED BY <2>3, <2>4
<1>2. IInv => [A]_vars
  BY <1>1
<1>3. Spec => [][A]_vars
  <2> HIDE DEF A
  <2> QED BY <1>2, Invariance, PTL
<1> QED BY <1>3 DEF StatusTellsGate
=============================================================================

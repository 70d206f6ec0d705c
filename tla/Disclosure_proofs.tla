------------------------- MODULE Disclosure_proofs --------------------------
(***************************************************************************)
(* Proofs about Disclosure: its type invariant and, for any number of      *)
(* users, tokens, transfers, proofs, identities and requests, that what    *)
(* the receiver's page shows is true.                                      *)
(***************************************************************************)
EXTENDS Disclosure, TLAPS

\* Every proof that exists seals the amount its event holds, for its own request, and a sender's
\* names the recipient of the ciphertext.
ProofHolds(p) ==
  /\ p.seal = [value |-> p.cipher.value, pR |-> p.pR, nu |-> p.nu]
  /\ p.circuit = "disclose_sender" => p.pvkB = p.cipher.to

SealsHold == \A p \in proofs : ProofHolds(p)

\* An event holds its amount for its recipient.
EventsHold == \A i \in 1 .. Len(events) : events[i].cipher.to = events[i].to

\* What the page checks was made by a holder; once its event is resolved it stays a transfer of the
\* token the button was pressed under, though other transfers follow and old ones age out.
CheckedHolds ==
  LET run == page.run
  IN /\ run.pc # "idle" => run.bundle.proof \in proofs
     /\ run.pc = "proof" => /\ run.bundle.refE \in 1 .. Len(events)
                            /\ events[run.bundle.refE].type = "transfer"
                            /\ events[run.bundle.refE].token = run.token

ShownExists == page.result.shown => page.result.refE \in 1 .. Len(events)

IInv ==
  /\ TypeOK /\ Len(events) <= MaxEvents
  /\ SealsHold /\ EventsHold /\ CheckedHolds /\ ShownExists /\ DisclosureSound

-----------------------------------------------------------------------------
\* Random scalars are drawn, never put back: what named one keeps naming one.
LEMMA RequestsGrow ==
  ASSUME TypeOK, drawn' \in Nat, drawn <= drawn' PROVE Requests \subseteq Requests'
  BY DisclosureAssumption DEF TypeOK, Requests

LEMMA PageFields ==
  ASSUME TypeOK
  PROVE /\ page.keys \in 0 .. drawn /\ page.request \in Requests \cup {NoRequest}
        /\ page.run \in Run /\ page.result \in Result
  BY DEF TypeOK

\* A run that is under way has a bundle of the declared shape.
LEMMA RunFields ==
  ASSUME TypeOK, page.run.pc # "idle"
  PROVE /\ page.run \in [pc : {"resolve", "proof"}, bundle : Bundle, request : Requests, token : Tokens]
        /\ page.run.bundle \in Bundle /\ page.run.request \in Requests /\ page.run.token \in Tokens
<1>1. page.run \in Run
  BY PageFields
<1>2. page.run # Awaiting
  BY DEF Awaiting
<1> QED BY <1>1, <1>2 DEF Run

\* The circuits accept a value only if it is the one of the event, and seal that one.
LEMMA CircuitSeals ==
  ASSUME NEW u \in Users, NEW v \in Values, NEW p \in Inputs, Accepts(u, v, p)
  PROVE ProofHolds(p)
  BY DEF Accepts, RecipientCircuit, SenderCircuit, SealBinds, ProofHolds, Inputs

LEMMA InitHolds == Init => IInv
<1> SUFFICES ASSUME Init PROVE IInv
  OBVIOUS
<1> USE DisclosureAssumption DEF Init
<1>1. page.run = Awaiting /\ page.result = NoResult
  BY DEF BlankPage
<1>2. page \in [keys : 0 .. drawn, request : Requests \cup {NoRequest}, run : Run, result : Result]
  BY DEF BlankPage, Run, Result
<1>3. TypeOK /\ Len(events) <= MaxEvents
  BY <1>2 DEF TypeOK
<1> QED
  BY <1>1, <1>3 DEF IInv, SealsHold, EventsHold, CheckedHolds, ShownExists, DisclosureSound,
                     Awaiting, NoResult

-----------------------------------------------------------------------------
(* One lemma per action: it keeps the invariant. *)

\* The steps that leave the chain, the proofs and what is checked alone, or only let the chain and
\* the set of proofs grow, keep what the page checks and shows true.
LEMMA MoveHolds ==
  ASSUME IInv, NEW token \in Tokens, NEW type \in Types, NEW from \in Users, NEW to \in Users,
         NEW eph \in Users, NEW v \in Values, Move(token, type, from, to, v, eph)
  PROVE IInv'
<1> DEFINE e == [token |-> token, type |-> type, from |-> from, to |-> to,
                 cipher |-> [value |-> v, eph |-> eph, to |-> to]]
<1>1. /\ events' = Append(events, e) /\ Len(events) < MaxEvents
      /\ UNCHANGED <<aged, proofs, drawn, identity, stored, active, page>>
  BY DEF Move, storeVars
<1>2. e \in Event
  BY DEF Event, Cipher
<1>3. events \in Seq(Event) /\ Len(events) \in Nat
  BY DEF IInv, TypeOK
<1>4. /\ events' \in Seq(Event) /\ Len(events') = Len(events) + 1
      /\ \A i \in 1 .. Len(events) : events'[i] = events[i]
  <2> HIDE DEF e
  <2> QED BY <1>1, <1>2, <1>3
<1>5. Len(events') <= MaxEvents
  BY <1>1, <1>3, <1>4, DisclosureAssumption
<1>6. TypeOK'
  <2>1. TypeOK /\ aged \in 0 .. Len(events')
    BY <1>1, <1>3, <1>4 DEF IInv, TypeOK
  <2>2. Requests' = Requests /\ Run' = Run /\ Result' = Result
    BY <1>1 DEF Requests, Run, Result
  <2> QED BY <1>1, <1>4, <2>1, <2>2 DEF TypeOK
<1>7. SealsHold' /\ EventsHold'
  <2>1. e.cipher.to = e.to
    OBVIOUS
  <2>2. events'[Len(events) + 1] = e
    BY <1>1, <1>3
  <2> HIDE DEF e
  <2>3. \A i \in 1 .. Len(events') : i \in 1 .. Len(events) \/ i = Len(events) + 1
    BY <1>3, <1>4
  <2> QED BY <1>1, <1>4, <2>1, <2>2, <2>3 DEF IInv, SealsHold, EventsHold
<1>8. CheckedHolds'
  BY <1>1, <1>3, <1>4 DEF IInv, CheckedHolds
<1>9. ShownExists' /\ DisclosureSound'
  BY <1>1, <1>3, <1>4 DEF IInv, ShownExists, DisclosureSound
<1> QED BY <1>5, <1>6, <1>7, <1>8, <1>9 DEF IInv

LEMMA ProveHolds ==
  ASSUME IInv, NEW u \in Users, NEW i \in DOMAIN events, NEW circuit \in DisclosureCircuits,
         NEW pvkB \in Users, NEW req \in Requests, NEW v \in Values, NEW sealed \in Values,
         Prove(u, i, circuit, pvkB, req, v, sealed)
  PROVE IInv'
<1> DEFINE p == [circuit |-> circuit, token |-> events[i].token, pvkA |-> u,
                 cipher |-> events[i].cipher, pvkB |-> pvkB, pR |-> req.pR, nu |-> req.nu,
                 seal |-> [value |-> sealed, pR |-> req.pR, nu |-> req.nu]]
<1>1. /\ Accepts(u, v, p) /\ proofs' = proofs \cup {p}
      /\ UNCHANGED <<events, aged, drawn, identity, stored, active, page>>
  BY DEF Prove, chainVars, storeVars
<1>2. p \in Inputs
  <2>1. events[i] \in Event
    BY DEF IInv, TypeOK
  <2>2. req.pR \in Nat /\ req.nu \in Nat
    BY DEF Requests
  <2> QED BY <2>1, <2>2 DEF Inputs, Seal, Event
<1>3. ProofHolds(p)
  <2> HIDE DEF p
  <2> QED BY <1>1, <1>2, CircuitSeals
<1> HIDE DEF p
<1>4. TypeOK'
  BY <1>1, <1>2 DEF IInv, TypeOK, Requests, Run, Result
<1>5. SealsHold' /\ EventsHold'
  BY <1>1, <1>3 DEF IInv, SealsHold, EventsHold, ProofHolds
<1>6. CheckedHolds' /\ ShownExists' /\ DisclosureSound'
  BY <1>1 DEF IInv, CheckedHolds, ShownExists, DisclosureSound
<1> QED BY <1>1, <1>4, <1>5, <1>6 DEF IInv

\* A step of the page that draws no scalar keeps the chain's part of the invariant.
LEMMA PageStep ==
  ASSUME IInv, UNCHANGED <<events, proofs, drawn>>,
         aged' \in 0 .. Len(events), identity' \in 0 .. drawn,
         stored' \in Requests \cup {NoRequest}, active' \in Tokens,
         page' \in [keys : 0 .. drawn, request : Requests \cup {NoRequest}, run : Run, result : Result]
  PROVE TypeOK' /\ (Len(events) <= MaxEvents)' /\ SealsHold' /\ EventsHold'
<1>1. Requests' = Requests /\ Run' = Run /\ Result' = Result
  BY DEF Requests, Run, Result
<1>2. TypeOK'
  BY <1>1 DEF IInv, TypeOK
<1> QED BY <1>2 DEF IInv, SealsHold, EventsHold, ProofHolds

LEMMA AgeOutHolds == ASSUME IInv, AgeOut PROVE IInv'
<1>1. UNCHANGED <<events, proofs, drawn, identity, stored, active, page>> /\ aged' \in 0 .. Len(events)
  BY DEF AgeOut, storeVars, IInv, TypeOK
<1>2. TypeOK' /\ (Len(events) <= MaxEvents)' /\ SealsHold' /\ EventsHold'
  BY <1>1, PageStep DEF IInv, TypeOK
<1> QED BY <1>1, <1>2 DEF IInv, CheckedHolds, ShownExists, DisclosureSound

\* The page after a check: nothing runs, and it shows a result of the declared shape.
LEMMA FinishType ==
  ASSUME TypeOK, NEW r \in Result, Finish(r)
  PROVE /\ page' \in [keys : 0 .. drawn, request : Requests \cup {NoRequest}, run : Run, result : Result]
        /\ page'.run = Awaiting /\ page'.result = r
<1>1. page \in [keys : 0 .. drawn, request : Requests \cup {NoRequest}, run : Run, result : Result]
  BY DEF TypeOK
<1>2. Awaiting \in Run
  BY DEF Run
<1> HIDE DEF Run, Result, Requests
<1> QED BY <1>1, <1>2 DEF Finish

\* A page that shows no result and checks nothing, or what it checked before.
LEMMA QuietStep ==
  ASSUME IInv, UNCHANGED <<events, proofs>>, ~page'.result.shown,
         page'.run = Awaiting \/ page'.run = page.run
  PROVE CheckedHolds' /\ ShownExists' /\ DisclosureSound'
  BY DEF IInv, CheckedHolds, ShownExists, DisclosureSound, Awaiting

LEMMA NoResultType == NoResult \in Result /\ ~NoResult.shown
  BY DEF NoResult, Result

LEMMA RejectHolds == ASSUME IInv, RejectBundle \/ VerifyFails PROVE IInv'
<1>1. UNCHANGED <<events, aged, proofs, drawn, identity, stored, active>> /\ Finish(NoResult)
  BY DEF RejectBundle, VerifyFails, chainVars, storeVars
<1>2. /\ page' \in [keys : 0 .. drawn, request : Requests \cup {NoRequest}, run : Run, result : Result]
      /\ page'.run = Awaiting /\ page'.result = NoResult
  BY <1>1, FinishType, NoResultType DEF IInv
<1>3. TypeOK' /\ (Len(events) <= MaxEvents)' /\ SealsHold' /\ EventsHold'
  BY <1>1, <1>2, PageStep DEF IInv, TypeOK
<1> QED BY <1>1, <1>2, <1>3, QuietStep, NoResultType DEF IInv

LEMMA SwitchHolds == ASSUME IInv, SwitchDeployment PROVE IInv'
<1>1. UNCHANGED <<events, aged, proofs, drawn, identity, stored, page>> /\ active' \in Tokens
  BY DEF SwitchDeployment, chainVars, storeVars
<1>2. TypeOK' /\ (Len(events) <= MaxEvents)' /\ SealsHold' /\ EventsHold'
  BY <1>1, PageStep DEF IInv, TypeOK
<1> QED BY <1>1, <1>2 DEF IInv, CheckedHolds, ShownExists, DisclosureSound

LEMMA LeaveHolds == ASSUME IInv, NEW forget \in BOOLEAN, Leave(forget) PROVE IInv'
<1>1. /\ UNCHANGED <<events, aged, proofs, drawn, active>> /\ page' = BlankPage
      /\ identity' \in {0, identity} /\ stored' \in {NoRequest, stored}
  BY DEF Leave, chainVars
<1>2. BlankPage.run = Awaiting /\ BlankPage.result = NoResult
  BY DEF BlankPage
<1>3. BlankPage \in [keys : 0 .. drawn, request : Requests \cup {NoRequest}, run : Run, result : Result]
  BY NoResultType, DisclosureAssumption DEF BlankPage, Run, IInv, TypeOK
<1>4. identity' \in 0 .. drawn /\ stored' \in Requests \cup {NoRequest}
  BY <1>1 DEF IInv, TypeOK
<1>5. TypeOK' /\ (Len(events) <= MaxEvents)' /\ SealsHold' /\ EventsHold'
  BY <1>1, <1>3, <1>4, PageStep DEF IInv, TypeOK
<1> QED BY <1>1, <1>2, <1>5, QuietStep, NoResultType DEF IInv

\* The page draws a scalar: requests that exist stay requests.
LEMMA DrawStep ==
  ASSUME IInv, UNCHANGED <<events, aged, proofs, active>>,
         drawn' \in drawn .. MaxDraws, identity' \in 0 .. drawn',
         stored' \in Requests' \cup {NoRequest},
         NEW req \in Requests' \cup {NoRequest}, NEW k \in 0 .. drawn',
         page' \in {[page EXCEPT !.keys = k, !.request = req],
                    [page EXCEPT !.request = req, !.result = NoResult]}
  PROVE IInv'
<1>1. TypeOK
  BY DEF IInv
<1>2. Requests \subseteq Requests'
  BY <1>1, RequestsGrow, DisclosureAssumption DEF TypeOK
<1>3. Run \subseteq Run' /\ Result \subseteq Result'
  BY <1>2 DEF Run, Result
<1>4. page \in [keys : 0 .. drawn, request : Requests \cup {NoRequest}, run : Run, result : Result]
  BY <1>1 DEF TypeOK
<1>5. /\ page'.run = page.run
      /\ page'.result = page.result \/ page'.result = NoResult
      /\ page' \in [keys : 0 .. drawn', request : Requests' \cup {NoRequest}, run : Run', result : Result']
  <2>1. page.keys \in 0 .. drawn' /\ NoResult \in Result'
    BY <1>1, <1>3, <1>4, NoResultType, DisclosureAssumption DEF TypeOK
  <2> HIDE DEF Run, Result, Requests, NoRequest, NoResult
  <2> QED BY <1>3, <1>4, <2>1
<1>6. TypeOK'
  BY <1>1, <1>5, DisclosureAssumption DEF TypeOK
<1>7. CheckedHolds' /\ ShownExists' /\ DisclosureSound'
  BY <1>5, NoResultType DEF IInv, CheckedHolds, ShownExists, DisclosureSound
<1> QED BY <1>6, <1>7 DEF IInv, SealsHold, EventsHold, ProofHolds

LEMMA MountHolds == ASSUME IInv, Mount PROVE IInv'
<1> DEFINE key == IF identity = 0 THEN drawn + 1 ELSE identity
           req == IF stored.pR = key THEN stored ELSE NoRequest
<1>1. /\ UNCHANGED <<events, aged, proofs, stored, active>> /\ identity' = key
      /\ identity = 0 => drawn < MaxDraws
      /\ drawn' = IF identity = 0 THEN drawn + 1 ELSE drawn
      /\ page' = [page EXCEPT !.keys = key, !.request = req]
  BY DEF Mount, chainVars
<1>2. drawn \in 0 .. MaxDraws /\ identity \in 0 .. drawn /\ stored \in Requests \cup {NoRequest}
  BY DEF IInv, TypeOK
<1>3. drawn' \in drawn .. MaxDraws /\ key \in 0 .. drawn'
  BY <1>1, <1>2, DisclosureAssumption
<1>4. Requests \subseteq Requests'
  BY <1>2, <1>3, RequestsGrow, DisclosureAssumption DEF IInv
<1>5. stored' \in Requests' \cup {NoRequest} /\ req \in Requests' \cup {NoRequest}
  BY <1>1, <1>2, <1>4
<1> HIDE DEF key, req
<1> QED BY <1>1, <1>3, <1>5, DrawStep

LEMMA MintHolds == ASSUME IInv, MintRequest PROVE IInv'
<1> DEFINE req == [pR |-> page.keys, nu |-> drawn + 1]
<1>1. /\ UNCHANGED <<events, aged, proofs, identity, active>> /\ drawn' = drawn + 1 /\ stored' = req
      /\ page.keys # 0 /\ drawn < MaxDraws
      /\ page' = [page EXCEPT !.request = req, !.result = NoResult]
  BY DEF MintRequest, chainVars
<1>2. drawn \in 0 .. MaxDraws /\ identity \in 0 .. drawn /\ page.keys \in 0 .. drawn
  BY PageFields DEF IInv, TypeOK
<1>3. drawn' \in drawn .. MaxDraws /\ identity' \in 0 .. drawn' /\ page.keys \in 0 .. drawn'
  BY <1>1, <1>2, DisclosureAssumption
<1>4. req \in Requests'
  BY <1>1, <1>2, DisclosureAssumption DEF Requests
<1> HIDE DEF req
<1> QED BY <1>1, <1>3, <1>4, DrawStep

LEMMA VerifyHolds == ASSUME IInv, NEW b \in Bundles, Verify(b) PROVE IInv'
<1> DEFINE run == [pc |-> "resolve", bundle |-> b, request |-> page.request, token |-> active]
<1>1. /\ UNCHANGED <<events, aged, proofs, drawn, identity, stored, active>>
      /\ page.request # NoRequest
      /\ page' = [page EXCEPT !.result = NoResult, !.run = run]
  BY DEF Verify, chainVars, storeVars
<1>2. b \in Bundle /\ b.proof \in proofs
  <2>1. 0 .. Len(events) \subseteq 0 .. MaxEvents /\ proofs \subseteq Inputs
    BY DisclosureAssumption DEF IInv, TypeOK
  <2>2. \A p \in proofs : p.seal \in Seal
    BY <2>1 DEF Inputs
  <2> QED BY <2>1, <2>2 DEF Bundles, Bundle
<1>3. page.request \in Requests /\ active \in Tokens
  BY <1>1, PageFields DEF IInv, TypeOK
<1>4. run \in Run
  BY <1>2, <1>3 DEF Run
<1>5. page \in [keys : 0 .. drawn, request : Requests \cup {NoRequest}, run : Run, result : Result]
  BY DEF IInv, TypeOK
<1>6. /\ page' \in [keys : 0 .. drawn, request : Requests \cup {NoRequest}, run : Run, result : Result]
      /\ page'.run = run /\ page'.result = NoResult
  <2> HIDE DEF run, Run, Result, Requests
  <2> QED BY <1>1, <1>4, <1>5, NoResultType
<1>7. TypeOK' /\ (Len(events) <= MaxEvents)' /\ SealsHold' /\ EventsHold'
  BY <1>1, <1>6, PageStep DEF IInv, TypeOK
<1>8. CheckedHolds' /\ ShownExists' /\ DisclosureSound'
  BY <1>1, <1>2, <1>6, NoResultType DEF CheckedHolds, ShownExists, DisclosureSound
<1> QED BY <1>7, <1>8 DEF IInv

LEMMA ResolveHolds == ASSUME IInv, ResolveEvent PROVE IInv'
<1>1. /\ UNCHANGED <<events, aged, proofs, drawn, identity, stored, active>>
      /\ page.run.pc = "resolve" /\ Disclosable(page.run)
      /\ page' = [page EXCEPT !.run.pc = "proof"]
  BY DEF ResolveEvent, chainVars, storeVars
<1>2. page \in [keys : 0 .. drawn, request : Requests \cup {NoRequest}, run : Run, result : Result]
  BY DEF IInv, TypeOK
<1>3. page.run \in [pc : {"resolve", "proof"}, bundle : Bundle, request : Requests, token : Tokens]
  BY <1>1, RunFields DEF IInv
<1>4. [page.run EXCEPT !.pc = "proof"] \in Run
  BY <1>3 DEF Run
<1>5. /\ page' \in [keys : 0 .. drawn, request : Requests \cup {NoRequest}, run : Run, result : Result]
      /\ page'.run = [page.run EXCEPT !.pc = "proof"] /\ page'.result = page.result
  <2> HIDE DEF Run, Result, Requests
  <2> QED BY <1>1, <1>2, <1>4
<1>6. TypeOK' /\ (Len(events) <= MaxEvents)' /\ SealsHold' /\ EventsHold'
  BY <1>1, <1>5, PageStep DEF IInv, TypeOK
<1>7. /\ page.run.bundle.refE \in 1 .. Len(events)
      /\ events[page.run.bundle.refE].type = "transfer"
      /\ events[page.run.bundle.refE].token = page.run.token
  BY <1>1 DEF Disclosable, Resolves, IInv, TypeOK
<1>8. page'.run.bundle = page.run.bundle /\ page'.run.token = page.run.token
  BY <1>3, <1>5
<1>9. CheckedHolds'
  BY <1>1, <1>7, <1>8 DEF IInv, CheckedHolds
<1>10. ShownExists' /\ DisclosureSound'
  BY <1>1, <1>5 DEF IInv, ShownExists, DisclosureSound
<1> QED BY <1>6, <1>9, <1>10 DEF IInv

\* The proof was made for the inputs the page recomputed from the chain and from its own request, so
\* the value sealed in the bundle is the one of the event.
LEMMA AcceptHolds == ASSUME IInv, AcceptBundle PROVE IInv'
<1> DEFINE run == page.run
           i == run.bundle.refE
           q == PublicInputs(run)
           party == IF run.bundle.circuit = "disclose_sender" THEN events[i].from ELSE events[i].to
           result == [shown |-> TRUE, request |-> run.request, refE |-> i, party |-> party,
                      amount |-> run.bundle.seal.value]
<1>1. /\ UNCHANGED <<events, aged, proofs, drawn, identity, stored, active>>
      /\ run.pc = "proof" /\ run.bundle.proof = q /\ Finish(result)
  BY DEF AcceptBundle, chainVars, storeVars
<1>2. run.bundle \in Bundle /\ run.request \in Requests /\ run.token \in Tokens
  BY <1>1, RunFields DEF IInv
<1>3. /\ i \in 1 .. Len(events) /\ events[i].type = "transfer" /\ events[i].token = run.token
      /\ run.bundle.proof \in proofs
  BY <1>1 DEF IInv, CheckedHolds
<1>4. events[i] \in Event
  BY <1>3 DEF IInv, TypeOK
<1>5. /\ q.seal = run.bundle.seal /\ q.cipher = events[i].cipher /\ q.token = run.token
      /\ q.pvkA = party /\ q.pR = run.request.pR /\ q.nu = run.request.nu
  BY DEF PublicInputs
<1>6. run.bundle.seal.value = events[i].cipher.value
  <2>1. q.seal = [value |-> q.cipher.value, pR |-> q.pR, nu |-> q.nu]
    BY <1>1, <1>3 DEF IInv, SealsHold, ProofHolds
  <2> QED BY <1>5, <2>1
<1>7. result \in Result
  <2>1. i \in 1 .. MaxEvents
    BY <1>3, DisclosureAssumption DEF IInv, TypeOK
  <2>2. party \in Users /\ run.bundle.seal.value \in Values
    BY <1>4, <1>6 DEF Event, Cipher
  <2> QED BY <1>2, <2>1, <2>2 DEF Result
<1>8. /\ page' \in [keys : 0 .. drawn, request : Requests \cup {NoRequest}, run : Run, result : Result]
      /\ page'.run = Awaiting /\ page'.result = result
  <2> HIDE DEF result
  <2> QED BY <1>1, <1>7, FinishType DEF IInv
<1>9. TypeOK' /\ (Len(events) <= MaxEvents)' /\ SealsHold' /\ EventsHold'
  BY <1>1, <1>8, PageStep DEF IInv, TypeOK
<1>10. CheckedHolds'
  BY <1>8 DEF CheckedHolds, Awaiting
<1>11. /\ result.refE = i /\ result.party = party /\ result.amount = run.bundle.seal.value
       /\ result.request = run.request
  OBVIOUS
<1>12. ShownExists'
  BY <1>1, <1>3, <1>8, <1>11 DEF ShownExists
<1>13. DisclosureSound'
  <2>1. party \in {events[i].from, events[i].to}
    OBVIOUS
  <2>2. q \in proofs
    BY <1>1, <1>3
  <2> HIDE DEF result, q, party, i, run
  <2> QED BY <1>1, <1>3, <1>5, <1>6, <1>8, <1>11, <2>1, <2>2 DEF DisclosureSound
<1> QED BY <1>9, <1>10, <1>12, <1>13 DEF IInv

-----------------------------------------------------------------------------
\* Every step of the system keeps the invariant.
LEMMA NextHolds == IInv /\ [Next]_vars => IInv'
<1> SUFFICES ASSUME IInv, [Next]_vars PROVE IInv'
  OBVIOUS
<1>1. CASE \E token \in Tokens, type \in Types, from, to, eph \in Users, v \in Values :
             Move(token, type, from, to, v, eph)
  BY <1>1, MoveHolds
<1>2. CASE AgeOut
  BY <1>2, AgeOutHolds
<1>3. CASE \E u, pvkB \in Users, i \in DOMAIN events, circuit \in DisclosureCircuits,
              req \in Requests, v, sealed \in Values : Prove(u, i, circuit, pvkB, req, v, sealed)
  BY <1>3, ProveHolds
<1>4. CASE Mount
  BY <1>4, MountHolds
<1>5. CASE MintRequest
  BY <1>5, MintHolds
<1>6. CASE \E b \in Bundles : Verify(b)
  BY <1>6, VerifyHolds
<1>7. CASE ResolveEvent
  BY <1>7, ResolveHolds
<1>8. CASE AcceptBundle
  BY <1>8, AcceptHolds
<1>9. CASE RejectBundle \/ VerifyFails
  BY <1>9, RejectHolds
<1>10. CASE \E forget \in BOOLEAN : Leave(forget)
  BY <1>10, LeaveHolds
<1>11. CASE SwitchDeployment
  BY <1>11, SwitchHolds
<1>12. CASE UNCHANGED vars
  <2>1. UNCHANGED <<events, aged, proofs, drawn, identity, stored, active, page>>
    BY <1>12 DEF vars, chainVars, storeVars
  <2>2. TypeOK' /\ (Len(events) <= MaxEvents)' /\ SealsHold' /\ EventsHold'
    BY <2>1, PageStep DEF IInv, TypeOK
  <2> QED BY <2>1, <2>2 DEF IInv, CheckedHolds, ShownExists, DisclosureSound
<1> QED
  BY <1>1, <1>2, <1>3, <1>4, <1>5, <1>6, <1>7, <1>8, <1>9, <1>10, <1>11, <1>12 DEF Next

LEMMA InvariantHolds == Spec => []IInv
<1> QED BY InitHolds, NextHolds, PTL DEF Spec

\* A rejected bundle was not an honest answer: the inputs the page recomputes are those the honest
\* proof was made with.
LEMMA RejectsDishonest == ASSUME IInv, RejectBundle PROVE ~HonestRun(page.run)
<1> DEFINE run == page.run
           i == run.bundle.refE
           q == run.bundle.proof
<1> SUFFICES ASSUME HonestRun(run) PROVE FALSE
  OBVIOUS
<1>1. Resolves(run) /\ events[i].type = "transfer"
  BY DEF HonestRun
<1>2. run.pc = "proof" /\ q # PublicInputs(run)
  BY <1>1 DEF RejectBundle, Disclosable
<1>3. q \in proofs /\ i \in 1 .. Len(events)
  BY <1>2 DEF IInv, CheckedHolds
<1>4. q \in Inputs /\ ProofHolds(q) /\ events[i].cipher.to = events[i].to
  BY <1>3 DEF IInv, TypeOK, SealsHold, EventsHold
<1>5. run.request \in Requests
  BY <1>2, RunFields DEF IInv
<1>6. q.pR = run.request.pR /\ q.nu = run.request.nu
  BY DEF HonestRun
<1>7. /\ q.circuit = run.bundle.circuit /\ q.seal = run.bundle.seal /\ q.token = run.token
      /\ q.cipher = events[i].cipher
      /\ q.pvkA = IF run.bundle.circuit = "disclose_sender" THEN events[i].from ELSE events[i].to
  BY DEF HonestRun
<1>8. q.circuit = "disclose_sender" => q.pvkB = events[i].to
  BY <1>4, <1>7 DEF ProofHolds
<1>9. q = [circuit |-> q.circuit, token |-> q.token, pvkA |-> q.pvkA, cipher |-> q.cipher,
           pvkB |-> q.pvkB, pR |-> q.pR, nu |-> q.nu, seal |-> q.seal]
  <2> HIDE DEF q
  <2> QED BY <1>4 DEF Inputs
<1> QED BY <1>2, <1>6, <1>7, <1>8, <1>9 DEF PublicInputs

\* The variables of the disclosure protocol keep their types, whatever the instance.
THEOREM TypeCorrect == Spec => []TypeOK
<1>1. IInv => TypeOK
  BY DEF IInv
<1> QED BY <1>1, InvariantHolds, PTL

\* The receiver's page never shows an untrue amount: for any number of transfers, holders, requests,
\* identities and deployments, and any pasting of bundles (verify.ts, page.tsx, the two circuits).
THEOREM ShownIsTrue == Spec => []DisclosureSound
<1>1. IInv => DisclosureSound
  BY DEF IInv
<1> QED BY <1>1, InvariantHolds, PTL

\* An honest answer is never rejected, whatever happened to the page while it was being checked: the
\* checks of the page and the statements of the circuits agree on every public input.
THEOREM HonestNeverRejected == Spec => HonestAccepted
<1>1. IInv /\ [Next]_vars => [RejectBundle => ~HonestRun(page.run)]_vars
  BY RejectsDishonest
<1> QED BY <1>1, InvariantHolds, PTL DEF Spec, HonestAccepted
=============================================================================

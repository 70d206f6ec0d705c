----------------------------- MODULE Disclosure -----------------------------
(***************************************************************************)
(* Selective disclosure: a third party asks, with a request that only its  *)
(* browser can open; a party of an on-chain transfer answers with a bundle *)
(* that proves the amount; the third party's page checks the bundle        *)
(* against the chain (packages/sdk/src/disclosure, packages/disclosure/    *)
(* circuits, packages/app/app/verify/page.tsx).  Ciphertexts and proofs    *)
(* are the record of what went into them: a proof verifies against public  *)
(* inputs if they are the ones it was made with, a ciphertext opens under  *)
(* its own keys.  Holders may prove whatever the circuits accept and paste *)
(* together whatever they have.                                            *)
(***************************************************************************)
EXTENDS Integers, Sequences, FiniteSets

CONSTANTS
  Users,      \* accounts, registered on every token
  Tokens,     \* tokens of the deployments the page can be switched to
  Values,     \* bound: amounts transferred and claimed
  Indexer,    \* a Goldsky indexer is configured
  MaxEvents,  \* bound: number of on-chain transfers
  MaxMade,    \* bound: number of transfers and proofs together
  MaxDraws    \* bound: identities and nonces drawn by the page

Types == {"transfer", "spender_transfer"}
DisclosureCircuits == {"disclose_recipient", "disclose_sender"}

ASSUME DisclosureAssumption ==
  /\ Values \subseteq Nat
  /\ Indexer \in BOOLEAN
  /\ {MaxEvents, MaxMade, MaxDraws} \subseteq Nat

VARIABLES
  events,    \* transfers on the tokens, in chain order
  aged,      \* how many of them no service resolves any more
  proofs,    \* proofs made by holders
  drawn,     \* random scalars drawn by the page
  identity,  \* stored secret of the receiver, 0 if there is none
  stored,    \* stored request
  active,    \* token of the active deployment
  page       \* what the mounted page holds

chainVars == <<events, aged>>
storeVars == <<identity, stored>>
vars == <<chainVars, proofs, drawn, storeVars, active, page>>

\* One scalar stands for r_R and for P_R = r_R * H.
Request == [pR : Nat, nu : Nat]
NoRequest == [pR |-> 0, nu |-> 0]

\* A nonce is drawn after the identity it is sent with.
Requests == {r \in [pR : 1 .. drawn, nu : 1 .. drawn] : r.pR < r.nu}

\* R_e tells who sampled r_e; `cipher` is v_tilde, masked by r_e * PVK_to.
Cipher == [value : Values, eph : Users, to : Users]
Event == [token : Tokens, type : Types, from : Users, to : Users, cipher : Cipher]

\* v_tilde_disc: the value sealed to a request's key and nonce.
Seal == [value : Values, pR : Nat, nu : Nat]

\* The public inputs of the circuits.  addr_f is the token's, since viewing
\* keys are bound to it; pvkB is only used by disclose_sender.
Inputs == [circuit : DisclosureCircuits, token : Tokens, pvkA : Users, cipher : Cipher,
           pvkB : Users, pR : Nat, nu : Nat, seal : Seal]

\* refE is the place of an event in chain order, 0 if it names none.
Bundle == [circuit : DisclosureCircuits, refE : 0 .. MaxEvents, proof : Inputs, seal : Seal]

NoResult == [shown |-> FALSE]
Awaiting == [pc |-> "idle"]
BlankPage == [keys |-> 0, request |-> NoRequest, run |-> Awaiting, result |-> NoResult]

Init ==
  /\ events = <<>> /\ aged = 0
  /\ proofs = {} /\ drawn = 0
  /\ identity = 0 /\ stored = NoRequest
  /\ active \in Tokens
  /\ page = BlankPage

-----------------------------------------------------------------------------
(* Chain *)

Room == Len(events) + Cardinality(proofs) < MaxMade

\* The token's circuits make the ciphertext of an event true: it holds the
\* amount moved, for the recipient.  A delegated transfer has its spender's r_e.
Move(token, type, from, to, v, eph) ==
  /\ Len(events) < MaxEvents /\ Room
  /\ from # to
  /\ type = "transfer" => eph = from
  /\ events' = Append(events, [token |-> token, type |-> type, from |-> from, to |-> to,
                               cipher |-> [value |-> v, eph |-> eph, to |-> to]])
  /\ UNCHANGED <<aged, proofs, drawn, storeVars, active, page>>

\* Events leave the RPC's window and are gone if no indexer kept them.
AgeOut ==
  /\ ~Indexer /\ aged < Len(events)
  /\ aged' = aged + 1
  /\ UNCHANGED <<events, proofs, drawn, storeVars, active, page>>

-----------------------------------------------------------------------------
(* Holders *)

\* D1-D4: the owner of PVK_A decrypts the event to v with its viewing key.
RecipientCircuit(u, v, p) ==
  /\ p.pvkA = u
  /\ p.cipher.to = u /\ p.cipher.value = v

\* D1, D2, DS3-DS5: the owner of PVK_A knows r_e and decrypts as PVK_B would.
SenderCircuit(u, v, p) ==
  /\ p.pvkA = u
  /\ p.cipher.eph = u /\ p.pvkB = p.cipher.to /\ p.cipher.value = v

\* Mutated form of SealBinds: U3 is left out, any value may be sealed.
SealsAnything(v, p) == p.seal.pR = p.pR /\ p.seal.nu = p.nu

\* U1-U3: the sealed value is the one decrypted, for this key and this nonce.
SealBinds(v, p) == p.seal = [value |-> v, pR |-> p.pR, nu |-> p.nu]

Accepts(u, v, p) ==
  /\ IF p.circuit = "disclose_recipient" THEN RecipientCircuit(u, v, p) ELSE SenderCircuit(u, v, p)
  /\ SealBinds(v, p)

\* A holder answers a request (any key and nonce it has been shown), for any
\* event it names, and seals what it likes.
Prove(u, i, circuit, pvkB, req, v, sealed) ==
  LET p == [circuit |-> circuit, token |-> events[i].token, pvkA |-> u,
            cipher |-> events[i].cipher, pvkB |-> pvkB, pR |-> req.pR, nu |-> req.nu,
            seal |-> [value |-> sealed, pR |-> req.pR, nu |-> req.nu]]
  IN /\ Room
     /\ Accepts(u, v, p)
     /\ proofs' = proofs \cup {p}
     /\ UNCHANGED <<chainVars, drawn, storeVars, active, page>>

-----------------------------------------------------------------------------
(* The receiver's page *)

Idle == page.run.pc = "idle"

\* The identity is made once per browser; a stored request under it is kept.
Mount ==
  LET made == identity = 0
      key == IF made THEN drawn + 1 ELSE identity
  IN /\ page.keys = 0
     /\ made => drawn < MaxDraws
     /\ drawn' = IF made THEN drawn + 1 ELSE drawn
     /\ identity' = key
     /\ page' = [page EXCEPT !.keys = key,
                             !.request = IF stored.pR = key THEN stored ELSE NoRequest]
     /\ UNCHANGED <<chainVars, proofs, stored, active>>

\* The button is enabled even while a bundle is being verified.
MintRequest ==
  LET req == [pR |-> page.keys, nu |-> drawn + 1]
  IN /\ page.keys # 0 /\ drawn < MaxDraws
     /\ drawn' = drawn + 1
     /\ stored' = req
     /\ page' = [page EXCEPT !.request = req, !.result = NoResult]
     /\ UNCHANGED <<chainVars, proofs, identity, active>>

\* Mutated form of Verify: without a request there is nothing to check against.
VerifyUnasked(b) ==
  /\ Idle
  /\ page' = [page EXCEPT !.result = NoResult,
       !.run = [pc |-> "resolve", bundle |-> b, request |-> page.request, token |-> active]]
  /\ UNCHANGED <<chainVars, proofs, drawn, storeVars, active>>

\* The handler keeps the request, the keys and the deployment of the click.
Verify(b) ==
  /\ Idle /\ page.request # NoRequest
  /\ page' = [page EXCEPT !.result = NoResult,
       !.run = [pc |-> "resolve", bundle |-> b, request |-> page.request, token |-> active]]
  /\ UNCHANGED <<chainVars, proofs, drawn, storeVars, active>>

\* hybridResolveEventRef: the reference names one event of this token that
\* the RPC or the indexer still serves.
Resolves(run) ==
  /\ run.bundle.refE \in aged + 1 .. Len(events)
  /\ events[run.bundle.refE].token = run.token

\* Mutated form of Disclosable: the type of the event is not looked at.
AnyTransfer(run) == Resolves(run)

\* Disclosures cover Transfer events.
Disclosable(run) == Resolves(run) /\ events[run.bundle.refE].type = "transfer"

\* Mutated form of PublicInputs: key and nonce are read when the proof is
\* checked, not when the button was pressed.
InputsOfPage(run) ==
  LET e == events[run.bundle.refE]
  IN [circuit |-> run.bundle.circuit, token |-> run.token,
      pvkA |-> IF run.bundle.circuit = "disclose_sender" THEN e.from ELSE e.to,
      cipher |-> e.cipher,
      pvkB |-> IF run.bundle.circuit = "disclose_sender" THEN e.to ELSE run.bundle.proof.pvkB,
      pR |-> page.request.pR, nu |-> page.request.nu, seal |-> run.bundle.seal]

\* The accounts are those of the event, the payload is the event's, the key
\* and the nonce are the page's; only the ciphertext comes from the bundle.
PublicInputs(run) ==
  LET e == events[run.bundle.refE]
  IN [circuit |-> run.bundle.circuit, token |-> run.token,
      pvkA |-> IF run.bundle.circuit = "disclose_sender" THEN e.from ELSE e.to,
      cipher |-> e.cipher,
      pvkB |-> IF run.bundle.circuit = "disclose_sender" THEN e.to ELSE run.bundle.proof.pvkB,
      pR |-> run.request.pR, nu |-> run.request.nu, seal |-> run.bundle.seal]

Finish(result) ==
  page' = [page EXCEPT !.run = Awaiting, !.result = result]

\* The event is resolved (an await), then the accounts are read (another).
ResolveEvent ==
  LET run == page.run
  IN /\ run.pc = "resolve" /\ Disclosable(run)
     /\ page' = [page EXCEPT !.run.pc = "proof"]
     /\ UNCHANGED <<chainVars, proofs, drawn, storeVars, active>>

\* The proof is checked and the sealed value opened; the result carries the
\* event, which party disclosed, and the amount.
AcceptBundle ==
  LET run == page.run
      e == events[run.bundle.refE]
      sender == run.bundle.circuit = "disclose_sender"
  IN /\ run.pc = "proof"
     /\ run.bundle.proof = PublicInputs(run)
     /\ Finish([shown |-> TRUE, request |-> run.request, refE |-> run.bundle.refE,
                party |-> IF sender THEN e.from ELSE e.to, amount |-> run.bundle.seal.value])
     /\ UNCHANGED <<chainVars, proofs, drawn, storeVars, active>>

\* DisclosureVerifyError, at whichever stage.
RejectBundle ==
  LET run == page.run
  IN /\ \/ run.pc = "resolve" /\ ~Disclosable(run)
        \/ run.pc = "proof" /\ run.bundle.proof # PublicInputs(run)
     /\ Finish(NoResult)
     /\ UNCHANGED <<chainVars, proofs, drawn, storeVars, active>>

\* A read or the backend fails: an "input" error.
VerifyFails ==
  /\ ~Idle /\ Finish(NoResult)
  /\ UNCHANGED <<chainVars, proofs, drawn, storeVars, active>>

\* The page is left, with or without the browser forgetting its storage.
Leave(forget) ==
  /\ page.keys # 0
  /\ page' = BlankPage
  /\ identity' = IF forget THEN 0 ELSE identity
  /\ stored' = IF forget THEN NoRequest ELSE stored
  /\ UNCHANGED <<chainVars, proofs, drawn, active>>

SwitchDeployment ==
  /\ active' \in Tokens \ {active}
  /\ UNCHANGED <<chainVars, proofs, drawn, storeVars, page>>

Bundles == [circuit : DisclosureCircuits, refE : 0 .. Len(events), proof : proofs,
            seal : {p.seal : p \in proofs}]

Next ==
  \/ \E token \in Tokens, type \in Types, from, to, eph \in Users, v \in Values :
       Move(token, type, from, to, v, eph)
  \/ AgeOut
  \/ \E u, pvkB \in Users, i \in DOMAIN events, circuit \in DisclosureCircuits,
        req \in Requests, v, sealed \in Values : Prove(u, i, circuit, pvkB, req, v, sealed)
  \/ Mount \/ MintRequest
  \/ \E b \in Bundles : Verify(b)
  \/ ResolveEvent \/ AcceptBundle \/ RejectBundle \/ VerifyFails
  \/ \E forget \in BOOLEAN : Leave(forget)
  \/ SwitchDeployment

Spec == Init /\ [][Next]_vars

-----------------------------------------------------------------------------
(* Properties *)

Run == {Awaiting} \cup [pc : {"resolve", "proof"}, bundle : Bundle, request : Requests, token : Tokens]
Result == {NoResult} \cup [shown : {TRUE}, request : Requests, refE : 1 .. MaxEvents,
                           party : Users, amount : Values]
TypeOK ==
  /\ events \in Seq(Event) /\ aged \in 0 .. Len(events)
  /\ proofs \subseteq Inputs /\ drawn \in 0 .. MaxDraws
  /\ identity \in 0 .. drawn /\ stored \in Requests \cup {NoRequest}
  /\ active \in Tokens
  /\ page \in [keys : 0 .. drawn, request : Requests \cup {NoRequest}, run : Run, result : Result]

\* What the page shows is true: the amount is that of an event of the token
\* type "transfer", the party is one of its two parties and made a proof of
\* it for exactly the request the page had sent out, whatever pieces of other
\* bundles, requests, events or deployments were pasted together.
DisclosureSound ==
  page.result.shown =>
    LET r == page.result
        e == events[r.refE]
    IN /\ e.type = "transfer" /\ r.party \in {e.from, e.to}
       /\ r.amount = e.cipher.value
       /\ \E p \in proofs : /\ p.pvkA = r.party /\ p.token = e.token /\ p.cipher = e.cipher
                            /\ p.pR = r.request.pR /\ p.nu = r.request.nu

\* An honest answer is never rejected as long as a service has the event: the
\* proof of a party about the event it names, for the request of the click.
HonestRun(run) ==
  LET b == run.bundle
      e == events[b.refE]
  IN /\ Resolves(run) /\ e.type = "transfer"
     /\ b.proof.circuit = b.circuit /\ b.proof.seal = b.seal
     /\ b.proof.token = run.token /\ b.proof.cipher = e.cipher
     /\ b.proof.pvkA = IF b.circuit = "disclose_sender" THEN e.from ELSE e.to
     /\ [pR |-> b.proof.pR, nu |-> b.proof.nu] = run.request
HonestAccepted == [][RejectBundle => ~HonestRun(page.run)]_vars
=============================================================================

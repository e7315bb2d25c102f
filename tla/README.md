# bron-crypto in TLA+

TLA+ models of the parts of bron-crypto that keep state between steps, the TLC
runs that check them on small instances, and TLAPS proofs of what matters most
for every instance. The library is mostly arithmetic; what a model checker and a
prover can say something about is the layer that turns arithmetic into
protocols: messages, rounds, broadcast, validation and blame, shared state and
locks. That layer is what these modules follow.

## 1. The system

### Components, their state and their operations

| Component (code) | State | Operations | Who uses it |
|---|---|---|---|
| Router (`pkg/network/router.go`) | `receiveBuffer`, at most `maxReceiveBufferSize` messages; locals of each `ReceiveFrom` | `SendTo`, `ReceiveFrom`, `PartyID`, `Quorum` | every runner |
| Exchanges (`pkg/network/exchange.go`, `exchange/exchange.go`) | none of its own | `SendUnicast`, `ReceiveUnicast`, `Exchange`, `BroadcastExchange`, ... | runners |
| Echo broadcast (`pkg/network/echo`) | `Participant.state.messages` | `Round1`-`Round3`, `Run`, `ExchangeEchoBroadcast` | `BroadcastExchange` |
| Round messages, runners (`pkg/network/mpc.go`, `runner.go`, `notification.go`) | none | `ValidateIncomingMessages`, `NewSafeRunner`, notifications | every protocol |
| Agree on random (`pkg/mpc/aor`) | `round`, `State.r`, `State.rCommitments`, transcript | `Round1`-`Round3`, `Run` | applications |
| Session setup (`pkg/mpc/session`) | `round`, commitment keys, commitments, contributions | `Round1`-`Round4`, `Run` | every MPC protocol |
| Session context (`pkg/mpc/session/context.go`) | transcript, one seed stream per peer | `NewContext`, `SubContext`, `Clone`, `Seeds`, ... | every MPC protocol |
| Zero sharing (`pkg/mpc/zero`) | HJKY: round, dealt vectors, sums; PRZS: none | `Round1`-`Round2`, `SampleZeroShare` | signing, redistribution |
| Key generation (`pkg/mpc/dkg`) | `round`, dealt shares, verification vectors, rho, transcripts | rounds of Canetti (4) and Gennaro (3), trusted dealer | applications |
| Redistribution (`pkg/mpc/redistribute`) | `round`, previous shard, zero participant, sub-shares | `Round1`-`Round3` | applications |
| Threshold Schnorr (`signatures/schnorr/lindell22`) | `round`, nonce, aggregate nonce commitment, zero participant | `Round1`-`Round3`, `Aggregate` | applications |
| Threshold ECDSA (`signatures/ecdsa/dkls23`) | `round`, nonce, key part, one Alice, one Bob and one OT sender per peer | 4 rounds (`signing_bbot`) or 5 (`signing_softspoken`), `Aggregate` | applications |
| RVOLE and OT (`pkg/mpc/rvole`, `pkg/ot`) | round number, transcript, choices | rounds of Alice and Bob, sender and receiver | DKLS23 |
| Access structures (`pkg/mpc/sharing/accessstructures`) | immutable; buffers of `convert` and of the search for maximal unqualified sets | constructors, `IsQualified`, `MaximalUnqualifiedSetsIter`, `InducedMSP`, `ConvertToCNF` | sharing, DKG, signing |
| Concurrent collections (`pkg/base/datastructures`) | hash maps behind an `RWMutex` | `Put`, `Remove`, `Clear`, `Compute*`, `Get`, `Iter`, `Clone`, `Reverse` | any code with goroutines |
| Algebra, curves, encryption, proofs, OT, hashing | values | pure functions | everything |

`PROJECT.json` lists every component with its status; for components that are
not modelled it names a representative file of each package.

### How they interact

A protocol runner calls `RoundN` of a participant, hands its messages to
`exchange.BroadcastExchange` or `UnicastExchange`, and feeds what comes back to
`RoundN+1`. A unicast exchange is `SendTo` to all other parties followed by
`ReceiveFrom` all of them under one correlation ID. A broadcast exchange is an
echo broadcast: two unicast exchanges and a comparison. The router keeps what
arrives for another correlation ID until the call that wants it scans its
buffer. Correlation IDs are fixed strings, so a protocol that is run again on
the same routers uses the same IDs again. The transport behind `Delivery` is not
part of the repository.

```
 KeyProtocols                              one of the six protocols below, and
   |                                       what it promises
   +- CanettiDKG, GennaroDKG               key generation
   +- Redistribute, Lindell22  -> HJKY     both run the zero sharing
   |       (these four -> Dealings)
   +- SigningBBOT, SigningSoftspoken -> DKLS23 -> Dealings

 SessionContexts -> SessionSetup           sub-contexts and zero shares of a session
 AgreeOnRandom
        |  messages of a round over
 ConsistentBroadcast                       what broadcast promises
        ^  refined by
 EchoBroadcast                             three rounds, equivocating parties
        |  each round is one exchange of
 Exchanges                                 sequences of exchanges, one router per party
        |  same decisions (RouterOps)
 Router                                    one router, hostile traffic

 AccessStructures -> SpanPrograms -> AccessPolicies   policies and their matrices
 BiMap  <- refined by -  ConcurrentBiMap   lock discipline of the collections
```

An arrow is EXTENDS. All protocols above take the consistency of broadcast from
ConsistentBroadcast, which EchoBroadcast is shown to implement: a corrupt party
has one value per broadcast, the same for all honest parties. Unicasts may differ
from receiver to receiver.

### What is hard here

- messages of a later exchange that arrive early, or of a repeated run with the
  same correlation ID (router, exchanges);
- a buffer at its limit, and error returns after messages were taken;
- parties that say different things to different parties, and echoes that
  differ as well (echo broadcast);
- a party that fails and tells nobody, while the others wait for it;
- rounds that fail half-way with part of their effect already in the state, and
  are called again because the round number did not change (agree on random,
  session setup, Canetti and Gennaro key generation, zero sharing, Lindell22 and
  DKLS23 signing), or are not repeated and leave the next round to start from
  what a failed one left (redistribution);
- sub-protocols with round numbers of their own, which may disagree with that of
  the protocol around them (HJKY under Lindell22, RVOLE and OT under DKLS23);
- values drawn from a shared transcript or stream, which must be drawn equally
  often at both ends (session contexts, zero shares, commitment keys);
- naming the party to exclude, which must never be an honest one;
- nonces negated by the parity of a sum that each party keeps for itself;
- commitments and openings that a party passes on as its own (session setup);
- a nonce that must sign once, and parts of a signature that must be told apart
  from forged ones;
- matrices built in place in a buffer computed beforehand, and sets that come out
  of a Go map in any order (access structures);
- two locks around one storage, and locks held while callers' code runs (bimap).

The `hazards` of `PROJECT.json` give the line where each bites and the
properties that would show it.

### What makes each component correct

- Router: a call returns one payload from each expected sender, all under its
  correlation ID; nothing is returned twice; nothing is lost without an error;
  the buffer is bounded; `ErrDuplicateMessage` names only senders that
  contradicted themselves; an exchange whose messages are there ends.
- Exchanges: an exchange receives the payloads of that exchange and of no other.
- Echo broadcast: parties that deliver agree; honest messages arrive unchanged.
- Agree on random: outputs are the XOR of words fixed before any was revealed;
  transcripts agree; blame is just.
- Session setup and contexts: parties that went the same way have the same seed,
  transcript and pairwise streams; contexts on different paths share nothing;
  zero shares cancel; nobody's pairwise seed is tied to another's.
- Key generation: a shard holds every dealer's contribution once; the key is the
  one fixed by the commitments; aborts name corrupt parties.
- Redistribution: the key stays the same while one previous shareholder is honest.
- Signing: right parts make a signature, wrong ones are found with their sender,
  a nonce signs one message, a failed session does not sign.
- Access structures: the span programme accepts exactly the qualified sets, over
  CNF too and in every process alike; maximal unqualified sets are listed exactly.
- Bimap: the two inner maps are inverse whenever nobody is inside; a method is
  indivisible; calls return.

## 2. Modules and how they follow the code

The exact lines are in the `map` of `PROJECT.json`. Mutated forms of
definitions (`Round2_NoSend` and the like) stand before the definition they
mutate and are used by nothing in the modules; they document which change of
the code each property would notice.

**RouterOps** holds the three decisions of `ReceiveFrom` as operators on sets of
messages: `Matching` (what a call takes), `Conflicting` (two payloads of one
sender), `Complete` (loop condition). Messages carry a copy number the code
never sees; it gives each an identity, so a set can stand for the slice.

**Router**: one router, one or more callers. `ReceiveFrom` is the buffer scan
with its early return; `Receive` is one turn of the receive loop: a stranger's
message is dropped, undecodable bytes end the call, a wanted message is
collected or conflicts, another is buffered or finds the buffer full. `Cancel` is the end of the context.
`Return` and `Consume` are the return and the use of the result by
`ReceiveUnicast`. `arrived`, `handed`, `lost`, `failed`, `blamed` are history
variables the properties speak about. `Arrive` is the transport (external).

**Exchanges**: every party of a quorum with a router of its own goes through
`Last` exchanges. `Send` is one turn of `SendTo`'s loop, in which the transport
may make several copies; `ReceiveFrom`, `Receive`, `Return` as in Router; `Stop`
is a cancelled context or a failing transport. The payload is the number of the
exchange it was sent in, so a payload in the wrong exchange shows. Parties are
honest; hostile traffic is the business of Router.

**EchoBroadcast**: one echo broadcast at every honest party: `Round1`, the send
loops, `Round2`, `Round3`. `ReceiveFrom` waits for every other party of the quorum,
so `Arrived` does: for the honest ones whose message is on the wire, and for each
corrupt one until `CorruptSends`, which nothing obliges it to do. What a corrupt
party sent is chosen anew whenever it is read, which is as much equivocation as
there can be. Payloads are messages,
undecodable bytes, or nothing (a Go map read at a missing key). `Malformed` is a
body that `ReceiveUnicast` cannot decode or `Validate` rejects; `Abort` a
cancelled context. **ConsistentBroadcast** is the abstract specification: the
first delivery fixes every sender's value; `ImplementsBroadcast` is the
refinement with a mapping from the state of the three rounds.

**AgreeOnRandom**: `Round1`-`Round3`. A commitment is ideal: it opens to the word
it was made for. Round 1 goes over ConsistentBroadcast, so a corrupt party has
one commitment; openings are chosen anew for every call. `Round3Reject` is
validation, `Round3Abort` a bad opening found after some of the others have been
XORed into `State.r` (the map order is arbitrary, hence any subset),
`Round3Output` success. The round number stays at 3 after an error, so Round3
may be called again, `MaxAttempts` times.

**SessionSetup**: `Round1`-`Round4` with `NewContext`. A sampled value is a token
naming who drew it and for whom; a commitment is the record of key, value and
witness; a hash is the tuple hashed. Corrupt parties may announce any key,
including another party's, and send any commitment or opening they have seen or
can make. `RoundNError` are the error returns, which keep the round and, in
Round3, what was stored before the bad opening. An all-zero 32-byte
contribution, which `Validate` would reject, is left out as negligible.

**SessionContexts** adds what protocols do with the contexts setup returned:
`SubContext` and `SampleZeroShare` (PRZS), as functions of a context, since both
read from copies of its streams. Transcripts and streams are named by what went
into them, so different names stand for independent randomness.

**Dealings** is shared by the key protocols: the order in which a round looks at
its peers (`First`, `Before`), and formal sums that say how often each dealer's
contribution went in. A share that verifies is the one its dealer's vector
determines, so a sum of shares fits a sum of vectors when both count all dealers
equally often.

**CanettiDKG**: `Round1`-`Round4` with `NewBaseShard`. rho is a formal sum modulo
2 (it is an XOR), the verification vector a formal sum. `Round3` accumulates both
in the state while it verifies; `Round4` writes to copies of the transcripts
before it verifies the proofs. Both may be repeated after they failed, `MaxCalls`
times.

**GennaroDKG**: `Round1`-`Round3`. The Pedersen vector fixes a dealer's column; a
Feldman vector is the set of parties whose share it fits, all of them or a set
the access structure does not qualify. That is exact where the rows of every
qualified set determine the whole column, as with a threshold. It is not for every
MSP: under (A and B) or (C and D) a vector that differs from the committed one but
has the same secret can fit the shares of A and B and not that of C. Such vectors
are outside the model.

**HJKY** is the zero sharing as the sub-protocol it is: an operator for each
round, called by the rounds of **Redistribute** and **Lindell22**. Its round
number advances although the calling round may fail afterwards
(`Round2Identity`, `Round2Stuck` of Lindell22).

**Redistribute**: `Round1`-`Round3` at leaving, remaining and joining
shareholders, with and without a trusted anchor. Keys are counted from the true
ones modulo `Order`: the key and each holder's part and zero shift are 0, and what
a corrupt party publishes is off by something. The round number is advanced by a
deferred statement, so no round is repeated, but the next can be called after a
failed one.

**Lindell22**: `Round1`-`Round3` and `Aggregate`, as a cosigner (who compares nonce
commitments with those of round 2) and as a third party. `scheme` is the signature
scheme, which the code is generic in: plain Schnorr, BIP-340 or Mina, together with
the nonce sums whose y-coordinate is odd. The latter two negate nonces and nonce
commitments by the parity of `state.bigR` as it is when Round3 ends (`Negates`),
hash the x-coordinate only (`SameNonce`), and differ in how the aggregate is
verified (`Verifies`: BIP-340 compares x-coordinates and wants an even y, the others
compare points). A partial signature is [e, negated, r, s]: the nonce its challenge
was computed from, whether its nonce is negated, and what its nonce commitment and
response are off by. The parity of a sum and of its opposite differ; otherwise any
set of sums may be the odd ones.

**DKLS23** has what the two signing protocols share; **SigningBBOT** and
**SigningSoftspoken** are their rounds. Per peer they keep the round number of
Alice, of Bob and (softspoken) of the base OT's sender. A loop over the peers stops
at the first message that is refuted, cannot be used, or comes to a multiplication
that has taken its message already; multiplications before it have moved on, the
cosigner's own round number has not. A corrupt peer knows what its failed message
left in the transcript of its multiplication and may fit the next one to it, so
what is found in corrupt parties' messages is chosen anew for each call.
`signing_softspoken` draws its commitment key in Round3, before anything can fail:
`skewed` are the cosigners whose transcript a failed Round3 has moved on.

**KeyProtocols** runs one of the six, chosen in the initial state by `protocol`.
Variables that several protocols have are shared; those a protocol does not have
are None.

**AccessPolicies**: the five kinds of access structure, what constructors accept,
`IsQualified`, and the maximal unqualified sets each lists. A tree of gates is a
sequence of nodes that starts with the root, a gate holding the numbers of its
children as a `Node` holds pointers. **SpanPrograms**: the matrices over the
integers modulo q that `InducedMSP` makes (Vandermonde, Birkhoff, clause vectors,
gates), and `Accepts` as solvability, decided by elimination column by column.
Sorted lists (`InOrder`) have at place i the element that i - 1 others come before;
clauses go by `BitSetLess`, the comparison of bit sets as numbers. **AccessStructures**:
`convert` of `boolexpr/msp.go` turn by turn, the search of `internal/mus.go` size
by size, and `ConvertToCNF` for every order in which the sets may arrive.

**ConcurrentBiMap**: goroutines call methods of `ConcurrentBiMap`; each call that
changes an inner hash map is a step. (The lookup of the key that `TryPut` evicts is
one step with its removal, `Evict`; with one mutex nobody writes in between.) `sync.RWMutex` is modelled from its documented
behaviour: `Lock` announces the writer, which stops new readers, and returns
when the readers are gone (`Drain`). `View[t]` is the wrapper goroutine `t`
holds, the original or what `Reverse` returned. **BiMap** is the abstract
specification: a one-to-one set of entries changed in one step.

`MC*` modules give the instances; `*_proofs` modules hold the theorems (section 4).

## 3. Runs

| Run | Instance | Properties | States |
|---|---|---|---|
| echo_broadcast | 3 parties, 1 corrupt, both others cancellable, 2 messages | Consistency, HonestDelivery, ImplementsBroadcast, Termination | 8 865 |
| router_hostile | 1 caller, 2 calls, buffer of 2, 8 possible messages | ResultSound, Accounted, LossIsReported, BlameIsJust, NoStranded | 903 793 |
| router_shared | 2 callers, one exchange each | ExchangeEnds: **violated** | - |
| exchanges_repeated | 3 parties, IDs x y x y, buffer of 2, one party cancellable | Aligned, NoFalseDuplicate, BufferSuffices, AllFinish | 35 288 |
| aor_agree | 4 parties, 1 corrupt, 2 bits, Round3 up to twice | OutputIsXor, TapesAgree, BlameIsJust, CommitBeforeOpen | 22 078 (symmetry) |
| session_byzantine | parties 1, 2, 3, party 2 corrupt, up to 2 failed calls each, sub-contexts two deep | PairwiseDistinct, BlameIsJust, PairwiseSharesCancel, ContextsSeparate, PairCommittedFirst | 16 054 |
| key_protocols | parties 1-4, party 2 corrupt, three of four qualified; shares move from {1, 2, 3} to {2, 3, 4} | Canetti: OutputIsSum, MisleadsOnlyAfterRepeat; Gennaro: KeyIsCommitted, AbortsAreIdentifiable; HJKY: ZeroSharesCancel; redistribution: KeyPreserved, BlameFollowsAnchor; signing: SignersBlamedJustly, AggregatesRightParts, NonceSignsOnce, FailureIsFinal | 654 300 |
| signing_blame | the same parties, each signing round called once | FailuresAreNamed: **violated** | - |
| access_structures | several hundred structures over up to 4 shareholders, q = 503 | MspRealizesPolicy, CnfKeepsPolicy, ConvertInvariant, MaximalSetsExact | 12 887 |
| bimap_atomic | 2 goroutines, 2 keys, 2 values, one loops with nested Get | Bijective, ReadersSeeOneState, ImplementsBiMap | 33 005 |
| bimap_reverse | one goroutine on the map, one on its reverse | Bijective: **violated** | - |
| bimap_nested_get | as bimap_atomic | CallsReturn: **violated** | - |

Every module also has a type invariant, `TypeOK`. Router's is a conjunct of
Accounted (with the bound on the buffer); those of EchoBroadcast, Exchanges and
AgreeOnRandom are part of the proofs; the others can be added to the INVARIANTS
of the configurations above and hold there.

### Why the bounds are enough to be interesting

- *Echo*: a corrupt sender and two honest parties that compare echoes; two
  messages let the sender equivocate. The corrupt party may be silent towards either
  of them, in either round. Safety with more parties is proved; the
  fair specification of four parties is too large for TLC's liveness checking.
- *Router*: the traffic has a repetition, a contradiction, a stranger,
  undecodable bytes and two correlation IDs, in every order of arrival, with a
  buffer smaller than what may have to be buffered.
- *Exchanges*: four exchanges with two IDs are two runs of a protocol, enough
  for a message of the second run to meet the first. The buffer of two is one
  place for each peer; `BufferSuffices` shows that honest traffic needs no more.
  (`maxReceiveBufferSize` of the code is far larger.) Copies of messages are
  covered by the theorems, which hold for any number of them.
- *Agree on random*: two bits distinguish a swapped word from a dropped one;
  four parties let two honest ones disagree about the others. Two calls of
  Round3 are one that fails and one that starts from what it left.
- *Session*: the corrupt party has one neighbour on each side in the ID order,
  which decides who comes first in a pairwise seed. Two forged values let it
  contradict itself; two failed calls let it fail, be called again and fail.
  Sub-contexts two deep meet a sub-context inside another and two beside each
  other.
- *Key protocols*: three of four is the smallest structure with unqualified sets
  that hold more than the corrupt party. Party 2 is the first peer of party 1 and
  comes after an honest one for parties 3 and 4, so a loop over the peers fails at
  once or half-way; party 1 leaves and party 4 joins in the redistribution.
  `MaxCalls` = 3: a contribution counted three times cancels in rho (which counts
  modulo 2) but not in the vector. `MaxSigningCalls` = 2: one failure and one
  repetition; DKLS23 needs no bound. `Order` = 3: two errors can cancel and one
  cannot cancel itself. `Schemes`: the three variants; the sum of everybody's nonces
  is even or odd, and a sum that has party 1's nonce twice, which is what a repeated
  Round3 of party 3 or 4 makes, has the other parity.
- *Access structures*: every threshold over up to four shareholders, every family
  of up to three unqualified sets over three, two and three levels, trees with two
  layers of gates, and inputs the constructors refuse. q = 503 is the smallest
  prime for which three levels over the IDs 1-3 pass `CheckConstraints`. Two
  hierarchies have to be refused by it: levels {1, 3} and {2}, whose IDs do not grow
  and where the whole set could not reconstruct, and levels {2, 4} and {5, 15} with
  thresholds 1 and 4, for which 503 is too small: {2, 4, 15}, one short of the
  threshold, could reconstruct. How close the bound is to what is needed, and the
  rounding of the floating-point numbers it is computed in, are not examined.
- *Bimap*: two keys and two values give eviction and replacement in one Put; two
  goroutines suffice because the lock tells only readers and writers apart.

### Deadlock

It is checked where the model has no reason to stop (echo broadcast with
`Terminated` as its end, bimap_reverse). It is off where the program really
comes to an end: a caller with no calls left, parties that have finished or
failed, participants whose calls are used up or whose protocol is over, an access
structure all of whose programmes have been made; and in bimap_atomic, where the
nested `Get` of finding 4 blocks.

### Fairness

- EchoBroadcast, `WF(Step(p))`, and Exchanges, `WF(Step(p))`: `Run` is
  straight-line code in one goroutine, so a step that can be taken is taken
  unless the context ends. Cancellation and malformed input get no fairness, and
  corrupt parties owe nobody a message (`CorruptSends` has no fairness either).
  Weak fairness on `Receive` relies on the transport handing over what it
  holds, in some order. Termination and AllFinish except what the code cannot
  avoid: a peer that stopped before sending everything, and in Termination a
  corrupt party that some honest party waits for from some point on for ever.
  In every other behaviour `Run` ends at all honest parties.
- Router: the same for `Receive`, `Return`, `Consume`; neither peers nor callers
  are required to act.
- ConcurrentBiMap, `WF(Work(t))` and `SF(Acquire(t))`: a goroutine inside a
  method keeps running, and `sync.RWMutex` lets waiting readers in after a
  writer and hands over to a writer that waited for long, so that nobody is
  passed over for ever.

### Findings

1. `router_shared`: `ReceiveFrom` scans the buffer once, before its loop. With
   two goroutines on one router one of them can take the other's message off
   the transport and buffer it after the other's scan; the other waits for ever.
   `pkg/network/echo/README.md` says that correlation IDs separate concurrent
   broadcasts on the same router. With one caller `NoStranded` holds.
2. `signing_blame`: a cosigning aggregator of Lindell22 compares each nonce
   commitment and verifies each response under the challenge stored in the partial
   signature itself; one with another challenge and a response that fits it passes
   both, and the comparison of challenges that follows names nobody. The comment on
   `Aggregate` promises an identifiable abort for every invalid partial signature.
3. `bimap_reverse`: `Reverse` returns a wrapper with another mutex around the
   same storage, documented as a thread-safe view.
4. `bimap_nested_get`: `Iter` holds the read lock while the loop body runs; a
   body that calls `Get` while a writer waits never gets on.

Also visible in the models, without a run of its own; the properties state these
exceptions or are stated so as to hold with them:

- agree on random: a second call of Round3 after an abort may return something
  else than the XOR (`OutputIsXor` is about the first call; the runner makes no
  other); an honest party whose sample is all zero, a legal draw, is rejected and
  named (`pkg/mpc/aor/messages.go:37`);
- Canetti: after somebody repeated Round3 or Round4, honest parties can be named,
  or nobody (`MisleadsOnlyAfterRepeat`);
- redistribution: a corrupt trusted anchor makes joining parties name honest ones
  (`BlameFollowsAnchor`); the key is safe all the same;
- Lindell22: a dealer of zero shares that makes a part of the key vanish stops
  Round2 for ever, unnamed;
- Lindell22 with BIP-340 or Mina: `state.bigR` keeps what a failed Round3 added, and
  the parity of the wrong sum decides who negates its nonce
  (`lindell22/signing/rounds.go:148`, `165`, `200`). After a repeated Round3 of
  either, a cosigning aggregator can name an honest cosigner, whose nonce commitment
  has the other sign than it expects (`aggregator.go:148`). `SignersBlamedJustly`
  says that this is the only case;
- Lindell22 with Mina: when the nonce sum is odd, cosigners send negated nonces, and
  a cosigning aggregator takes `bigR` as it is (`aggregator.go:169`). Mina's verifier
  compares points, so right partial signatures of everybody fail, with no repeated
  call and nobody named. A third party adds up the nonce commitments it was sent and
  gets a signature. The comment at `mina/variant.go:301` says of the correction that
  it is "to ensure the final signature is valid". `AggregatesRightParts` states this
  exception;
- DKLS23: Round4 of `signing_bbot` does not advance the round number (Round5 of
  `signing_softspoken` does), and only Bob's round numbers keep a nonce from
  signing twice; errors of Alice and of the OTs, and key parts that do not add up,
  name nobody; after a repeated Round3 of `signing_softspoken` no honest cosigner
  can finish Round4 with the one who repeated it;
- access structures: a shareholder in every unqualified set of a CNF has no row in
  its matrix, and one qualified alone is lost by `ConvertToCNF`; IDs above 64 do
  not fit the bit sets by which clauses are ordered.

## 4. Proofs

Every theorem holds for every quorum, every set of corrupt parties, every number
of calls, messages, goroutines, keys and values: the bounds of section 3 are
constants of which the assumptions only ask that they are natural numbers. A
theorem carries a hypothesis of its own only where the property fails without it;
each is explained below. Properties are seldom inductive; what each invariant adds
is what the argument rests on.

**EchoBroadcast_proofs** (from `QuorumAssumption`: a finite quorum;
`PayloadAssumption`: the markers are not messages): `TypeCorrect`,
`ConsistencyHolds`, `HonestDeliveryHolds`, `DeliveredIsCommonHolds`,
`ImplementsBroadcastHolds`. No bound on the number of corrupt parties is needed.
What two parties delivered agrees because each compared what the *other* had
stored. The invariant therefore adds that what is on the wire is the sender's own
(`Wire1Own`, `Wire2Own`: echoes are the stored payloads, which do not change any
more), that stored payloads of honest parties are what those sent
(`StoredIsSent`), and that a party that delivered agreed with the store of every
other honest party about everybody (`DoneIsChecked`). DeliveredIsCommon follows
at once, and Consistency from it. For the refinement, the initial states map to
initial states; Round1 maps to the abstract input, the Round3 that delivers to the
abstract delivery (the first one fixes everybody's value, later ones find theirs
equal by Consistency), and every other step to a stutter. It needs in addition
that a party has nothing of its own before Round1 and that what it delivers decodes
(`MappingInv`).

**Exchanges_proofs** (from `ExchangesAssumption`, and `SeparationAssumption`:
consecutive exchanges use different correlation IDs, and IDs do not repeat at
all where the transport repeats messages): `AlignedHolds`, `LockStepHolds`,
`NoFalseDuplicateHolds`, `BufferSufficesHolds`, for every number of exchanges. A
party leaves exchange k only with everybody's message of exchange k in hand, so
nobody is more than one exchange ahead (`Ahead`); hence nothing on its way to a
party in exchange k is younger than k + 1, and without copies nothing is older than
k (`Fresh`, `Exclusive`). Only k and k + 1 remain, whose IDs differ. `Control` and
`AllSent` are bookkeeping. The assumption is really needed: a protocol of a single
exchange that is run twice in a row on the same routers would meet two
consecutive exchanges with the same ID. `BufferSufficesHolds` assumes a transport
that makes no copies and a buffer with a place for each peer: a party that receives
has buffered nothing of its own exchange (`NothingMissed`), so all it has buffered
is of the next one, one message of each peer at most; the sender of the message at
hand has none there, which leaves a place. Copies could fill any buffer.

**AgreeOnRandom_proofs** (from `AorAssumption`: finite quorum, markers distinct
from words): `TapesAgreeHolds`, `BlameIsJustHolds`, `OutputIsXorHolds` and
`CommitBeforeOpenHolds`, for any number of corrupt parties and of calls of Round3.
The invariant ties what a party keeps to the commitments as broadcast: `Committed`,
`Recorded` (from Round2 on a party holds everybody's commitment, and so does its
transcript) and `OwnWord` (`r` is the party's own word until its first Round3).
Commitments are final once somebody holds all of them, and whoever has opened its
word is past Round2 (`OpenedPastRound2`).

**Router_proofs** (from `RouterAssumption`: finite traffic, the marker for
undecodable bytes is no correlation ID): `ResultSoundHolds`, `AccountedHolds`,
`LossIsReportedHolds`, `BlameIsJustHolds` for any number of callers that share a
router, `NoStrandedHolds` for one caller. A message is somewhere exactly when it
arrived (`Located`) and in one place only (`Apart`); what a call holds has its
correlation ID, senders it expects, and no conflict (`Holdings`), so the message
that completes a conflict is one of two that prove it, and what an error return
drops was meant for that very call. `NoStranded` fails for two callers, which is
finding 1; a `Router` does not forbid them.

**SessionSetup_proofs** (from `SessionAssumption`, and `SamplingAssumption`: what
corrupt parties make up is not what an honest party draws, and honestly made
messages pass `Validate`): `BlameIsJustHolds`, `PairCommittedFirstHolds`,
`ContextsSeparateHolds`, `PairwiseSharesCancelHolds` for any number of corrupt
parties, `PairwiseDistinctHolds` for at most one. What an honest party sent is a
function of its round and of the keys of round 1, which never change once delivered
(`Sent`). What it stored of a corrupt party is that party's own commitment or one
an honest party made before, under the key of the party it was made for (`Stored`,
`Offered`). So a contribution passed on opens for its new recipient only if both
have the same key; with one corrupt party there is no such pair left whose seeds
could be equal. Two corrupt parties that both announce an honest party's key can
make two seeds equal; only the IDs that `NewContext` adds then keep the streams
apart, which is why `ContextsSeparate` needs no such hypothesis. `ContextInv`
says that everybody holds the only opening of each commitment of round 1, and that
a context is made of the values honest parties drew for each other.

**KeyProtocols_proofs** (from `DealingsAssumption`: finite quorum, monotone access
structure; `KeyProtocolsAssumption`: the quorum may sign and has two parties, which
`NewCosigner` and `NewContext` enforce, and the marker None is no message;
`SchemesAssumption`: the variants are the three, and any nonce sums are odd). The
protocols that make keys: `OutputIsSumHolds`,
`MisleadsOnlyAfterRepeatHolds` (Canetti), `KeyIsCommittedHolds`,
`AbortsAreIdentifiableHolds` (Gennaro). In Canetti's protocol rho and the vector
are sums that a repeated Round3 adds to again, so they are known only while Round3
was called once (`CanettiSums`), yet the share, assigned when Round3 succeeds, is
complete afterwards (`CanettiShares`); a shard is returned only if share and vector
fit, which makes the vector the sum too. Proofs are made under the rho their maker
keeps (`CanettiProofs`). In Gennaro's, what honest parties broadcast verifies
(`GennaroDealings`), and a shard is made of the Feldman vectors as broadcast, all of
which fit its holder's shares and none of which can change (`GennaroShards`): once
the holders are qualified, every vector fits a qualified set and is that of the
committed column. The last step is the rule of `Feldman` (section 2), so for access
structures other than thresholds `KeyIsCommittedHolds` speaks of dealers whose
Feldman vector is the committed one or fits no qualified set. That a loop over the peers stops at a member of the set it looks
for (`FirstIsMember`) rests on the library's well-foundedness of the naturals.

The protocols that use keys: `KeyPreservedHolds`, `BlameFollowsAnchorHolds`,
`ZeroSharesCancelHolds`, `AggregatesRightPartsHolds`, `SignersBlamedJustlyHolds`,
`NonceSignsOnceHolds`, `FailureIsFinalHolds`.

- Zero sharing (`ZeroInv`): honest dealers deal zero, and a sum that was returned
  counts every dealer once although failed calls came before.
- Redistribution (`RedistInv`): previous shareholders publish what they hold; what
  Round3 starts from is the party's own contribution if its Round2 went through,
  and nothing otherwise, so the sum has everybody once or the check against the key
  fails. `BlameFollowsAnchorHolds` assumes an honest previous shareholder.
  Without one, the previous shareholders may agree on a `ZeroVerificationVector`
  whose constant term is not the identity (`Round2Broadcast.Validate` looks at its
  dimensions only): everybody's metadata is then the same and fits everybody's
  contribution, but the aggregate check fails, also where there is a reference.
  `KeyPreserved` has this hypothesis in its statement.
- Lindell22 (`SigningInv`): nonces are added up once unless Round3 is repeated
  (`SigningNonces`); the partial signature of an honest cosigner is made from its
  `bigR`, parity included (`SigningParts`); a cosigner is behind its zero participant
  only after a share that vanished. So the check of nonce commitments fails for an
  honest cosigner only if its `bigR` and the aggregator's differ in parity
  (`AggregatorIsJust`), hence are not both everybody's nonce once, hence one of the
  two repeated Round3. Nothing is assumed about which sums are odd.
- DKLS23 (`BbotInv`, `SoftInv`): round numbers of Alice and Bob tell whether a round
  can be repeated. In `signing_bbot`, Alice's sides are through in Round4 and Bob's
  after it signed, so a second Round4 finds no Bob that would take its message; in
  `signing_softspoken` the round number itself has moved on, and nobody gets past
  Round4 unless all honest cosigners are past Round3 without repeating it
  (`SoftInStep`).

The checks of redistribution and of Lindell22's aggregators compare sums, which are
folds over finite sets. That a sum of zeros is zero (`ZeroSum`) cannot be proved by
the library's induction theorems, which take an operator; it is proved from a
smallest counterexample (`WFMin` on the sizes of subsets).

**ConcurrentBiMap_proofs** (from `ViewAssumption`): `BijectiveHolds`,
`ReadersSeeOneStateHolds`, `ImplementsBiMapHolds`, under `OneView`: all goroutines
use the wrapper of one call of `NewConcurrentBiMap`, or all its `Reverse`. Together
they break the lock discipline, which is finding 3. The argument has two halves:
what each access of a hash map does to the relation between the two maps and the
entries from before the call (`Content`, the lemmas `...Data`); and that the mutex
admits one writer and no reader, or readers only (`Exclusion`), so a step of one
goroutine disturbs nobody else. For the refinement, the step that releases the
mutex maps to the abstract operation and all others to stutters.

**AccessStructures_proofs** (from `StructuresAssumption`: what callers hand in has
the types of the constructors' parameters, a tree of gates being what `ID` and
`Threshold` can make; `FieldAssumption`: q > 1): `MaximalSetsExactHolds`,
`CnfKeepsSetsHolds`, `CnfKeepsPolicyHolds`, `ConvertFitsHolds`,
`ClausesRealizePolicy`, for structures of every size.

- What recursive definitions compute is shown without induction theorems, which take
  an operator: a solution of the recursion is made node by node or turn by turn
  (`TreeSolution`, `FlattenSolution`, `EliminationSolution`), after which its
  equation holds everywhere, and what follows from the equation is shown by a
  smallest counterexample (`Smallest`).
- *Maximal sets.* Every structure is monotone (`QualifiedMonotone`, for trees
  `TreeMonotone`), so an unqualified set lies in a maximal one (`InMaximal`). The
  search keeps (`SearchInv`) that after the turn for size t it holds the maximal
  unqualified sets of t or more members and nothing else: a set of size t that is
  unqualified and lies in none found before is in a maximal set of its own size,
  which is itself. Thresholds, unanimity and CNF list theirs by a formula. The empty
  set does not count as maximal: it would only where everybody is qualified alone, as
  in Or(1, 2), and there the search, which stops at size 1, lists nothing although
  the comment at `internal/mus.go:18` would have it listed; `cnf.go:121` refuses
  empty sets.
- *CNF.* The clauses listed are all maximal sets, so a set avoids them exactly when
  it is qualified, and the order in which a Go map hands them out is lost when they
  are sorted (`CnfInv`, `CnfMSPOfSets`). Sorting loses no clause because bit sets
  are in a strict total order (`BitSetsDiffer`, `BitSetsTransitive`). For the
  matrix, each clause's vector brings in one column (`Brings`); elimination clears
  one column after the other, the target being (0, ..., 0, 1, ..., 1) in between,
  until a clause is missing, where the target has a one and no row can clear it
  (`TurnWith`, `TurnWithout`). So the rows of a set span the target when it meets
  every clause, and only then (`ClausesSpan`). No property of q is needed but q > 1.
- *InducedMSP of CNF and unanimity* writes down the same vectors, for unanimity with
  one clause per shareholder: `ClausesRealizePolicy` is `MspRealizesPolicy` for them.
- *convert.* The labels are the nodes that have been reached and are not expanded,
  each once (`Expanded`). So there is one row more than the expanded gates have
  children after their first, and one column more than the sum of threshold - 1 over
  them (`ConvertInv`); a tree has one leaf more than all its gates have children after
  their first (`LeavesCounted`), and no threshold exceeds the number of children
  (`CheckTree`). The counts are sizes of sets of places, so no sum is needed.

Clauses are compared as bit sets, which the code can do for IDs up to 64 only and
panics beyond; the theorems about matrices of clauses hold for it up to there.

Only model-checked:

- Termination, AllFinish, and ExchangeEnds and CallsReturn of the runs that expect
  a violation: liveness under fairness is out of the prover's reach, as is ENABLED;
- FailuresAreNamed, which the code violates;
- MspRealizesPolicy for thresholds, hierarchies and trees, and the part of
  ConvertInvariant about spans: that a Vandermonde or Birkhoff matrix can be solved,
  and that a block of powers splits a row into a threshold of its children, needs
  linear algebra and polynomials over a prime field, for which the prover has no
  library. They also fail for IDs that are equal modulo q, which the fields of the
  repository, far larger than an ID, rule out;
- the type invariants are part of the inductive invariants where those need them
  and are not stated separately, except for EchoBroadcast.

## 5. What is not modelled, and why

- Cryptography itself: commitments are ideal, hashes are the tuples they hash,
  soundness and secrecy are probabilistic statements and are not made.
- Arithmetic (fields, curves, big integers, polynomials, matrices beyond what span
  programmes need), encodings, proofs of knowledge, and what OT and RVOLE compute:
  pure functions on numbers of cryptographic size. They are most of the
  repository (the field arithmetic generated by fiat-crypto alone has over
  twenty thousand lines), so the modules here, which follow the code that keeps state
  between steps, stand for a small share of its lines.
- Signing: the negation of key shares by the parity of the public key, which is the
  same for everybody, `ComputePartialSignature` called by itself, Boldyreva02 (one round without state), `dkls23.Aggregate` (a
  quotient of sums and a verification), the key generation wrappers, the trusted
  dealer.
- Secret sharing schemes: dealing and reconstruction are linear algebra over a
  field; span programmes are modelled, and verification as an ideal check.
- Constructors' checks of their arguments; notifications; `NewSafeRunner`, which
  keeps no state.
- Go memory effects: concurrent writes to `receiveBuffer` are atomic steps in
  Router although the code has no lock there (finding 1 needs no finer grain);
  the slice `State.r` that `Round2Broadcast` shares with the participant.
- `NewMutableBiMapFromNativeLike` with repeated values, which starts with maps
  that are not inverse.
- The concurrent hash map and hash set (same lock discipline as the bimap, over one
  map) and the thread-safe random generator (one mutex around every call).
- A copy of a message from an earlier run that arrives when its correlation ID
  is in use again: `SeparationAssumption` excludes it, as the router has no means
  to tell it from a current one.

## 6. Plan

Done: the network layer, the protocols that set a session up and its contexts, key
generation, redistribution, zero sharing, both threshold signing protocols, the
access structures with their span programmes and the lock discipline of the
collections are modelled. Every safety property that the passing runs check is a
theorem, as are both refinements, except for two that rest on linear algebra and
are proved in part (section 4).

Next, in this order:

1. Vandermonde matrices modulo a prime: that t rows with different IDs span the
   target and fewer do not, which would make `MspRealizesPolicy` a theorem for
   thresholds; then `convert`, whose gates are Vandermonde blocks.
2. The remaining type invariants as theorems of their own, where the inductive
   invariants hold weaker types than the modules state.
3. To model: dealing and reconstruction of the sharing schemes over a small field,
   as operators against the definition of an access structure.

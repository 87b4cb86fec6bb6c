# VoteSecure in TLA+

TLA+ models of VoteSecure as implemented in
`src/implementations/rust/workspace`: the voting and trustee protocols of the
crate `protocol`, and the algorithms of the crate `cryptography` that they use.
They are checked with TLC on small instances. What is said about the safety of
the ballot box, of election day, of the trustee protocols and of the generation
of the election key is also proved with TLAPS, for every instance. In this text
`P/` stands for `protocol/src` and `K/` for `cryptography/src` of that
workspace.

## 1. The system

VoteSecure is a library of *actors*. An actor is a deterministic Rust object
with one entry point (`process_input`, `handle_input`) that takes a host command
or a network message, updates its state and returns outputs. The *host* owns
sockets, storage and the user interface: it decides when an actor gets which
input, so that loss, duplication, delay and reordering of messages are orders of
inputs. There is no thread inside an actor; concurrency is between actors, and
between the sessions of one server.

### Inventory

| Component | Source | State | Operations | What makes it correct |
|---|---|---|---|---|
| Public bulletin board | `P/participants/digital_ballot_box/bulletin_board.rs`, `P/bulletins.rs` | a hash-chained list of bulletins | check-and-append, look-up by tracker, pseudonym, ciphertext; validation | append only, a valid chain, unambiguous trackers |
| Digital Ballot Box (DBB) | `P/participants/digital_ballot_box/` | the board; a checking session per connection | submission, casting, checking (request, connection to the voter, randomizers), custom bulletins, session commands | one cast per voter, of the latest ballot; no replay; randomizers only of the submitter, to the asker |
| Election Administration Server (EAS) | `P/participants/election_admin_server/` | authentication requests by id, with the time of their last input; the next id | request, token, finish, report of the authentication service, biographical check, abort, expiry | an authorization only for a key whose holder was authenticated; ids are never used again |
| Authentication Service (AS) | external; `P/auth_service.rs` has its messages | sessions by token | token, login, report | |
| Voting Application (VA) | `P/participants/voting_application/` | active subprotocol; session keys, authorization, tracker, randomizers | authenticate, submit, cast, answer a check | it casts the ballot it submitted, and believes only what the board shows |
| Ballot Check Application (BCA) | `P/participants/ballot_check_application/` | active check, its keys and request | start, randomizers, cast-or-not decision, abort | it shows the ballot behind the tracker, or fails |
| Trustee messages | `P/trustee_protocols/trustee_messages.rs` | none | constructors, signatures | |
| Trustee Administration Server (TAS) | `P/trustee_protocols/trustee_administration_server/` | subprotocol state, trustee board, active trustees, election key | start setup / key generation / mixing, stop, one handler per awaited message | posts only what is signed; moves on only when complete |
| Trustee application | `P/trustee_protocols/trustee_application/` | subprotocol state, mirror of the board, active trustees, completed actions | board update, approval of setup, start of key generation, restart from a checkpoint | the mirror is a prefix of the board; what it signs and decrypts |
| Ascent logic | `P/trustee_protocols/trustee_application/ascent_logic/` | none: Datalog rules over the board's messages | derive the due actions and the errors | nothing is decrypted before all mixes are signed by all |
| Trustee cryptography | `P/trustee_protocols/trustee_cryptography.rs` | none | encrypted shares, shuffles, partial decryptions | a wrong datum is refused by whoever uses it |
| Protocol cryptography | `P/cryptography.rs` | none | ballot encoding and encryption, contexts, encrypted randomizers | a ballot is tied to its voter and election, randomizers to the asker |
| Cryptography crate | `K/` | none | groups, ElGamal, Naor-Yung, equality proofs, shuffle proof, distributed key generation and decryption | the prover's and the verifier's algorithm agree, and agree on nothing else |
| Bulletin registry | `P/bulletins.rs` | a table of type names | deserialization by type name | not modelled |
| Stateright models, assurance case, SysML, Cryptol and Tamarin models, builds | several | | | not part of the running system |

How they interact. The EAS authenticates a voter and signs a *voter
authorization* (pseudonym, ballot style, the session key of the voter's VA). The
VA sends signed ballots and cast requests that embed it to the DBB, which checks
both signatures and posts bulletins; the reply names the bulletin by its hash,
the *tracker*. A BCA sends a check request for a tracker; the DBB asks its host
for the connection of the voter's VA, forwards the request, and forwards the
VA's encrypted randomizers back. After the election the host takes the cast
ballots to the TAS. The trustees and the TAS communicate only through the
trustee board: trustees send messages to the TAS, which appends them and sends
every trustee updates; a trustee asks for a range it lacks.

What is hard to test. Requests of several connections for one voter interleave
at the board (append must re-check, not trust what was read before); a voter may
be authorized twice; check sessions read a board that moved on since they were
opened; messages of an abandoned subprotocol reach the next one of the same
kind; requests expire while an answer is on its way; each actor waits for
messages of the others; the algorithms of prover and verifier, and of dealer and
recipient, must use the same contexts, indices and permutations; the trustee
logic decides from *whatever messages have arrived*, in batches whose boundaries
the network chooses; a restarted trustee forgets which actions it completed and
repeats them with new randomness; the TAS may be stopped and told to start
again. `PROJECT.json` lists these hazards at their lines.

## 2. Modules

| Module | Models | State |
|---|---|---|
| `BulletinBoard` | the in-memory board, as operators on a sequence | none |
| `DigitalBallotBox` | the DBB actor and its three sub-actors | `board`, `sessions`, `clock`, `output` |
| `VoterLedger` | what the DBB promises: an abstract specification | `latest`, `cast`, `used` |
| `MCDigitalBallotBox` | instances of the DBB for TLC | |
| `DigitalBallotBoxProofs` | theorems about the DBB | |
| `VotingNetwork` | the messages of election day, and those sent so far | `network` |
| `ElectionAdminServer` | the EAS and its sub-actors | `requests`, `next_available_id` |
| `AuthenticationService` | the AS, as the EAS uses it | `as_sessions` |
| `VotingApplication` | one VA per voter | `va` |
| `BallotCheckApplication` | the BCAs | `bca` |
| `VotingProtocol` | all of them, with an instance of `DigitalBallotBox`, voters, hosts and an unreliable network | adds `clock`, `left`, `compared` |
| `ReliableVoting` | the same when the network and the hosts do their part | adds `delivered` |
| `MCVotingProtocol`, `MCReliableVoting` | election days for TLC | |
| `VotingProtocolProofs` | theorems: types, the ballot box in the composition, request ids, compared keys | |
| `ElectionDayProofs` | theorems: who is authorized, and what voters are told of their ballots | |
| `PrimeGroup` | groups, product groups, random oracle | none |
| `SigmaProofs` | the proofs of equal logarithms and of equal plaintexts | none |
| `DistributedKey` | dealers, recipients, decryption factors, interpolation | none |
| `BallotCryptograms` | ElGamal, Naor-Yung, ballots, contexts, randomizers, shares | none |
| `ShuffleProof` | permutations, shuffles and their proof | none |
| `BallotCryptography` | an election computed with them | `dealings`, `recipients`, `cast`, `checks`, `mixes`, `factors`, `plaintexts` |
| `MCBallotCryptography` | an instance for TLC | |
| `BallotCryptographyProofs` | theorems: shares are verified, keys agree, any quorum of trustees holds the secret | |
| `ElectionCompletenessProofs` | theorem: what is right is accepted, and an election completes | |
| `TrusteeMessages` | messages, and ciphertext lists, of the trustee protocols | none |
| `TrusteeAdminServer` | the TAS | `tas_state`, `board`, `active_trustees`, `public_key` |
| `AscentLogic` | the Datalog rules | none |
| `TrusteeApplication` | one actor per trustee | `trustee`, `saved`, `starts`, `sent` |
| `TrusteeProtocol` | TAS, trustees and network together; the properties | adds `ceremony`, `stops` |
| `ElectionCeremony` | what the trustees promise: an abstract specification | `deals`, `keys`, `mixing`, `mixes`, `signatures`, `decryptors`, `published` |
| `MCTrusteeProtocol` | instances of the trustee protocols for TLC | |
| `TrusteeProtocolProofs` | theorems: types, mirrors; lemmas about steps | |
| `TrusteeAgreementProofs` | theorems: one election key; what is decrypted, and published | |
| `TrusteeCeremonyProofs` | theorems: the trustees carry out the abstract ceremony, and nobody fails where nothing goes wrong | |

### The ballot box

`DigitalBallotBox` has one action per message (`SubmitSignedBallot`, `CastReq`,
`CheckReq`, `Randomizer`), host command (`ProvideVAConnection`, `CloseSession`,
`ListSessions`, `PostBulletin`), one for everything a session does not expect
(`UnexpectedMessage`), and `Restart` and `SystemTime`. An action is the whole of
`process_input`: submission and casting run to completion inside it, their
checks #1 to #6 in `SubmissionChecks`, `BuildSubmission`, `CastChecks`,
`BuildCast`. The code evaluates the checks of the board inside
`append_bulletin_atomic`, which is why they read the board the bulletin is
appended to. A check session is taken out of the map and put back, or lost when
`?` returns early: `DropSession`. `Restart` is a host that creates the actor
anew over the surviving board, which the constructor takes as a parameter;
sessions are lost.

Any message that can be formed from the constants may arrive on any connection,
signed or not, with any tracker that is on the board: there is no assumption on
VA and BCA. A signature is the Boolean `signed` (it verifies under the key the
code verifies it with). A hash is a term that wraps the bulletin, so equal
hashes mean equal bulletins (SHA3 without collisions). A ciphertext is an
identity and the pseudonym its Naor-Yung proof is bound to.

`VoterLedger` says what a voter is promised without a board, a chain or
sessions: submit until cast, cast once, cast the latest, no ciphertext twice.
`DigitalBallotBox` implements it with `latest` and `cast` read off the board.

### Election day

`network` keeps every message sent, so a message may arrive late, repeatedly,
out of order, at another application than the one meant, or never. The network
may spoil a message, within the bounds of the scenario (`Intact`): its signature
then does not verify.

`ElectionAdminServer` has an action for the command and each input of the
sub-actor. A request record is the sub-actor: its sub-state, the voter's key,
the authentication record and `idle`, the time since its last input. Every
input, whatever its request, ends in `Purged`: completed requests go, and those
idle for longer than `NetworkTimeout`. An input for a request that is gone is an
error; the purge happens nevertheless. Time passes with `Tick`. The host of the
EAS says which request a message is for, and any answer is possible:
`EASDelivery` tries all ids.

In `VotingApplication`, `va[v]` is what `VotingApplicationActor` holds: the
active subprotocol with its sub-state, and what subprotocols leave for later
ones: key pair, authorization, tracker, randomizers. A command replaces the
active subprotocol whatever it waits for. An outcome of authentication,
submission or casting passes through `handle_state_updates` and makes the actor
idle; that of a ballot check does not, as `SubprotocolInput::Checking` returns
before, and the check stays active. `VoterStartsCheck`, `VoterCompares` and
`VoterApproves` are the voter with both devices: the voter approves only after
seeing the same key on both. What the voter *sees* is in `compared`, so that a
property can relate it to what the application then sends.

`BallotCheckApplication` verifies the forwarded randomizers against the request
it sent, shows the ballot, and decides from the bulletins its host fetches
whether it was cast. `VotingProtocol` has the DBB as an instance of
`DigitalBallotBox`: the same actions that its theorems are about. A voter's key
of the n-th authentication is `<<v, n>>`; a VA's n-th ballot and a BCA's n-th
key are named likewise, as all are freshly generated.

`ReliableVoting` restricts the steps of `VotingProtocol` for the question
whether voters are served. Every message is delivered, once, to the one it is
for; the EAS's host finds the request, the DBB's host the connection of the
right voter; a voter gives a command when the application is ready for one,
finishes only when logged in, and starts no check of a ballot that was cast (the
DBB refuses it and the BCA is not told). An authorization is delivered in a
later second than it was issued in: the VA rejects it otherwise, and the voter
must start again.

A check may be under way when its voter casts. `ChecksShowTheBallot` demands
that it shows the ballot unless the cast is on the board before the randomizers
reach the ballot box: there `ballot-check-spec.md:269` has a "Ballot Now Cast
Error", and `ChecksShowTheBallot` holds whether the ballot box raises it or, as
it does, sends the randomizers on (see `dbb_check_cast`). It is demanded in full
of a cast after the randomizers have passed the ballot box, and on the day of a
voter who checks and never casts.

### Cryptography

`PrimeGroup` has the operations of `K/traits/groups.rs` on a group of small
prime order. An element is its logarithm to the generator, so the group is exact
and every equation the code checks is checked as it is; what rests on logarithms
being hard is out of the model's reach. The hash is a fixed cubic permutation
folded over the numbers of the input, and freshness a hash of the place in the
program where the random value is drawn. Challenges contain what the code puts
into them, in its order; a serialization is the sequence of the numbers of a
value.

`SigmaProofs`, `DistributedKey`, `BallotCryptograms` and `ShuffleProof` are the
algorithms of `K/` as operators, prover next to verifier. `BallotCryptography`
uses them as the trustees, voters and check applications do, one action per
`action_...` or sub-actor function, in a fixed order of actors. Each step may,
once per run, alter one datum, or use one of another voter, election or
application; the properties say that exactly this is refused.

### The trustee protocols

A trustee is its index in the trustee list; the TAS is 0. A list of ciphertexts
is `[ballots, mixes]`: the ballots it encrypts and the sequence of mixes (mixer,
randomness) it went through. `VerifyShuffle` accepts an output with exactly one
more mix than the input. A key is the function from trustees to the deal each
made; `starts[t]` stands for fresh randomness, so what a trustee does again
after a restart differs from what it did before.

`TrusteeAdminServer` has one action per host command and one per message
handler. A message the state has no handler for changes nothing (a stutter). In
`TrusteeApplication`, `ProcessUpdate` (with `Conclude`) is all of
`process_board_update`: append the new messages, convert each to a fact (with
the active-trustee list as it was *before* the update, as the code does),
populate the active list, run the Ascent rules, execute what is due, change
state, hand the host a checkpoint. `Fact`, `Convertible` and `ConversionPanics`
are `trustee_msg_to_ascent_msg`; `ActionSucceeds` and `ActionMessage` are the
`action_...` functions: what they verify and what they send. `failure` is a
history of *why* a trustee failed. `AscentLogic` writes each Datalog relation as
a set over the facts; the accumulators (`shares_all`, `mix_signatures_all`, ...)
are quantifiers over the positions they count.

`TrusteeProtocol` puts them together. Trustee messages are never removed from
`sent`: the TAS may receive them in any order, repeatedly, or never. A trustee
may receive any run of consecutive board messages that starts where the
`ceremony` allows, at any time; and where it allows tampering, the network
spoils the signature of a message on either way.

`ElectionCeremony` says what an election is promised, without boards, messages,
restarts and batches: trustees deal until one key is agreed, which is of one
deal of each; the mixers of a plan mix in turn, each after all have signed the
mix before; plaintexts are published once, after all mixers have helped to
decrypt the last mix. `TrusteeProtocol` implements it with a state read off the
board and the messages sent. `Deals` are the shares on the board and
`ElectionKeys` the keys in any message. `MixingPlan` is the first mix
initialization on the board, the only one trustees act on. `MixesDone` has, for
each round, what its mixer posted first, and `Signatures` who signed it on the
board. A trustee has decrypted, or published, when it has sent the message
(`SentDecryptions`, `SentBallots`), which is when nobody can call it back. So a
mix that is sent and lost, or posted after another of its round, is no step of
the ceremony; the mapping does not choose what to count by how it ends.

## 3. What TLC checks

`CHECK_DEADLOCK FALSE` appears in the configurations of election days,
cryptography and the trustees: a day, an election and a ceremony end, and
trustees that failed have nothing left to do. The ballot box alone never stops.

### Runs that pass

| Run | Instance | States | Shows |
|---|---|---|---|
| `dbb` | 2 voters, 5 authorizations (one voter twice, one issued late, one not signed), 3 ciphertexts, 2 styles, 2 connections, 2 election hashes, a clock in {1, 2} | 6,960 | `TypeOK`, `AtMostOneCast`, `CastIsLatestSubmission`, `UniqueCiphertexts`, `ChainIsValid`, `RandomizersAreTheSubmitters`, `SealedAfterCast`, `ImplementsLedger` |
| `voting` | 8 days of 2 voters, one of them registered, and 2 BCAs | 314,101 | `TypeOK`, `AuthorizedKeyAuthenticated`, `SessionsAreConsistent`, `ConfirmedCastIsOnBoard`, `ChecksAreSound`, `OnlyComparedKeysGetRandomizers`, `RequestsAreNotReused` |
| `voting_live` | 3 days of 3 voters, two of them registered, and a BCA, under `ReliableVoting` | 8,988 | `VotersAreServed`, `AuthenticationsEnd`, `ChecksShowTheBallot` |
| `crypto` | 3 trustees with threshold 2, 3 ballots of 2 values, 2 mixers with 2 permutations each, 2 sets of random choices | 12,740 | `AlteredSharesAreRefused`, `KeysAgree`, `SecretsInterpolate`, `CiphertextsVerifyForTheirVoter`, `ChecksDisplayTheBallotCast`, `OnlyMixesOfTheInputAreSigned`, `OnlyRightFactorsAreCombined`, `DecryptedBallotsWereCast` |
| `ceremony` | 2 trustees, three ceremonies. One from nothing to the election key: updates of up to 3 messages with overlaps and gaps, spoiled messages, and 2 of 1 restart of each trustee and 1 TAS stop. One from there to the ballots: 1 restart or TAS stop, and mixing of other ballots in the other order. One with updates of up to 2 messages and 1 restart or TAS stop | 245,739 | `TypeOK`, `BoardsAgree`, `ElectionKeyAgreed`, `DecryptOnlyFullyMixed`, `BallotsAreDecrypted`, `ImplementsCeremony` |
| `ceremony_live` | 3 trustees after setup, threshold 2, 2 active, one message at a time | 32,076 | `NoFailures`, `KeyGenCompletes`, `DecryptionCompletes` |

Why the bounds are enough to be interesting.

*Ballot box.* The board needs no bound of its own: each ciphertext is accepted
once, so three ciphertexts and two voters bound it at three submissions and two
casts. That is the least with which a voter supersedes a ballot, casts an old
one, casts under another authorization of the same voter, and copies a ballot of
another voter. Two connections are the least that mix up sessions. The
constraint `Bound` keeps TLC from multiplying the two: it goes on from all
boards without sessions, and from all sessions over the boards of one ballot.
`MaxCustom` bounds the host's own bulletins, which otherwise never end.

*Election day.* A scenario says how often each host may give each command, how
many seconds pass and how many signatures are spoiled. A single scenario with
all of it is too large, and each day combines what can interact: two
authentications that expire; one with an abort and a spoiled message; one after
a submission; a submission given up and made again; casts of two voters; one
ballot checked on two devices; a check that is aborted or spoiled; a check, a
new ballot and a cast in any order. Messages are never removed and deliveries
not bounded, so the network is at its worst in all of them. `NetworkTimeout` is
0: a single `Tick` makes every idle request expire. `MaxRequests` bounds
replayed requests.

*Cryptography.* Two of three trustees is the least pair with a trustee that does
not decrypt, and one that the code supports (`dispatch_threshold_trustees`). Of
the permutations of three, one is not its own inverse and one has a fixed point.
`Order` 46337 is the greatest prime, 2 modulo 3, whose products stay within
TLC's integers; an equation of wrong terms that holds by accident would have to
hold in both `Runs`. Two faults are not combined: each is refused on its own.

*Trustees.* Two trustees with threshold two have a first mix, a next mix, and a
signature of each by the other; the third trustee of the liveness run is one
that is not active. An update of two messages is the least with which
conversion, actions and state changes see more than one message at once; it is
tried without a second mix initialization, which is tried with updates of one
message. What a ceremony allows is a record of `Ceremonies`, chosen at the
start: with one restart of a trustee and one stop of the TAS, the event falls at
*every* point; `MaxRestarts` bounds the restarts of each trustee, `max_faults`
those of all and the stops together. `HostCommand` follows one of the orders in
which the election keys get on the board into mixing, for later stages do not
look at that order.

`MaxCustom`, `Bound`, `Scenarios`, `MaxRequests`, `Runs`, `Mixings`,
`Ceremonies`, `MaxRestarts` and the condition in `HostCommand` are all the
bounds, marked as such where a guard uses one.

### Fairness

Safety runs use `Spec`, without fairness.

`FairSpec` of `ReliableVoting` assumes weak fairness of `ReliableNext` as a
whole: while something can be done, something is. No actor of the code has a
choice to starve another; every scenario is finite and every message is
delivered once, so every behaviour ends where nothing can be done, and the
properties say that this is never too early.

`FairSpec` of `TrusteeProtocol` assumes that the host of the TAS eventually
issues a command the TAS stays ready for (`WF_vars(HostCommand)`), that a
message the TAS has a use for eventually reaches it (`WF_vars(TASReceive)`),
that hosts of trustees approve and start key generation when their trustee stays
ready (`WF_vars(KeyGenCommand(t))`), and that a trustee does not lack a board
message for ever. The last is what the code's catch-up provides: a trustee that
sees a gap answers with `MissingMessages`, its host requests the range, and
`trustee_update` of the TAS serves it. It is written with `Lacks` and `Receives`
instead of `WF` over `ReceiveUpdate(t)`: they say when that action is enabled
and what it does, and spare TLC the enumeration of updates. Nothing forces a
trustee to fail, restart or tamper. `ceremony_live` delivers one message at a
time because its properties are false otherwise, see `trustee_batches`.

### Runs that find a disagreement

Each checks a statement of the repository, quoted in `PROJECT.json`, which the
model of the code violates.

* `dbb_check_cast`: a check session opened before the voter casts forwards the
  randomizers after it, where the specification has a "Ballot Now Cast Error".
  `voting_live` demands nothing of a check in this case.
* `trustee_setup_data`: in `ElectionSetup` a trustee fails when a board update
  arrives before its host has approved the setup, which the comment calls
  impossible. It takes one other trustee that approves faster.
* `trustee_batches`: an update that brings the mix initialization *and* the
  first mix fails an honest trustee, because the messages are converted before
  the active trustees are taken from the first of them. A trustee that catches
  up gets just such an update.
* `trustee_sign_mix`: with three active trustees, an honest second mix fails
  verification at a trustee that has one more message on its board: the search
  for the mix before it skips the last message, whatever that is.
* `trustee_active_list`: with trustees 1 and 3 of 3 active, trustee 3 takes its
  position among the active trustees, 2, for its index and decrypts the key
  shares dealt to trustee 2.
* `trustee_keygen_all`: an idle trustee answers the key shares of others with
  its own, after which its host can no longer start key generation; it never
  enters `KeyGen` and never completes it.

### Other divergences

Seen while modelling; the model has the behaviour, no property speaks of it.

* `digital_ballot_box/top_level_actor.rs:419, 490`: "put the session back if
  it's not complete", but a completed one is put back, too, as its last output
  is a message; a later request on that connection is then an error.
* `submission.rs:297`: timestamps are readings of the system clock, and not
  compared with the bulletin before, while `bulletins.rs:136` promises monotonic
  ones. `SystemTime` lets the clock step back; no property of this project
  depends on it.
* `checking.rs:345`: "matches the original check request" compares the tracker
  and the election hash only.
* `trustee_application/top_level_actor.rs:142`: "there is no incoming trustee
  board message that tells the trustee to do key generation"; key shares of
  another trustee do, the cause of `trustee_keygen_all`.
* `election_admin_server/top_level_actor.rs:345`: the specification ends a
  request at its timeout
  (`docs/protocol/specs/voter-authentication-spec.md:599`); the code purges
  expired requests *after* it has handled an input, so an answer that comes too
  late is accepted, and renews the request, if it is the first input since.
  `voting` has these late answers.
* `elections.rs:226`: timestamps have a resolution of seconds and must be
  strictly in the past: an authorization that arrives within the second it was
  issued in is refused by the VA, and a ballot under it by the DBB.
* `voting_application/top_level_actor.rs:394`: `handle_state_updates` has arms
  for ballot checks, but is never called with one.
* `casting.rs` of the VA: a refusal (`cast_ballot_result` false) is believed
  without the checks that a confirmation must pass; the voter is told that
  casting failed.
* The DBB does not tell a BCA that it refused its check request: the check waits
  until it is aborted.
* `K/dkgd/recipient.rs:631`: `combine` zips ciphertexts with factors and drops
  what is left over: fewer factors make fewer ballots, and no error
  (`DecryptedBallotsWereCast` has the exception).
* `K/dkgd/recipient.rs:622`: the trustee a factor is of, `source`, is not
  covered by its proof; a wrong one is found by the verification key it selects.
* `K/dkgd/recipient.rs:393`: powers of positions are computed in 32 bits. The
  supported pairs of trustees and threshold are far below the limit.
* `K/zkp/shuffle.rs:561, 613`: warnings in the code list inputs that the
  challenges should have as well; the model has the inputs the code has.

### Mutants

For every property of every passing run, `PROJECT.json` names a mutant: a
definition of the model and a form of it with a plausible mistake (a check left
out, a wrong count, the first mix instead of the last) under which TLC finds the
property violated. The mutated forms stand before their originals.

## 4. What is proved

The theorems hold for every value of the constants: any number of voters,
trustees, connections and requests, any threshold, scenario and ceremony,
boards of any length and all interleavings.

| Theorem | States |
|---|---|
| `DigitalBallotBoxProofs` | |
| `TypeCorrect`, `ChainAlwaysValid`, `OneCastPerVoter`, `CastBallotIsLatest`, `NoReplayedCiphertext`, `BoardIsSealed`, `RandomizersOfSubmitters` | the seven safety properties of run `dbb` |
| `LedgerImplemented` | `DigitalBallotBox` implements `VoterLedger` |
| `VotingProtocolProofs` | |
| `ComposedBoxIsABallotBox` | election day implements `DigitalBallotBox` |
| `ElectionKeepsTheLedger` | election day implements `VoterLedger`, and has all the properties of run `dbb` |
| `VotingTypes`, `NoRequestIsReused`, `RandomizersOnlyForComparedKeys` | `TypeOK`, `RequestsAreNotReused`, `OnlyComparedKeysGetRandomizers` of run `voting` |
| `ElectionDayProofs` | |
| `TokensLeadBackToTheirVoters`, `AuthorizedKeysAreAuthenticated` | the inductive invariant `Authentication`; `AuthorizedKeyAuthenticated` |
| `SessionsStayConsistent`, `ConfirmedBallotsAreCast`, `BallotChecksAreSound` | `SessionsAreConsistent`, `ConfirmedCastIsOnBoard`, `ChecksAreSound` |
| `TrusteeProtocolProofs` | |
| `CeremonyTypes`, `MirrorsArePrefixes` | `TypeOK` and `BoardsAgree` of run `ceremony` |
| `TrusteeAgreementProofs` | |
| `TrusteesAgreeOnTheKey` | `ElectionKeyAgreed` |
| `OnlyMixedBallotsAreDecrypted`, `TrusteesPublishTheSameBallots` | `DecryptOnlyFullyMixed`, `BallotsAreDecrypted` |
| `TrusteeCeremonyProofs` | |
| `CeremonyImplemented` | `TrusteeProtocol` implements `ElectionCeremony`: `ImplementsCeremony` of run `ceremony` |
| `NobodyFails` | `NoFailures` of run `ceremony_live`, in every calm ceremony |
| `BallotCryptographyProofs` | |
| `SharesVerified`, `JointKeyAgreed`, `QuorumsHoldTheSecret` | `AlteredSharesAreRefused`, `KeysAgree`, `SecretsInterpolate` of run `crypto` |
| `ElectionCompletenessProofs` | |
| `WhatIsRightIsAccepted` | what is right is accepted: one direction of the other properties of run `crypto` |

So every property of the runs `dbb`, `voting` and `ceremony` is a theorem, the
invariant of `ceremony_live` is, and so are those of `crypto` about the keys of the trustees, and of the others the
direction that does not rest on values of the hash. The assumptions are those of
the modules: `ConstantsAssumption` (the served election hash is one that may
occur, clock values are natural numbers and there is one, `MaxCustom` is a
natural number), `EASAssumption` (the timeout and the bound on requests are
natural numbers), `TrusteesAssumption` (a threshold between 1 and the number of
trustees), `TrusteeProtocolAssumption` (the ceremonies are records as section 2
describes them), `OrderAssumption` (the order is a prime above 256, and 2 modulo
3), `DealerAssumption` (a threshold between 1 and the number of trustees, and
the powers of positions below the order), `RunsAssumption` (a run is a natural
number, and there is a voter), `BallotAssumption` (ballots are scalars, so that
no two have the same encoding, and a ballot has a width) and
`MixingsAssumption` (what a mixer draws is a permutation of the ciphertexts).

### The ballot box

1. `AppendToBoard` says what `Append` does to a sequence; `BoardSteps` says that
   a step leaves the board alone or appends one bulletin of one of three kinds,
   a submission, a cast or a custom one, that passed its checks on *this* board.
   All later proofs about the board split on this lemma, and not on actions.
2. `TypeOK` is inductive by itself; `ChainIsValid` is inductive with it. In
   `ChainStep` the new bulletin differs from every old one: it names the head as
   its predecessor, an old one names a bulletin before the head, and the two
   have different hashes by the invariant.
3. `AtMostOneCast`, `CastIsLatestSubmission` and `UniqueCiphertexts` are each
   inductive with `TypeOK`: `VoterSteps` reduces a step to how the casts and
   submissions of one voter change; `CastOfVoter` carries over what the cast
   checks saw.
4. `SealedStep` shows the action property: both `BuildSubmission` and
   `BuildCast` demand that there is no cast before.
5. `RandomizersAreTheSubmitters` needs `ChainIsValid`: a tracker a session
   stores resolves to the same bulletin later (`TrackersResolve`), because the
   board only grows and hashes are unambiguous.
6. For the refinement the ledger's `latest` is a `CHOOSE` of a last position.
   The invariant `LastsExist` (a non-empty set of positions of a voter has a
   greatest one) makes it meaningful; `LatestAfter` says how it moves.
   Submissions map to `Submit`, casts to `Cast`, everything else to a stutter.
   Check #5 of a cast, by way of `CastOfVoter`, says that the ballot cast is the
   ledger's latest.

### Election day

1. The steps of each actor are reduced to what they may change (`StepsOfActors`,
   and the operators `VAStep`, `Starts`, `TakesToken`, ...), so that later
   proofs do not go through the actions again.
2. `Types` is inductive: what each application remembers in each sub-state, what
   each message carries, and that trackers which an application keeps are on the
   board. It implies `TypeOK`.
3. In the composition the ballot box gets messages that other actors computed.
   By `Types` these are messages its module allows, so each step is a step of
   `DigitalBallotBox` with the constants of `Box`: `ComposedBoxIsABallotBox`.
   That is how its theorems, the refinement included, hold on election day, and
   how the proofs below use `ChainIsValid` and `AtMostOneCast`.
4. `NoRequestIsReused`: ids are counted up, live ids are below the next one, and
   no handler but `AuthReq` adds one.
5. `Authentication`, the inductive invariant of the authentication, follows a
   token on its way, in five parts: the AS makes it for one request, the EAS
   hands it out for the key of that request only, the voter who holds that key
   logs in with it, reports and the host's question speak of that login, and an
   authorization is for the login that its key's token was used for. None is
   inductive without the ones before.
6. `VoterFits`, `ReportsFit` and `ChecksFit` are the invariants about ballots:
   what a VA waits for is its voter's in *every* sub-state, what the ballot box
   confirmed is on the board, and what a BCA decrypts is behind its tracker.
   That trackers resolve to the same bulletins later comes from the chain, that
   a cast ballot is the only one from `OneCastPerVoter`.
7. `OnlyComparedKeysGetRandomizers` needs `ComparedIsRequested`: what the voter
   compared is the key of the request that the VA holds, for a request arriving
   later finds the VA in another sub-state.

### The trustees

1. `Types` is inductive: every mirror and checkpoint is a prefix of the board of
   the TAS, the active trustees are those of the first mix initialization on it,
   and every message on it could be converted to a fact. `UpdatesExtend` is the
   heart of `MirrorsArePrefixes`: an update that is processed leads to a longer
   prefix, wherever it starts.
2. Facts and Ascent actions are reduced to messages (`FactsFrom`,
   `FactsSay`), so that what a trustee sends is read off the mirror it acted on.
3. `Keys` is the invariant of key generation. The TAS takes shares only while
   those of a trustee are missing, so none is on the board after the shares of
   all; a mirror with the shares of all has *all* the shares, and two different
   ones of one trustee are an error of the Ascent logic. The restarted trustee
   that deals again is thus either too late or refused.
4. `Mixes` is the invariant of mixing: every mix that was sent is a shuffle of
   what the round before has put out first on the board, and every partial
   decryption is of the last output. Two outputs of one round, as a restarted
   trustee or a second mix initialization may cause them, are an error for
   everyone who sees them. `mix_complete` is a recursive function over the
   rounds; `ChainsExist` and `ChainIs` show that its definition has a solution,
   and `LinksAre` that its links are the rounds' outputs.
5. For the refinement the invariants above are not enough: messages are posted
   in any order, so that nothing in `Mixes` says that the output of a round is
   on the board before that of the next, or before a signature of it.
   `MixesInOrder` does. A mixer sends its mix only when all active trustees have
   signed the round before *on the board*, and nobody signs a mix that is not on
   it. It is inductive with `Types`, `Keys` and `Mixes`: what a trustee saw on
   its mirror is on the board, and stays the round's output (`LastOutputIs`).
   `RoundsInTurn` follows, the rounds that have put out are 1 to n for some n,
   which is what makes `MixesDone` a sequence.
6. `CeremonyStep` then splits on what a step does to the board and to `sent`. A
   posted message is a step of the ceremony in four cases: shares (`Deal`), the
   first mix initialization (`StartMixing`), the first mix of a round (`Mix`)
   and a signature of it (`Sign`). A trustee that sends the first message with a
   key, or partial decryptions, or ballots, takes `Agree`, `Decrypt` or
   `Publish`. Everything else, repeated and late messages included, is a
   stutter. `Agree` happens once because there is one key (`OneKey`), and
   `Publish` because every plaintext sent is of the last output. That no shares
   are posted once there is a key is the part of `Keys` about the TAS.
7. `NobodyFails` is about ceremonies that are `Calm`, in steps without
   tampering, stops and restarts (`CalmNext`): `FairSpec` takes such steps, but
   the theorem has them in any order, and mixing start with the keys in any
   order on the board. Its invariant `Orderly` says that all messages are of one
   script (`Scripted`), that each is on the board after those it `Needs`, and
   the same of every mirror. Then the facts are known (`FactsReport`) and have no
   error (`NoErrors`), an action leads to the one message that is missing
   (`ActionsLead`, `OneDue`), and what is verified before it is sent holds
   (`DueSucceeds`). The exception are signatures of mixes. `action_sign_mix`
   verifies a mix against the last ciphertexts before the *last message* of the
   board, which are the right ones only if the mix is that message: so the
   invariant also says that no trustee has a mix on its mirror that it has not
   signed (`Signed`), and this is why one message at a time is needed. The
   conditions of `Calm` are needed, as runs of section 3 that expect a violation
   show: a start after setup (`trustee_setup_data`), updates of one message
   (`trustee_batches`, `trustee_sign_mix`), the first trustees as the active ones
   (`trustee_active_list`).

### Key generation

1. Sums, products and hashes are folds, and a fold is the value of a recursive
   function over sets of positions, which `FoldsExist` shows to exist.
   `PartialSums` finds the partial sums in it; `SumsDiffer` compares two sums
   term by term, modulo the order.
2. The dealer multiplies up powers of a position as scalars, the recipient
   raises to powers that are integers. `PowersAgree`: they are the same modulo
   the order, and because the greatest is below the order, none vanishes.
3. So the checking values of a polynomial evaluate to its value
   (`CheckingValuesEvaluate`), and to another if one of them is altered, at
   every position (`AlteredCheckingValueShows`). `ShareIsDecrypted`: encoding,
   ElGamal encryption, decryption and decoding give back a share.
4. `KeyInv` is inductive: a dealer's message is what its polynomial gives, but
   for the one datum that may be altered, and what a trustee holds is what it
   computes from the messages of all. With 3 it says which trustees accept, and
   once all have, which keys they hold. No fact about values of the hash is
   used, but that they are scalars, and none that the order is prime.
5. `QuorumsHoldTheSecret` needs it. `NoZeroDivisors`: the least number that
   makes a scalar vanish divides the order. `TotalPermuted`: a product does not
   depend on the order of its factors; so the product of the multiples of a
   scalar is that of all scalars, which is Fermat's theorem, and `InvertIs` says
   that the power `Invert` computes, by squaring (`PowerIs`), is the inverse.
   Denominators of Lagrange coefficients are products of differences of
   positions, and do not vanish (`CoefficientIs`).
6. `PointsInterpolate`: n points interpolate the k-th power, for k below n, to
   the k-th power of 0. From n to n + 1: `MultipliedByPoints` gives the
   interpolated (k + 1)-th power from the k-th, by way of any point that is
   left out; for constants two such ways must agree, which leaves 1 as the only
   value. A polynomial is a sum of powers (`PolynomialInterpolates`), and a
   trustee's key a sum of polynomials (`SecretKeyIs`): `RowsAndColumns` sums up
   the weighted shares of a quorum by dealers.

### An election

1. Ballots, exponents and ciphertexts are vectors of scalars, and each operator
   of the crate is followed entry by entry (`VectorsAre`). Powers of the
   generator with the responses of a proof are equal by the laws of the scalars
   (`Distributes`, `AddAssociates`), and a verifier hashes the list that the
   prover hashed. So the proofs of equal plaintexts and of equal logarithms that
   the algorithms make are verified by them.
2. `EncodeBallotIs`: no two ballots have the same encoding, because a hash is a
   permutation of the scalars in each number of its input. There the order is
   needed to be 2 modulo 3 (`ThirdPowersDiffer`, by Fermat's theorem). With it
   `BallotIsDisplayed`: a ballot is stripped, verifies for its voter, and comes
   out of a check.
3. `ShuffleIsVerified`, the longest part: the five equations and the bridging
   commitments that `Shuffler::verify` checks hold of what `Shuffler::shuffle`
   computes, for every permutation. Sums and products of permuted lists are
   those of the lists (`TotalPermuted`); the bridging commitments are powers of
   two generators, whose exponents are followed along the list.
4. `MixedAgain`: to mix what is encrypted in some order with some exponents is to
   encrypt it in another order with others. `CombineIs`: the factors of a quorum,
   to the power of their Lagrange coefficients, multiply to the power of the
   joint key that hides a ballot, since the secret keys interpolate.
5. `ElectionIsRight` is inductive with `KeyInv`. It says of each ballot, check,
   mix and partial decryption that it is right unless the fault is in it, and of
   the mixes moreover that they encrypt the ballots cast, unless a ballot or a
   mix was altered. The condition on the fault is per item: what is altered
   elsewhere, and even an altered ballot that should pass, does not make a right
   one be refused. `WhatIsRightIsAccepted` follows from it.

Inductions over natural numbers (rounds, positions on a board) are done by
taking the least counterexample (`LeastExists`, from the well-foundedness of <):
the library's induction theorems have operators as parameters, which no
installed prover can instantiate.

### What stays with TLC

* Liveness (`voting_live`, `ceremony_live`): fairness and `ENABLED` are beyond
  the prover.
* That what is wrong is refused, which is the other direction of
  `CiphertextsVerifyForTheirVoter`, `ChecksDisplayTheBallotCast`,
  `OnlyMixesOfTheInputAreSigned` and `OnlyRightFactorsAreCombined`, and the part
  of `DecryptedBallotsWereCast` after an altered ballot or mix. It rests on
  values of the hash: for some small orders two different inputs have the same
  one, and the properties are false. They hold where TLC checks them, and are a
  statement about the algorithms because the algorithms do not depend on the
  order. `AlteredSharesAreRefused` is a theorem in both directions: its proof
  needs no value of the hash.
* The runs that expect a violation.

No module declares a recursive operator; recursive definitions are recursive
functions or folds.

## 5. What is not modelled

* An `AuthReq` sent to an existing sub-actor of the EAS, which panics: the
  top-level actor only makes new sub-actors for it.
* P-256 and the Schnorr proof, which no protocol uses; signatures, hashes and
  serialization as bytes; that logarithms are hard to compute.
* In the TAS: rejection of setup messages with other election data (all messages
  carry the one configuration), and recovery from a checkpoint older than the
  board that trustees have seen. `trustee_update` is modelled by the updates it
  can answer with, and not its panic on an empty board.
* A trustee restarted in decryption, which decrypts but does not report the end
  of it: the liveness run has no restarts.
* The registry of bulletin types, the Stateright models, documents, builds.

## 6. Plan

Done: the board and the ballot box, its ledger and proofs; election day, safe
over an unreliable network and live over a reliable one, and the proofs of its
safety; the cryptography, and the proofs of key generation, of the shared secret
and that what is right is accepted; TAS, trustees and their composition, the
proofs of their safety, the abstract ceremony with the proof that they implement
it, and the proof that nobody fails where nothing goes wrong.

Next: the TAS restarting from an old checkpoint, in `TrusteeAdminServer`.

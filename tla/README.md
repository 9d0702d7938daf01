# TLA+ specifications of the ThoughtKhoral platform

The repository deploys a room gateway, two A2A agents, an optional Codex worker, Keycloak and a
workspace UI on one host, with Compose or Kubernetes. Most services are built from other
repositories; what this one owns is the machinery around them: who may talk to whom at which moment,
who may run while that is enforced, what the UI may believe about it, and how the whole is started,
exercised and taken down. This directory models that machinery, checks it with TLC, and proves its
core with TLAPS. All paths below are relative to the repository.

## Inventory

| Part | State it keeps | Operations | Interacts with | What makes it correct |
|---|---|---|---|---|
| **Agent egress owner** `scripts/agent-egress.sh --hold`, `compose.yaml:137-228` | shell variables (`room_ips`, `peer_ips`, `codex_ips`, `active_chain`), two kernel chains, the rule that jumps to one of them, the readiness file | lookups, default-deny filter, refresh every two seconds, `fail_closed_refresh` | resolver, kernel, container engine, both agents (they join its namespaces) | the allowlist changes as a whole; no stale address; agents run only behind the filter and die with the owner |
| **Provider proxy** `proxy/codex-provider.py` | semaphore of 16 slots; per connection: header read so far, byte budget, deadline | accept, read, route, connect, relay, give up | worker (tunnels), Codex egress owner and container engine (health probes), provider | every slot comes back, exactly once, in bounded time |
| **Codex egress owner** `scripts/codex-egress.py`, `compose.codex.yaml:13-86` | the filters it installed, `observed_proxy`, deadline, readiness file | install, compare every second, probe the proxy, exit | kernel, proxy, container engine, worker | proxy and worker run only behind both filters; a changed filter or a lost proxy ends the namespace |
| **Codex worker wrapper** `scripts/codex-start.sh` | `admission.json` on a shared volume, the worker's process | startup checks, wait for the worker's card, renew the file every second, trap | worker, UI (through nginx), container engine | readiness is this run's own, published only after the worker answered, gone after a stop |
| **UI admission reader** `ui/codex-admission.js` | a response under way | fetch, judge | the wrapper's file | admits only on readiness of the last five seconds |
| **UI token session** `ui/thought-khoral-bootstrap.js:30-120,169-192` | `sessionStorage` (tokens, transaction), the address, calls under way | callback, `getAccessToken`, refresh, authorization | Keycloak, the browser, the application | the login page shown is the one the tab accepts; a callback is consumed once; no call waits for ever |
| **UI authenticated socket** `ui/thought-khoral-bootstrap.js:122-167` | `readyState` over a browser's WebSocket | authenticate, forward events, send, close | room gateway, application | nothing leaves before the actor is known; to the application it is an ordinary WebSocket |
| **Pinned remote build** `scripts/build-remote.sh` | a temporary context of cloned components | copy, clone, verify, build, start, clean up | git remotes, podman, the user's signals | never starts from a context emptied and filled again in part, nor from another revision; leaves nothing behind |
| **Live verification** `scripts/smoke-codex-conversation.mjs --live` | evidence and its open file, the start time of the worker's container, the turns so far | check the packet, reserve the evidence file, prompt the operator, submit turns, judge them | broker, podman, a human operator | a gate is passed only on what was shown; evidence survives every failure |
| **Composed fixture runner** `scripts/smoke-codex-conversation.mjs --fake`, `fake_app_server.py` | child, database container, state directory, registry of native groups | start, await, interrupt, clean up | fixture, its workers and mediators, native app-servers, podman, the user's signals | state is erased only when nothing is left; failure is reported; it ends |
| Composed fixture scenario `scripts/fixtures/codex-conversation/src/main.rs` | broker database, mediator records, worker receipts | scripted crashes and restarts between admission, delivery, receipt and reply | three other repositories' libraries | a task is run once and answered once |
| **Agent gateway smoke test** `scripts/smoke-agent-gateway.mjs` | two humans' connections; WebSocket mailbox and its waiters, task events collected, whether the agent gateway has to be started again | sign in and connect side by side, join, stop the gateway, capture a task, start it, invoke two skills, receive with timeouts, observe | Keycloak, room gateway, agent gateway, podman-compose | it passes only what it saw happen, fails only for a cause, leaves the platform running, and ends |
| **Browser smoke test** `scripts/browser-smoke.mjs` | bytes received and not parsed, WebSocket mailbox, waiters | sign in, upgrade, parse, send, receive with timeout, hang up | Keycloak, UI, room gateway over TCP | what was sent is what is received, however TCP cuts it; it passes only a room that was joined; it ends |
| Compose start-up graph `compose.yaml`, `thought-khoral-gateway-entrypoint.sh` | health of each service | start when dependencies are healthy, thirty attempts for the OIDC keys | all services | the platform comes up, or fails visibly |
| Kubernetes manifests, their validation, one-shot checks, shell smoke tests, images, realm | none that changes | - | - | not modelled, see below |

What is hard to test here: commands that fail in the middle of a sequence that must look atomic;
containers that share namespaces and are killed, restarted and recreated at any point; files that
outlive their writer; a trap that runs between two commands and returns; concurrent calls over one
`sessionStorage`; processes that are started while their owners are being killed; a stream that is cut
anywhere; a run that fails after half of its evidence was gathered. PROJECT.json lists
each such hazard at its line, with the properties that cover it.

## Modules

| Module | Models | State and actions |
|---|---|---|
| `EgressPolicy` | what the egress owner promises: an allowlist replaced or revoked as a whole by the one the latest lookups call for, agents only behind a filter, fail-stop | abstract; `Publish` is one step |
| `AgentEgress` | `agent-egress.sh --hold`, the engine and the two agents | one action per command that touches the kernel or asks the resolver, with the assignments that follow; `chain`, `jump`, `installed` are the kernel, `agents` and `restarts` the engine |
| `MCAgentEgress`, `AgentEgressProofs` | instances for TLC; proofs | |
| `ProviderProxy` (`MC...`, `...Proofs`) | `codex-provider.py`, a thread per connection | one action per blocking call of the handler, `Relay` is one pass over one reader or two; `Close` is its `finally` |
| `CodexEgress` (`MC...`, `...Proofs`) | `codex-egress.py` composed with an instance of `ProviderProxy` | the owner's probe is a connection of the proxy like the worker's tunnels |
| `CodexAdmission` (`...Proofs`) | wrapper and UI reader, joined by the file | one action per command; time in half seconds, `date +%s` truncates |
| `BootstrapSession` | token session of one tab | one action per stretch between awaits; a load of the page keeps only storage and address |
| `AuthenticatedSocket` | the WebSocket wrapper | one action per listener and method |
| `Workspace` (`...Proofs`) | the page: `BootstrapSession` and an instance of `AuthenticatedSocket` | the socket is created once a call returned a token, and is gone with its load of the page |
| `RemoteBuild` (`...Proofs`) | `build-remote.sh` from `mktemp` on | one action per command; the copy may be cut short and go on; `Signal` is the trap that returns |
| `BrowserSmoke` (`SmokeProofs`) | `browser-smoke.mjs` | one action per stretch between awaits, one per callback of its TCP connection; frames are sequences of bytes, which arrive in any pieces; each frame sent is kept with the place of its last byte |
| `AgentSmokeSetup` | `smoke-agent-gateway.mjs` up to the hidden message | the two humans' promises side by side; `main` is the script's place |
| `AgentTaskSmoke` (`SmokeProofs`) | the same script from the hidden message on | one action per stretch of the script between awaits, one per thing that happens to its connection (a message, its end, a timer); the room and the agent gateway do what the script expects, or disturb it |
| `Smoke` (`SmokeProofs`) | the end of `smoke.sh`: `BrowserSmoke`, then `AgentSmokeSetup`, then `AgentTaskSmoke` | `stage` says whose turn it is; a stage that fails is the last |
| `LiveVerification` | `liveMode`, with broker, worker and operator around it | one action per await; a turn's answer is one of six |
| `FixtureCleanup` | `fakeMode` and the processes it owns | one action per synchronous command of the runner, which handles signals only where it awaits; every scan, signal and removal may fail. The fixture's leader, the workers and mediators in its group (`members`), and the natives run meanwhile and end one by one; `piped` are the natives whose input a living worker holds |
| `Conversation` (`...Proofs`) | `smoke-codex-conversation.mjs`: `FixtureCleanup`, or an instance of `LiveVerification` | `mode` is what the arguments chose, and the checks before the fixture |

Operators named `X_something` are mutants: `X` changed the way a bug would change it. Nothing uses
them; PROJECT.json says which property each breaks.

### What the models leave out, and what they assume

* Data are abstracted to what properties tell apart: an address is a model value, a rule is what it
  admits, a token is whether it is good for another 30 seconds, a WebSocket message is whether it
  names the actor.
* A failing `iptables` command has no effect. The DNS exceptions of the filter are one command.
* PID 1 of a PID namespace and everything in it end in one step (the kernel's promise, which
  `pid: container:` in the Compose files relies on). The operator recreates a group of containers as
  a whole. A privileged outsider changes the Codex filter in one family at a time.
* The UI and the wrapper read one clock, as the platform runs on one host.
* In `BrowserSmoke` payload lengths are scaled: the limits 125 and 65535 of the two short forms of a
  frame are 1 and 2, headers keep their size, so all three forms fit into a few bytes. A length is told by
  its last byte, and read as none before (the code would throw). Text that `JSON.parse` refuses, which would
  throw in the data listener and end the process, is left out: the gateway writes JSON. A length that
  JavaScript cannot count, a request line and the headers' text are left out; an upgrade that is
  refused, for its status or its key, is one that fails.
* The set-up of the agent smoke test has the same connection and parser as `BrowserSmoke`; what one of
  its requests meets there is that it succeeds or fails.
* A room gateway whose client has sent its close closes as well (`Ends` is fair from then on). Neither
  script destroys the connection, so a process whose gateway does not would stay.
* The five tool probes of the live run are one. Its packet either meets every check or not; a turn's
  answer is none, a failure, a reply that is not committed, omits a code, discloses the canary, or is
  good.
* The smoke test's own requests over HTTP succeed or fail; what the room answers otherwise is the event
  it was asked for, at most `MaxExtra` times another one, none, or a message beside the point. An
  event is its task and its place in the life cycle; a success is cited as asked, or not.
* The user of a tab does not go back through the history to a login page older than the last; a
  reload, in every state of the page, is modelled.
* A component's git remote yields for a commit that commit or a failure the script detects, and for a
  tag whatever the tag names.
* The copy of the platform's own files is whole or partial; which files are missing is not told. A part
  that is partial enough to stop the image build or Compose is a command that fails.
* A prompt of the live run that never settles, at the end of its input, is a step that is not taken.
* A native registers before it reads, and a worker sends what can make it hold only after the answer to
  its `initialize`; that first request alone may be in the pipe of a native not yet registered, and is not
  counted. A worker that ends closes its pipes, and pipes are not inherited. What a process leaves to be
  reaped by the system is gone at once. A signal to a native is no more than may happen to it at any time,
  so only what the fixture's group was sent is kept. `TASK9_KEEP_FIXTURE`, which keeps the state in any
  case, is left out.
* A failing `podman run` leaves no container, and process numbers are not reused within a run of the
  fixture. A failing `podman-compose stop` may have stopped the gateway; `GatewayRestored` excludes it.

## Runs

| Run | Instance | Shows |
|---|---|---|
| `egress_local` | `CodexEnabled = FALSE`, two addresses, replies with one, the other, both, none, and one cut off by a failure; one automatic restart; three ways for the resolver to settle | `LivePolicyWhole`: the allowlist in force is empty or exactly the one the script believes in, at every command; `ImplementsPolicy`: refinement of `EgressPolicy`; `StaleRevoked`: what the resolver no longer vouches for goes |
| `egress_codex` | the Codex worker and broker as further peers; names that resolve or fail; six settlements | `AgentsAreGuarded`, `OnlyResolvedAddresses` at every sleep, `PolicyRestored` after any number of failed refreshes |
| `provider_proxy` | three connections, two slots, a byte budget of three and blocks of two, other budgets of two | `SlotsAccounted`, `SlotsComeBack`; in its `TypeOK`, that no pass over two readers takes the byte budget below zero |
| `codex_egress` | one tunnel and the probe, one slot, a probe that may be slow | `WorkloadsConfined`, `PolicyChangeStops`, `ProxyLossStops` |
| `codex_saturated` (violation) | two tunnels, two slots, a prompt probe | `OnlyLossStops` is violated, see Findings |
| `admission` | two runs of the wrapper, 6.5 seconds, failures, stops, kills | `OwnReadinessOnly`, `AdmitsOnlyFresh`; `StopLeavesNothing`: after a handled TERM the file is gone for good, although the loop may write it once more, unless the wrapper is killed first |
| `admission_slow` (violation) | nothing fails | `ReadinessPublished` is violated, see Findings |
| `workspace` | two concurrent calls, three authorizations, two messages each way; the page is left and loaded again at any time | `LoginMatches`, `RedirectsClean`, `CallsEnd` of the calls; `LooksLikeWebSocket`, `RefusalCloses` of the socket |
| `remote_build` | with Codex, one tag among commits, two signals, a copy that may be cut short | `StartedFromParts`: every part is there and at its commit, whatever a signal emptied and a clone created again; `NothingLeft` |
| `conversation` | two natives, a worker that may outlive the fixture and be replaced, one signal, three rescans, any scan, signal or removal failing; or a live run with two restarts of the worker | `NothingSurvives`, `FailureIsSeen`, `NothingRemains`, `RunEnds` of the fixture; `PassedMeansShown`, `EvidenceKept` of the live run |
| `smoke` | three frames with all three kinds of header, masked or not, cut anywhere; then the set-up; then the captured task and both skills, one message or event out of its turn, an end of the connection at any time | `StreamFaithful`: the messages read are the text frames that have arrived whole, in order, each once; `PassesConnected`; `NothingLost`: the mailbox keeps every message and their order; `VerdictTrue`: a pass means that for both skills a request was read and from there on, of its task, exactly the promised events in order; a failure has a cause; `GatewayRestored`; `SmokeEnds` |
| `live_failures` (violation) | every answer of the broker to every turn | `FailedTasksRecorded` is violated, see Findings |

Each run with a `TypeOK` or `AllTypeOK` also checks the types of its modules. Deadlock is checked except where the system
really stops: a script that has ended.

**Why the bounds are enough.** Two addresses are what a rule can be confused with; an allowlist of
two is the smallest that can be half built. One automatic restart of the gateway (three in the code)
already comes before, after and between every step of the owner's death and of a recreation; further
ones repeat it. One or two slots against sixteen: the proxy tells only "none left" from "some left",
and both are reached with fewer connections. 13 half seconds let a file expire, be renewed by a second
run, and be judged by a fetch that began before. Two callers of `getAccessToken` allow one that refreshes or begins an authorization
while the other begins one, and three authorizations let a tab sign in, expire and race again; the
theorems cover any number. Two messages are one before or with the answer and one after. Three frames
are the two answers and one to get in their way, and a frame's bytes can be cut at every place. A
worker that restarts twice may do so by itself and as it was asked to. With three rescans
(a hundred in the code) the loop has one of each kind: right after TERM, later, and with KILL; a fixture can still
outlast it. One signal may come before or after a failure began the cleanup, which is all a second one could
find; one child stands for all beside the leader, as a mediator is a member that asks no native (with
both, and the same properties, TLC finds 432,000 states and takes longer than it should; the theorems
cover any set of children). Three pieces in blocks of two are a budget the second reader of a pass may exceed. One extra message is what can be mistaken for a task's own; the late events of the
captured task are always there. Every theorem below holds without these bounds.

**Fairness.** Only what a program does by itself is fair: the owner's shell goes on to its next
command, an event loop calls what is due, time passes, a blocking call ends with its timeout, a
process that got KILL dies (for the fixture's group, its leader and each of its children). For the proxy this means `Read`, `Connect`, `Expire` and `Tick`, which
have timeouts in the code, and not `Relay`, which needs a peer. Nothing is assumed of operators,
users, resolvers (until they settle, where a property speaks of that), agents, the gateway, or the
fixture; the smoke tests' scripts run and their timers fire, and a gateway that was told that its
client is done hangs up: nothing else there is fair, neither that it answers nor that it closes by
itself. The live run has no fairness at all: it waits for its operator. `egress_*` state liveness of an owner that stays up after the resolver settled: `Settle`
is not fair either. In `admission_slow` the worker is assumed to listen some time.

## Proofs

TLAPS checks, for every value of the constants allowed by the named assumptions. These say no more
than what the constants are: numbers (positive where the code's own limit is), finite sets of
connections, tunnels and callers, subsets of what may happen. `LengthAssumption` orders the two limits
of the short frames and lets every payload have one byte at least, as a JSON text has.

| Module | Theorems | Argument |
|---|---|---|
| `AgentEgressProofs` | `TypeCorrect`, `WholePolicies` (`LivePolicyWhole`), `NoStaleAddress` (`OnlyResolvedAddresses`), `GuardedAgents` (`AgentsAreGuarded`), `Refinement` (`ImplementsPolicy`) | see below |
| `ProviderProxyProofs` | `ProxyTypeCorrect`, `NoSlotLeaks` (`SlotsAccounted`) | the two invariants together: what ends a handler is one slot more and one holder less (`Closing`), everything else moves neither; needs a finite set of connections |
| `CodexEgressProofs` | `EgressTyped` (`TypeOK`), `Confinement` (`WorkloadsConfined`), `SlotsSurviveTheProxy` | the readiness file exists only between the end of `install` and the end of the owner, and whoever runs was started behind it. The proxy's steps are those `ProviderProxyProofs` has lemmas about; a probe that is given up is a peer that leaves, and a proxy recreated has all its slots and no connection |
| `CodexAdmissionProofs` | `AdmissionTyped` (`TypeOK`), `ReadinessIsOwn` (`OwnReadinessOnly`), `FreshAdmission` (`AdmitsOnlyFresh`, an action property) | an expiry, wherever it is on its way from `expires_ms` to the UI, is at most five seconds past the last time the wrapper computed one |
| `SmokeProofs` | `MailboxKeeps` (`NothingLost`), `FinallyRestores` (`GatewayRestored`), `VerdictsTrue` (`VerdictTrue`), `StreamIsFaithful` (`StreamFaithful`), `PassIsConnected` (`PassesConnected`), `SmokeTyped` (`AllTypeOK`) | see below |
| `WorkspaceProofs` | `WorkspaceTyped` (`AllTypeOK`), `LoginIsAccepted` (`LoginMatches`), `RedirectsAreClean` (`RedirectsClean`), `SocketIsOrdinary` (`LooksLikeWebSocket`) | a navigation under way is the one remembered last; only an application navigates, and it runs only once the callback has left the address; every step of the page with its socket is a step of `BootstrapSession` or none of its business. The state of the browser's socket, of the wrapper and of what has been sent says which events the application has heard. That the authorizations stay within their number takes counting the calls that are about to begin one |
| `ConversationProofs` | `ConversationTyped` (`AllTypeOK`), `NothingIsLeft` (`NothingSurvives`), `ExitCodeIsTrue` (`FailureIsSeen`), `GateIsEarned` (`PassedMeansShown`), `EvidenceIsKept` (`EvidenceKept`) | a scan counts the fixture's group while any member lives, only a living worker holds a native's pipe (`OwnedInv`), and a native registers before it reads: so once a scan found nothing, neither leader nor child is left, none can be started, and no native is asked again, though natives may still start; in the live run every place of the plan says what has been shown by then |
| `RemoteBuildProofs` | `StartsFromParts` (`StartedFromParts`), `LeavesNothing` (`NothingLeft`) | a context that holds any of the platform's own files has not been emptied since they were copied, as they are copied first and once; so every component cloned since is still there. That the copy is whole is not proved, as it is not so |

The invariant of the egress owner, `IInv` in `AgentEgress`, is `LivePolicyWhole` and
`AgentsAreGuarded` spelled out by the place the script is at. `LivePolicyWhole` alone is not
inductive: that the switch installs a whole policy needs that the inactive chain plus what is still
to be appended make up the new policy (`LoopInv`, and `FillInv` during startup), that it is not the
chain in use needs that the script's `active_chain` is the kernel's `jump`, and that the filter stays
complete needs that nothing after startup touches it. `StartupInv` says what has been found and that
nothing is installed yet; `AgentsInv` that agents leave "created" only once the owner is ready. The
refinement maps the answers of the lookups to `found`, the chain in use to `policy` (empty once the
owner is dead), the complete filter of a living owner to `guarded`. Every owner step but the
switch, the revocation, the lookups and an exit maps to a stutter, and `SwitchChain` is `Publish`
precisely because `LoopInv` says the chain is complete.

The verdict of the agent smoke test (`VerdictsTrue`) has two halves. *A pass is earned*: `ConfirmInv`
says that what the script has collected is all that it has been given of the task it follows since that
task's request; `NothingLost` puts the mailbox in between, and `Untold` says that the room does not tell
of a task that was not asked for. *A failure has a cause*: as long as nothing is troubled the room tells
of each skill's task in the order of its life cycle and of every step once (`OrderInv`), and the script
is exactly as far as the messages it was given (`FollowInv`), so it finds nothing out of order and
nothing after the end. Nothing can be simplified to "the next message is the next event", because the
captured task goes on being told of while the skills are. `FinallyRestores` needs where the script is
while it owes a start of the gateway (`FinallyInv`).

The frame parser of the browser test (`StreamIsFaithful`). Let `Rest` be the buffer followed by what is
under way. `StreamInv`: there is a number p of frames such that `Rest` carries the stream from the first
byte after them (`Carries`), what has arrived ends with the buffer's last byte, and the messages read are
the texts of the p frames. While the handshake is under way `Rest` is its answer, two bytes in the model,
followed by the stream from its beginning, and the only blank line is the answer's (`HandshakeInv`); that
is what makes `initialData` the beginning of the first frame. The heart is `HeadFrame`: for a buffer
that begins with a frame's first byte, `Complete` is true exactly from the frame's last byte on, and
length, mask and payload are read where `Encode` put them, for all three kinds of header. No step needs
induction over the frames: each is kept with the place of its last byte, and `Laid` says how that follows
from the frame before. `PassIsConnected` then asks only which message was taken at which place of the
script (`MailInv`): each is the text of a frame the gateway sent.

Only model-checked: everything under fairness (`StaleRevoked`, `PolicyRestored`, `SlotsComeBack`,
`PolicyChangeStops`, `ProxyLossStops`, `StopLeavesNothing`, `CallsEnd`, `RefusalCloses`,
`NothingRemains`, `RunEnds`, `SmokeEnds`), which is out of the prover's reach. Every invariant and every
action property of a passing run is stated by a theorem. The three violations are TLC's counterexamples.

## Findings

* **A busy proxy is taken for a lost one** (`codex_saturated`, `scripts/codex-egress.py:56`). The
  owner's health probe competes with the worker's tunnels for the proxy's slots; a 503 for want of a
  slot ends the namespace, worker and proxy included. `docs/codex-local.md:104-105` names policy
  change, owner exit and proxy loss as the reasons.
* **A worker that needs a moment is never waited for** (`admission_slow`,
  `scripts/codex-start.sh:48`). The startup loop has a hundred attempts, but a refused connection
  leaves `response` unset, and `set -u` then ends the script at the first. `docs/codex-local.md:110-111`
  promises publication after a successful health check.
* **A failed live task leaves no failure code** (`live_failures`,
  `scripts/smoke-codex-conversation.mjs:289`). Only the turn with alternate settings records why it
  failed. Every other turn throws before anything is recorded of it, and a tool probe that failed leaves
  the gate passed. `docs/codex-verification.md:167-169` promises the code of any failed task and a failed
  gate.

* **A platform copy cut short is not noticed** (`scripts/build-remote.sh:99`; a state `RemoteBuild` reaches,
  without a run of its own). The copy
  is a pipeline of two tars without `pipefail`: a file that cannot be read, or is gone meanwhile, is left
  out, only the second one's status counts, and the paths checked before Compose are the components', not
  the platform's, from which the images are built too. (A missing file that an image names is found by its
  build; a shortened one by nobody.) `.ai/specs/how/implementation.md:18-22` says that every required source path is
  validated before.

Properties that hold where a reader might doubt it: a refresh may fail at any command without a half
built allowlist ever being in force; a trap that returns does not bring back a readiness file for
good, nor a build from an emptied context; concurrent authorizations end on the login page whose state
is stored; the captured task's late success, still in the mailbox, is neither taken for a skill's nor
for a disturbance; a native app-server that is in flight during the last scan ends by itself, because its
input ended with the worker that held it, and no scan finds nothing while a worker lives; frames that arrive with the answer to the handshake are not lost; a live
gate cannot be passed by a worker that restarted before the runner noted its start time.

Three properties except a state, on purpose, that the models reach. `RunEnds`: a scan or a signal that throws
is caught (`smoke-codex-conversation.mjs:406-417`), cleanup fails without ending the fixture, and a runner
that was interrupted goes on waiting for it (line 468). `PolicyRestored`: the reply rule alone is not put back
after a revocation until something else changes (`agent-egress.sh:75`). `SmokeEnds`: a human's connection
abandoned when the other's fails stays open until the gateway closes it (`smoke-agent-gateway.mjs:603`). Nothing
in the repository says otherwise of these, so they are hazards and not findings.

## Not modelled

* The start-up graph of the services outside the two namespaces: the Compose files declare once what
  waits for what to an engine that is not here; the gateway's entry point tries thirty times for the
  identity provider's keys and exits.
* The composed scenario (`main.rs`): it drives the libraries of three other repositories, and what a
  crash leaves behind is decided there.
* The egress owner as a one-shot Kubernetes init container: startup without the loop, which
  `AgentEgress` contains.
* Manifests, their validation by `grep`, realm, nginx and image files: declarations for other
  programs. `check-codex-inputs.py`, `codex-secrets.sh`, `codex-compose.sh` and what comes first in the
  shell smoke tests check once and hand over. `test-bootstrap.mjs` and `test-codex-bootstrap.mjs`
  exercise the page's modules with fixed inputs.
* The walk over parent directories that keeps an operator packet out of Git worktrees
  (`privatePath`): a check of paths, part of `Verify`.
* A waiter of `browser-smoke.mjs` that timed out is never found by its timer and swallows the next
  message. `BrowserSmoke` models it; the one caller ends with the exception, so nothing is received after.
* A connection that is closing between a task's success and the two seconds of observation leaves
  nothing to observe, and the silence passes (`scripts/smoke-agent-gateway.mjs:257`). `AgentTaskSmoke`
  reaches the state; no property speaks of it.
* That tags are immutable, that Keycloak and the browser are correct.

# Verification of dsh-ui-auth

TLA+ models of the account gateway in `src/src`, the TLC runs that check them on small instances, and TLAPS
proofs of the properties that matter most. Paths are relative to the repository with its files under `src/`;
a number without a path is a line of `src/src/index.ts`. The modules are written from the TypeScript sources;
`src/lib` is their compiled form.

The program is a plugin of a single-threaded host process. A request handler runs without interruption up to
an `await`, so the unit of interleaving is the code between two awaits, and everything that is hard here comes
from five facts:

* handlers decide on what they read before an `await` and act on it after;
* the same state lives in a map of the process and in a record or file, and the two are written apart;
* most records are rewritten as a whole, from a copy read earlier;
* session file writes are not awaited at all;
* the process may end between any two of these steps, and starts again from what reached the disk.

## 1. Inventory

| component | state | operations | modelled by |
|---|---|---|---|
| User store (740-890, 2573-2644, 2821-2880) | one credentials record per user, the record `retired-users`, the maps `state.users`, `state.retiredUsers` | load, create, mutate, remove, bootstrap; createUser, deleteUser, setRole, changePassword, resetPassword | `UserStore`, `UserStoreInv`, `NameLifecycle` |
| Login sessions (890-976, 3108) | `state.sessions`, `dsh-ui-auth-sessions.json` | create, resolve (sliding), destroy, invalidate, sweep, persist, load | `Sessions`, `SessionLife` |
| Account requests (1455-1755, 2025-2057, 2237-2645) | both of the above | password and passkey login, registration, logout, the account RPCs | `Accounts` |
| Login, tickets, challenges, lockout (1190-1290, 1400-1960; `webauthn.ts`) | `state.tickets`, the challenge store, `state.fails`, signature counters | issue, check, consume, evict, lock, verify, count | `Login` |
| Second factors (756-772, 1775-1991, 2689-2763; `webauthn.ts`) | the fields totpSecret, totpEnabled, twoFactor, passkeys of a record | totpSet2fa, totpGenerate, totpVerify, totpRemove, passkey add, remove, reset | `TwoFactor` |
| Invitation codes (1042-1085, 1990-2060, 2645-2690) | `state.invites`, the record `invites` | inviteCreate, inviteRevoke, register, persist, load | `Invites` |
| Ownership (985-1040) | `state.owners`, the record `ownership`, the promise chain `ownershipWrites` | claimOwner, persist, roll back, load; ownerOf* for every access check | `Ownership` |
| Request gateway and policy (`modern-gateway.ts` 150-445, `modern-policy.ts`) | requests in flight, the host's objects | authorise, forward, claim after create, provision | `Gateway` |
| Mux proxy (`modern-gateway.ts` 445-665, `modern-policy.ts`) | queues of frames of one WebSocket in both directions, pending interactions | connect, queue, flush, authorise a frame, project a frame, match answers | `MuxProxy`, `FilteredChannel` |
| Model profiles, key derivation (`profile-service.ts`, `profile-kek.ts`, `model-profiles.ts`) | the record of private profiles, the KDF salt, the registry of keys of sessions | bindSession, unbindSession, create, update, remove, changePassword, dropUser | `Profiles` |
| Sharing of profiles (`profile-service.ts` 240-400) | the master key, shared profiles, grants, received shares, the default selection | createShared, grantShare, revokeShare, selectShare | `Shares` |
| User routes (`user-routes.ts`, 2330-2420) | routes registered with the host, `routeOwner` | synchronise, replace, dispose, start | `Routes` |
| Start-up and gate (2861-2990) | `state.ready` | init, refuse while not ready | the `Boot` actions |
| Audit log (2796-2820) | the log file, the promise chain of appends | append by read and write | not modelled |
| Cryptography (password hashes, TOTP, WebAuthn) | none | pure functions | not modelled: a verification succeeds or fails |
| Web client, translations, build, tests | none of the server's | | not modelled |

How they interact. Every request resolves its cookie in the session table (which prolongs the session) and
looks the name up in the user table. The account RPCs change the user record, rewrap the model profiles, and
then change the session table. Registration checks a code, creates a user, counts the use of the code, and logs
in. Second-factor handlers are mutations of the same user record; tickets and challenges guard them. Unlocking
profiles puts a key under the session that asked; the routes follow the stored profiles. Ownership, invitations,
sessions and profiles name accounts by user name only, which is why a deleted name must never be used again. The
gateway asks the session table who calls and the ownership tables who owns what; the mux proxy does so once, when
a connection opens.

What makes each one correct:

* user store: the map agrees with the record, a deleted name is spent for ever, an administrator remains;
* sessions: an idle session ends, an ended one stays ended, a live one survives a restart;
* the two together: a deleted user is nobody's session, a changed password ends the older sessions;
* login: a ticket or challenge works once, no login brings back a counter older than all that the requests in flight
  had read, a locked address starts no login;
* second factors: 2FA is never on without a factor, only a confirmed secret counts, what was answered holds;
* invitations: an answered use is counted, an answered revocation is final, a code is not overused;
* ownership and gateway: an answered claim stays, on disk and in force; what was created for one user is not
  adopted by another; an object without an owner has a reason;
* mux proxy: frames keep their order, each reaches only who may see it, no interaction is stranded;
* profiles: whatever is stored opens with the current password; a key is there only for a live session;
* shares: what was revoked is gone, what was granted is there, in every record that says so, and every
  shared profile opens with the stored master key;
* routes: they are those of the stored profiles, and each can be disposed of.

The list of hazards with their lines is `hazards` in `PROJECT.json`.

## 2. Modules

`map` in `PROJECT.json` gives the source lines of every definition. Each module marks as "Variant" the mutated
forms of its definitions that the properties must reject. `MC*` modules hold the instances that TLC checks, with their
symmetry sets, and history variables and properties that go with them.

* `NameLifecycle` is the abstract specification of a user name: unused, then one account, then spent.
* `UserStore` has the two-fold user table. `calls[n]` are the credentials calls on the record of `n` in flight,
  `retiring` those on `retired-users`. `CreateUser`, `Register`, `DeleteUser`, `SetRole`, `ChangePassword`,
  `ResetPassword` and `Touch` are the handlers up to their await (the checks, then the call); `FinishCreate`,
  `FinishSetRole`, ... are the service executing the oldest call with the code that follows the await. `store.remove`
  has two awaits, hence `FinishRetire` and `FinishDelete`. `RejectCall` and `RejectRetire` are the service rejecting
  it, without effect or after it took effect (`Effect`; `unsure` has the names whose map entry is then behind): the
  handler throws, the maps stay as they are, and a deletion is broken off. `Boot` is `init` with `bootstrap`,
  `InitFails` an `init` that throws.
* `UserStoreInv` states the properties of `UserStore` and its inductive invariant. `MCUserStore` adds `contested`, which
  tells whether a demotion or deletion was ever in flight with another call (`Single`: nothing else is), or a demotion
  took effect though it was rejected, and `brokenOff`, the names whose deletion the last step broke off.
* `SessionLife` is the abstract specification of login tokens, without table, file or writes: a token is issued once to one
  user and resolves to that user or to nobody, never once TTL has passed since its last use; an ended session comes back
  only by a restart.
* `Names` declares the two constants that `Sessions` and `MuxProxy` share.
* `Sessions` has the session table, its file, and the writes in flight. `Key(t)` keeps a token apart from its
  hash, which is what the table's keys are. `Logout` is two actions, around the await of `uidOf`, and so is `RemoveUser`
  with `UserRemoved`, between which the user is gone and the sessions are not.
  `Destroy`, `CreateSession` and `InvalidateSessions` end in `Save`, as the code ends in `persistSessions`. `MCSessions`
  maps it to `SessionLife` (`Principal`: whom each token resolves to) with the history `issued`, the pairs of a token and
  the user of its login.
* `Accounts` EXTENDS `UserStore` and instantiates `Sessions` on the same users: `up` is `phase = "ready"` and `known`
  the names in `state.users`. `Rpc(t)` is `handleRpc`: a cookie that resolves to a user in the map, a handler in that
  user's name, and the sliding expiry. The `Answer*` actions are the code after the await in the handlers; after a
  call that was rejected (`CallRejected`, `RetireRejected`) it does not run. A passkey login awaits its verification
  first (`verifying`) and then its mutation of the record. `changing` holds the changePassword requests that rewrap
  profiles before they invalidate sessions, `joining` the registrations that await `persistInvites` before they open
  their session.
* `Login`: `ceremonies` are the requests that await the verification of an assertion or attestation, `calls[u]`
  the mutations of the record of `u` in flight. Tickets and challenges are numbered as they are issued. A passkey
  login checks and consumes its ticket and its challenge before it awaits the verification (`PasskeyLogin`: `SpendTicket`,
  `ConsumeChallenge`, `Begin`), so both are spent whatever comes of it. `seen` has the counters that the requests of a
  user in flight found as they began.
* `TwoFactor`: one account. A handler (`TotpVerify`, `PasskeyRemove`, ...) decides on the record it reads and
  sends a mutator; what the mutator carries from that record (the list of passkeys to keep, whether 2FA stays
  on) is an argument of the call; `Finish*` runs it on the record of that moment and normalises the result. The handlers
  read `known`, the map, and the mutators `record`: the two differ after a `CallRejected` that took effect, until the
  next answered call.
* `Invites`: `creating[c]` counts the registrations that await `storeCreate`, `writes` the copies of the
  whole table on their way to the record.
* `Ownership`: `queue` is the promise chain, `writing` the claim that awaits its record. `BeginClaim` is the
  critical part of `claimOwner`, `ClaimPersisted` and `ClaimFails` its two outcomes with the rollback.
* `Gateway` EXTENDS `Ownership`: a creation is looked up, forwarded, served by the host, claimed and answered,
  and may be abandoned by its client at any of these steps. Claims of the gateway are claims of the chain, so that
  every step of `Gateway` is a step of `Ownership` or leaves it alone (theorem `Refines`).
* `FilteredChannel` is the abstract specification of the frames of a client: they are in transit, in the order of sending,
  until each is delivered from the front or refused anywhere, once. The one exception: once, before anything is delivered,
  the frames in transit may be cut in two and the back put in front.
* `MuxProxy`: `uplink[c]` and `down[c]` are the two promise chains of a connection, `pending[c]` the frames that
  wait for its host side. A frame is one step unless a deployer's rule judges it, which may take its time. `Up` maps it
  to `FilteredChannel`: in transit is what waits for the host side followed by what is on the chain. The release of a
  hidden interaction is a request to the host of its own (`releasing`) which `ReleaseAnswered` or `ReleaseFails` ends.
* `Profiles`: one user. A profile is the key it is wrapped under. `calls[c]` is a handler with the step it is at
  and the copies it read; a change of the password goes through the record, the salt, the list, the rewrapped list
  and the new salt. A reset of the password changes the record and drops the keys after another await (`ResetPassword`,
  then `DropKeys` or `DropFails`); an update of a profile reads the list and then asks for the key (`RequireKek`).
* `Shares`: five records that handlers read and rewrite as wholes; `calls[c]` as in `Profiles`. A shared profile is
  the key it is sealed under. The first use in a process reads the master key, and draws and writes one if there is none.
  `Proceed` is the code between two awaits of a handler: the record it goes on to and what it carries there.
* `Routes`: `calls[c]` is a synchronisation with the step it is at and the list it read, or a removal. `Check` finds the
  registry there or not before anything is awaited; the user's own profiles are served first (`Ensure`), then those
  shared with him (`ListShared`), and `Settle` disposes of the rest. A start synchronises every user it finds in the map,
  which `init` may not have loaded yet (`Start`).

External code, modelled from its use: the credentials service executes the calls on one record one after the other,
each as a whole (the comment at 173 calls it a compare-and-set writer); nothing is assumed about calls on different
records. It may reject any call, also after the call took effect, and a call that was under way when the process ended
may or may not have reached the disk (`UserStore`, `TwoFactor`, `Ownership`, `Invites`, `Profiles`, `Shares`; in
`Login` a rejected call took no effect). The fs service may complete writes in any order, reject them, or leave a file
that does not parse (`Disorder`; `Accounts` leaves rejections out, see `FileWritten`). The host keeps its sessions
across a restart and serves every stream it is asked for. The WebAuthn library verifies in any order and may reject.

## 3. Runs

| run | instance | shows |
|---|---|---|
| `UserStore` | 2 names, 1 password, 3 calls in flight, up to 2 names changed by a rejected call, crashes | map and record agree; the refinement of `NameLifecycle`; an administrator remains unless a removal overlapped another call or a demotion took effect though it was rejected; a deletion that has begun completes, unless the process ends or the service rejects a call of it |
| `Sessions` | 2 users, 2 tokens, TTL 2, clock to 3, 2 writes in flight, disorderly fs | the refinement of `SessionLife`: whom a token resolves to, and how long; the file follows the table; expired entries are swept |
| `Accounts` | 2 users, 2 tokens, 2 calls and 1 write in flight, up to 1 name changed by a rejected call, restarts, disorderly fs | a deleted user is out unless a call on the record was in flight with the deletion; no session outlives the password it was opened under, except as section 5 says |
| `Gateway` | 3 users, 1 workspace, 1 session id, 2 requests, 1 waiting claim, crashes, failing writes, clients that leave | an answered creation is owned; nobody adopts what another created; an object nobody owns has a reason; the chain of claims moves on |
| `Invites` | 2 codes of 1 or 2 uses, 2 registrations with one code and 2 writes in flight | answered uses and revocations survive everything; how far a code can be overused |
| `TwoFactor` | 3 passkeys (limit 2), 2 secrets, 2 calls in flight, rejected calls | no lockout, limit of passkeys; without overlap or a rejected call that took effect also answers, confirmed secrets and the last factor |
| `Login` | 2 users, 1 address, 1 passkey, limits and clock of 1, 3 handles issued, 2 ceremonies or calls | handles are honoured once and kept until used, expired or evicted; no counter comes back that is older than what the requests read; logins are of the passkey's holder; the lock holds |
| `MuxProxy` | 1 connection of either of 2 users, 1 session, 2 streams, 2 frames each way, 1 pending interaction | who gets a frame; the refinement of `FilteredChannel`, and the order; no interaction stranded; only what was shown is answered |
| `MuxProxyLogout` | the same | violation: a connection goes on delivering after its login has ended |
| `Profiles` | 1 session token, 2 profiles, 2 passwords, 3 salts, 2 handlers, failing writes, restarts | profiles open under the current password; answered profiles are kept; keys end with their session |
| `Shares` | 1 user, 2 shares, 2 master keys, 2 handlers, failing writes, restarts | revoked is gone, granted is there; every shared profile opens |
| `Routes` | 2 profiles, one of them shared, 2 signatures, 3 handlers, failures, restarts | routes follow profiles; no route is out of reach |

Bounds. `MaxPending`, `MaxWrites`, `MaxQueue`, `MaxRegs` (registrations with one code), `MaxInFlight` and `Calls`
bound what is in flight when a handler starts. Two are enough for every hazard listed, which all take one actor
overtaking another. A third call, user or passkey is there where the code treats "another one" differently
(last administrator, limit of passkeys). The limits of the code (256 tickets, 512 interactions, pending challenges,
failures before the lock) are constants and small in the runs, so that they are reached. `MaxTime` stops the clock;
`MaxTime = 3` with `TTL = 2` lets a session expire, be prolonged, and be restored from a file that is older than its
last use. `Accounts` has no clock (`MaxTime = 0`): expiry is the subject of `Sessions`. With `MaxWrites = 1` two
writes are in flight (the bound is a guard of the handlers' first step, and an answer may add one more), which can
land in either order. `MaxIssued`, `MaxSalts`, `MaxSent` and `MaxHost` bound what is drawn or sent in a behaviour;
`MaxCreated` bounds accounts per code above what the largest code and all registrations in flight can reach. A
behaviour of `Shares` ends (`FirstKey`) when a master key is written over another: `SharesOpen` says nothing after
that, and the other properties do not depend on keys. Deadlock is not checked in `Login` and `MuxProxy`, where the
clock, the handles and the frames run out. `MaxUnsure` bounds the names whose record a rejected call changed and whose
map entry is behind; `TwoFactor` has one record, which may be ahead of the map by one such call (a guard of
`CallRejected`). `Room` is the guard that bounds requests and calls together in `Accounts` and `Profiles`. Symmetry is
used on names that are only compared, and not in the two runs with liveness properties.

History variables make the exact condition of a guarantee checkable; each is explained where it is declared. No
guard of the code reads one, except that a random value is never drawn twice (`drawn`, `totals`, `lastUse`,
`created` in `Shares`).

Fairness.

* `WF(FinishRetire \/ RejectRetire)`, `WF(Finish(n) \/ RejectCall(n))` (`Answered`): a credentials call is answered or
  rejected while the process lives. The code has no timeout around it, so nothing else could end the wait. Used by
  `DeletionCompletes`.
* `WF(Sweep)`: `setInterval(sweep, SESSION_SWEEP_MS)` fires until the plugin is disposed of. Used by
  `ExpiredAreSwept`; the run assumes nothing about file writes.

No fairness is assumed of users, of `Boot` or of `Crash`. That a rejected claim does not block those behind it is
stated without fairness (`ChainMoves`: a step of the chain is always enabled while there is a claim).

## 4. Proofs

All are for every value of the constants that satisfies the named assumptions, which TLC also evaluates. The
assumptions are that counts and limits are numbers, that `None` is none of the values it is told apart from, that a name
is there for the bootstrap administrator, and, in `Accounts`, that a token is not the digest of one. No theorem
has a hypothesis besides these. A proof module may hold several components that share no state.

* `AccountsProofs`, over `UserStore`. `IInv` of `UserStoreInv`: besides agreement of map and record for names without
  a tombstone and without a rejected call that changed the record (`unsure`; of those it says that a user of the map
  has a record, `KnownAreLive`) and besides the durability of the tombstones, it describes the queues. A `create`
  never stands behind a `delete` of the same name (`CreatesBeforeDeletes`), a `create` in flight for a retired name
  finds a record and fails (`NoRebirthInFlight`), deletes are of retired names (`DeletesAreOfRetired`), and a deletion
  in progress is of a record that exists or a name already retired (`RetireTargets`). Without these, agreement is not
  inductive: a creation that passed the check of the tombstones could be answered after the deletion. From it follow
  `TypeCorrect`, `MemoryCoherent`, and `Refinement`: each step maps to a step of `NameLifecycle` or to a stutter.
  `DeletionsAreKept` is the safety half of `DeletionCompletes`: a deletion that has begun waits for its tombstone or
  for its record until the record is gone; only the end of the process drops it, or the service's rejection of a call
  of that deletion (`BreaksOff`); and what is gone stays gone. `SomeAdminRemains` adds `Uncontested`: until a demotion
  or deletion is in flight with another call, map and record agree on every user of the map, the deletion of a record
  comes after its user left the map, and whoever is about to be demoted or deleted is not the only administrator, so
  that the restart finds one too.
* `AccountsProofs`, over `Accounts`. A step of `Accounts` is a step of `UserStore` or leaves it alone (`StoreStep`), so
  `IInv` carries over. `AccountsInv` adds `Tables`, that every session, in the table, in each copy in flight and in the
  file, is of a token that was issued and of a name that carries or carried a record, and `RetiredAreOut`: unless another
  call was in flight when the tombstone was written, a retired name is out of the map with nothing but its deletion in
  flight, or it is one that a crash brought back, with its record and no deletion begun. From it `DeletedIsOut`.
  `OldPasswordOut` needs `PasswordInv`: a session older than the password is in the table only while a request that
  changed it is unanswered, and when the process is down it is in the file only in the excepted case. What connects the
  two holds while the writes land in order (`orderly`): the last copy on its way to the file is the table, but for
  sessions of deleted names, which a restart does not restore. Once they did not, an old session may be in the file, and
  the exception for a process that ends then is needed.
* `ConnectionProofs`, over `Sessions`. `SessionsInv` says of every copy of the table that no entry expires later than the
  last use of its token allows (`CopiesAreFresh`), whatever the disorder. As long as the writes
  keep their order, the last copy has every session of the table with an expiry that is not later, and nothing else
  that a restart would restore (`Agrees`); that is `FileFollows`.
  `TokensRefine` maps each step to a step of `SessionLife`. A restart maps to one because besides `CopiesAreFresh` every
  copy has a token only for the user it was issued to (`CopiesAreIssued`): an old copy may bring an ended session back,
  but neither for somebody else nor past its time.
* `ProfilesProofs`. `IInv` of the profiles: until something disturbs it, a change of the password is alone, one
  handler at most may draw the first salt, and each handler works with the key the profiles are under; at every step
  of a change it says which of the two keys that is (`InStep`). A reset that has yet to drop the keys is alone
  (`ResetIsAlone`; `Course` is both), and what it leaves is a beginning with no key (`ResetAndRestart`).
  `AnsweredProfilesAreKept` is an invariant of its own, and so is `KeysEndWithTheirSession` once a handler's token is
  known to be live or excepted (`TokensKnown`).
* `GatewayProofs`, first over `Ownership`. `IInv` of `Ownership` ties the claim that awaits its write to the tables:
  its previous owner is nobody or the claimer, and if it is nobody then no claim was answered, so that the rollback
  cannot remove an answered one. From it `Durable` and `Final`.
* `GatewayProofs`, over `Gateway`. `Refines` shows that each step of the gateway is a step of `Ownership` or leaves
  its variables alone, so that `GatewayDurable` and `GatewayFinal` carry over. `AnsweredIsOwned` needs one more
  conjunct, `ClaimedIsAcked`: a request waits for its answer only after the claim was acknowledged for its user.
  `NotAdopted` and `OrphansExplained` need `AdoptionInv` of `Gateway`: every claim of a session on the chain has its
  request (`ChainServes`), of two users who ask for one id at once both are known to do so (`Askers`), memory and disk
  differ only in the claim that is being written (`DiskLags`), and a session without an owner is there for the user it
  was created for (`Explained`). The last is why an administrator cannot take a session whose claim is on its way.
* `InvitesProofs`. `IInv` of `Invites` orders the copies in flight: later ones count at least as much
  (`CopiesGrow`), by one more if they belong to a registration, and a code that is gone from a copy is gone
  from all later ones (`GoneIsGone`). From it `Counted` and `Revoked`. `OveruseBounded` adds `UsesAreCounted`: until
  the first restart the map counts every account created with a code, and the accounts and the
  registrations in flight together stay below the limit of the code plus `MaxRegs`.
* `TwoFactorProofs`. `NoLockout` needs only that `normalizeUserRecord` is on every path; `Limited` needs that the
  lists removals carry are bounded too (`ListsAreBounded`). `SerialAnswers` uses a second invariant, `SerialInv`:
  until two handlers overlap or a rejected call takes effect, map and record are the same (`MapAgrees`), at most one call is
  in flight, and a removal carries the list it replaces.
  `SecretConfirmed` and `LastStays` use `SerialInv` with a third, `DecisionInv`: until then, what is in flight was
  decided on the record as it still is. An `enable` in flight finds a secret that was verified, a `remove` in flight
  takes a passkey that is not the last factor.
* `LoginProofs`. `Once` from `Numbers`: every ticket and challenge has a number of its own that was drawn and has not
  been honoured. `TicketKept` from `Kept`: tickets issued are finitely many and have numbers that were drawn, so that
  a new one counts as later than every other. `Held` from `InFlightFits`: for a user without overlap the one request
  in flight was decided on the record as it still is. `NothingOlder` from its conjunct `SeenFits`: the counter that a
  ceremony or a call in flight tested or will write back is among those its user's requests have seen, overlap or not.
  `Lockout` is an action property that follows from the guards of the two logins and from what every other step leaves
  alone.
* `ConnectionProofs`, over `Routes`. `RoutesInv` adds to the types and `Owned` the condition `OnCourse`: until handlers
  overlap or fail, at most one is in progress, it works on the profiles as they are stored, and the private ones have their
  routes once they are registered (`PrivateInPlace`); and no synchronisation is past its check without a registry
  (`PastCheck`). From it `Followed`.
* `SharesProofs`. The three properties of `Shares` are proved together as `SharesIInv`, which adds three conjuncts.
  `Unsettled`: while a grant is in progress its share does not count as revoked, and while a revocation is, not as
  granted; without it the write of one would falsify the answer of the other. `Progress`: what a handler has written
  to one record is still there when it goes on to the next, unless that record was written over by a handler that
  had not read it; the answer at the end covers all the records. `KeysInHand`: until a master key is written over
  another, the key of a creation in progress, and those in the list it has read, are the stored one.
* `ConnectionProofs`, over `MuxProxy`. `MuxInv` is the five invariants of the module with what they need of each
  connection. `Ordered`: what has reached the host has smaller numbers than what waits for it, and that than what is
  on the chain. `Traced`: until a client uses a stream id twice, the endpoint recorded for a stream, the one the host
  serves and the one a frame comes from are the same, so that a frame is judged as what it is. `Seen`: whatever is
  recorded may be seen by the user, or its claim was taken back. `ReadyFirst`: no waterfall comes before `ready`, so
  the id that a hidden recipient is released with is known. `Phased`: an event is pending only where it was shown. A
  step of one connection changes nothing of another (`OtherSame`). Types are part of it: the head of the chain exists
  whenever a rule answers (`Judged`). `UplinkRefines` maps each step to one of `FilteredChannel`: a frame that is set
  aside is put from the front of the chain behind those that wait, which leaves the sequence in transit as it is; the
  host side opens with an empty chain, which leaves it too, or under an awaited rule, which turns it. That this
  happens once and before anything is delivered is `Unopened`.

Only model-checked:

* the liveness properties `DeletionCompletes` (its safety half is proved, `DeletionsAreKept`) and `ExpiredAreSwept`,
  and `ChainMoves`, which is about ENABLED;
* the promise of a header that `MuxProxyLogout` refutes (`NothingAfterLogout`).

The prover has no support for liveness under fairness or for ENABLED, none for induction over data (theorems
that take an operator as a parameter), and none for modules that reach a RECURSIVE operator; the modules here
use none.

## 5. Where the code departs from what it says

The run `MuxProxyLogout` expects a violation; its finding in `PROJECT.json` quotes the line.
The login of a proxied connection is resolved when it opens (`modern-gateway.ts` 430, 576) and not looked up again,
against the header of that file (line 19). Upgrades that are not of the mux are watched every second (434-441).

The others were met while modelling. For each of those in the modelled part, the property named holds only under a
condition that is exactly this case.

Users and sessions:

1. The administrators are counted before an await (2600, 2636); two who delete or demote each other at the same
   time leave none (README.md:126). So does one after a demotion that was rejected but took effect, since the map still
   counts the one demoted. `AdminRemainsUnlessContested`.
2. `load` ignores the tombstones (791); a crash between tombstone and deletion brings the user back
   (README.md:351-352). A rejected `deleteRecord` (834) leaves the tombstone with the record too, and the user's sessions,
   since `invalidateSessions` (2602) is not reached. `MemoryMatchesDisk` is for names without a tombstone;
   `DeletionCompletes` (`brokenOff`).
3. `mutate` sets the map after its await (822); a change that overlaps a deletion puts the user back into the map
   until the next restart (README.md:245). `DeletedUserIsOutUnlessRaced`.
4. `invalidateSessions` compares hashes with the plain token (970): changePassword ends its own caller's session
   too (README.md:126 says the other sessions), and the new profile key is put under that ended session.
5. A session ended by a logout, a deletion or a password change comes back if the process ends before the file
   is written: `persistSessions` is not awaited (904; README.md:245); so do the sessions that are older than the
   password if it ends between the record and the invalidation (2531, 2544). `FileFollowsTable`, `OldPasswordIsOut`
   (its history `outdated` is emptied in just this case).
6. A registration opens its session after `persistInvites` (2020, 2048) even if an administrator has reset its
   password in between. `OldPasswordIsOut` (`overtaken`).
7. The sliding expiry is not persisted (956): a restart drops a session that was used within the TTL but created
   before it (README.md:369 says unexpired sessions are restored).

Invitations and second factors:

8. Uses are compared before and counted after an await (2014, 2019; comment at 1997): overlapping registrations
   overuse a code. `OveruseIsBounded`.
9. `passkeyRemove` writes back the list it read (1961): of two overlapping removals one is undone, an overlapping
   addition is lost, an overlapping reset is undone (README.md:356). So it is after a call that was rejected but took
   effect, which the map does not show. `AnswersHoldUnlessDisturbed`.
10. `totpVerify` checks the secret its handler read and enables the one the record holds when the mutator runs
   (2729): overlapping a `totpGenerate` it enables a secret nobody verified (`webauthn.ts` 100), overlapping a
   `totpRemove` it enables no secret. `EnabledSecretIsConfirmed`.
11. The guard of `passkeyRemove` against removing the last factor reads the record of its handler (1957);
   overlapping `totpRemove` or `totpSet2fa` the only factor goes, and 2FA with it (README.md:168). `LastFactorStays`.
12. Two logins with one passkey that overlap both test the old counter and can move it back (1570), and an assertion with
   counter zero is let through and stored (`webauthn.ts` 609), after which any counter is; what the WebAuthn library
   refuses by itself is outside the sources. `NoOlderCounter`.

Profiles, shares and routes:

13. Keys outlive an expired session and one that a password change ended, against the comment of `profile-kek.ts` 109;
   a reset whose read of the user id fails (2623) keeps the keys of the old password. `KeysEndWithTheirSession`
   (`outlived`).
14. One profile under an older key makes every later rewrapping fail as a whole, and changePassword only logs it
   (2533-2543): from the first reset on, nothing stored before it can be opened, and what is stored under the
   current key stops opening at the next change. `ProfilesOpen` (`disturbed`).
15. Every write of a profile, a share or a grant replaces its record by the copy read before; of two that overlap
   one is lost, and a selection can undo a revocation. `AnsweredProfilesAreKept`, `RevokedIsGone`, `AnsweredIsThere`.
16. A revocation neither synchronises nor disposes of routes, against `docs/RBAC-MODEL-PROFILES.md` 63 and the comment
   of `user-routes.ts` 73; deleteUser does not synchronise them either. `Routes` has the calls the code makes.
17. When the service that serves the routes restarts, a second registry is made and the routes of the first are not
   disposed of.

18. The master key is drawn at first use, which awaits between the read of its record and the write
   (`model-profiles.ts` 203-212). Of two first uses that overlap the later write wins, and what was sealed under the
   other key cannot be opened. `SharesOpen` (`rekeyed`).

Gateway and mux proxy:

19. An object is created on the host and claimed afterwards; a client that leaves or a write that fails in between
   leaves it with the default owner. `OrphansAreExplained`, `NoAdoption`.
20. Frames that wait for the host side are reordered if a rule is being asked when it opens (`modern-gateway.ts`
   594). `UplinkInOrder` (`raced`).
21. An interaction over the limit of 512 of a connection is not shown and not given back, against the header's "an
   owner's interaction cannot be stranded" (`modern-gateway.ts` 20-21). The release of a hidden one may fail (505,
   514-516) and is not tried again; its recipient stays bound too. `NobodyStranded` (`overLimit`, `unreleased`).

Seen and not modelled: `verifyPassword` and the balance lookup of `profile-service.ts` read their throttles before
an await; `recordUsage` is not called by `index.ts`; a failed read of the audit log is taken for a missing file
(2804), so the next append replaces it. `ensureUid` writes the whole table of user ids back (`model-profiles.ts` 225):
of two first uses by two users that overlap one id is lost, and the profiles stored under it stay out of reach.
`uidOfName` says that it does not create an id (`profile-service.ts` 137), but `index.ts` 653 gives the service
`ensureUid`. `removeShared` is never called.

## 6. Plan

Every safety property of a passing run is a theorem. What is left, in this order:

1. The frames of the host as a second `FilteredChannel`, with a history of what a client got.
2. `Sessions` as a specification of its own that `Accounts` implements, so that `SessionsInv` carries over as `IInv` of
   the user table does (`Accounts` calls its operators, but its steps are not all steps of `SessionsNext`).

## 7. Not modelled

* The fallback without a credentials service (868-890): development only, no second copy of the state.
* Corrupt records and upgrades of old formats; `loadSessions` of an unreadable file is modelled, as an empty one.
* Display names, mail addresses, `totpIgnore`, user handles: fields no decision reads.
* Password, TOTP and WebAuthn verification, wording of answers, cookies and headers.
* In `Login`, a login with a TOTP code, which differs from the password login by one more check in the same step.
* In `Login`, the deletion of the account and a rejected call that took effect; in `TwoFactor` and `Profiles`, the deletion
  of the account (`UserStore` has it).
* In `Routes`, the service that serves the routes coming twice (17), and handlers that outlive the unloading of the plugin.
* In `Shares`, owners other than the one: no record of one owner is written by another, but for the received shares.
* In `Gateway`, rules that only read or refuse, and the projection of lists; in `MuxProxy`, size limits and malformed
  frames, which close the connection.
* The audit log: a chained read and write of a file no decision reads.

Share of the code. About half of the lines of the repository's implementation are `src/lib`, the compiled form of
`src/src`, and a ninth is the browser's client (`client.ts`, `i18n.ts`, `i18n-phrases.ts`); the login and registration
pages are HTML in strings. The map names the lines of the server's state changes and of the decisions in front of
them, and none of these.

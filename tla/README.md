# Formal model of vara-wallet

vara-wallet is a command line wallet for the Vara (Substrate) and Vara.eth
(Ethereum) networks. Each command is a short-lived Node process; what survives it
is a directory of files and SQLite databases (`~/.vara-wallet`) and whatever the
chains accepted. Its hard behaviour is therefore not in one process's loop but in
what several processes do to the same files and to the same account's nonces,
in what is lost when a process dies or a network call is answered late, and in
the timers that race with slow answers. This directory holds TLA+ modules of
those parts, TLC runs that check them and TLAPS proofs about them.

## Inventory

| component | state it keeps | operations | who it meets |
|---|---|---|---|
| mailbox claim (`commands/vara-eth-mailbox.ts`) | one invocation's locals | claim, `--replace`, `--resume`, automatic replacement | Ethereum RPC, journal, other claim processes |
| direct transaction journal (`services/vara-eth/direct-transactions.ts`) | table of sent hashes: status, links, chain id | insert, get, mark receipt / replaced / failed | every claim process, through SQLite |
| injected promise store (`services/vara-eth/promises.ts`) | table of awaited messages, clean-up stamp | insert, mark, list, clean up once a day | message commands, several processes |
| Vara.eth actions (`commands/vara-eth-actions.ts` …) | locals | send and wait, resume, top up, upload, deploy, Sails call | validators, Ethereum, promise store |
| wallet vault (`services/wallet-store.ts`, `shared/keyring-eth/*`, `utils/secure-file.ts`) | one file per key, a passphrase file | create, import, export, list, unlock | concurrent commands |
| configuration (`services/config.ts`, `commands/init.ts`, `config-cmd.ts`) | `config.json` | read, read-modify-write | concurrent commands |
| Vara node connection (`services/api.ts`) | memoised promise, instance, shutdown flag | connect with timeout and retry, recover from a bad metadata cache, disconnect | node, metadata cache, signal handlers |
| Vara.eth connection (`services/vara-eth/api.ts`, `vara-eth-session.ts`) | three cached handles | connect, time out, disconnect, session requests | validator socket, Ethereum RPC |
| light client (`services/light-client.ts`) | request and subscription maps | send, subscribe, disconnect | smoldot |
| subscriptions (`commands/subscribe/*`, `watch.ts`, `wait.ts`) | current unsubscribe function, debounce stamp, event counter | subscribe, resubscribe, count, exit | node, event store, signals |
| event store (`services/event-store.ts`) | table of events | insert once, query, prune | subscriptions |
| caches (`metadata-cache.ts`, `idl-cache.ts`) | files by key | read if valid, write if missing, prune, clear | concurrent commands |
| IDL resolution (`services/sails.ts` …) | none | cascade over sources of an interface | caches, chain |
| transaction executor (`services/tx-executor.ts`) | one timer | sign, send, wait for inclusion | node |
| DEX and tokens (`commands/dex.ts`, `vft.ts`) | none | reset and approve, swap, add and remove liquidity | contracts, concurrent commands |
| conversions, errors, output | none | pure functions | all |

The hard behaviours, line by line, are the `hazards` of `PROJECT.json`. What makes
the components correct:

* claim and journal: a row never reports an outcome its transaction did not have;
  a claim and its replacement are the same claim and never both execute; a
  replacement pays more; a settled row stays settled; every command ends;
* promise store: clean-up removes only what is settled and old; a row settles as
  the validators answered; what a resume reports of a message is true of it;
* vault and configuration: a key, a passphrase or a setting that a command reported
  as saved is not lost to another command;
* connections: attempts never overlap, every one is released and ends;
* trading: approvals suffice, a trade honours its quote, a preview sends nothing;
* transactions: a command reports of its transaction only what is so;
* subscriptions: no stream twice, `--count` is exact, a captured event can be read;
* caches: an entry never costs a command what the chain could give it; what was just
  written or imported survives.

## Modules

| module | what it is |
|---|---|
| `FeePolicy` | the fee arithmetic of a claim as pure operators: `applyClaimFees`, `replacementBump`, `feeHeadroom` |
| `EthereumNode` | external: the chain and mempool as viem's client shows them |
| `DirectTransactions` | the SQLite journal: each UPDATE or INSERT as an operator on the table |
| `ClaimJournal` | abstract: what the journal promises (the life cycle of a row) |
| `MailboxClaim` | composes the three: claim processes, one action per await or statement |
| `MCMailboxClaim` | the small instance TLC checks |
| `InjectedPromises` | the promise store with the processes that send and resume injected messages |
| `MCInjectedPromises` | its small instance |
| `WalletVault` | keys, passphrase and settings files under the commands of several processes |
| `MCWalletVault` | its small instance |
| `Amounts` | slippage limits, the amounts a deposit takes, the deadline |
| `Trading` | `dex`, `vft` and `call` commands of one account over a pair and its tokens (external) |
| `MetadataCache` | the directory of cached runtime metadata as a set of files with their times |
| `NodeCommand` | a process that talks to a Vara node: connection, cache, checks, one extrinsic, exit |
| `EventStore` | the table of captured events: inserts, prunes and queries as operators |
| `Subscription` | one streaming command from connecting to its exit, over the event store |
| `IdlCache` | cached IDLs by code id: reads, writes, evictions, imports |
| `IdlResolution` | loads of an IDL by several processes beside the `idl` commands |
| `EthexeConnection` | the connection of `getEthexeApi` as operators on a record |
| `VaraEthCommand` | every Vara.eth command as steps over that connection |
| `MCTrading`, `MCNodeCommand`, `MCSubscription`, `MCIdlResolution`, `MCVaraEthCommand` | their small instances |
| `MailboxClaim_proofs` (with those about `FeePolicy`), `InjectedPromises_proofs`, `WalletVault_proofs`, `Trading_proofs`, `NodeCommand_proofs`, `Subscription_proofs`, `IdlResolution_proofs`, `VaraEthCommand_proofs` | theorems |

### How the claim model corresponds to the code

`inv[p]` holds the locals of process `p` and where it stands: `prepare`
(`prepareClaim`), `send` (before `tx.send()` answers), `insert`
(`insertDirectTransaction`), `link` (`markDirectTransactionReplaced`), `wait`
(`waitForClaimReceipt`), `receipt` and `count` (the two RPC calls of
`resumeClaim`). Every RPC call and every SQLite statement is a step of its own, so
that steps of other processes, of the node and of the miner come between any two.
A process may stop in any state for good: in `Spec` no action is forced, which is
what a crash looks like to the others.

`prepareClaim` is one step although it awaits several answers: what it reads
from others are the nonce and a quote, and the quote is unconstrained. The
journal is read where the code reads it: `requireStoredClaim` at the start of the
command, the chain id again in `prepareClaim` (a row's chain id never changes).

A transaction stands for its own hash: two transactions with equal content have
equal hashes. A row therefore needs to say only what changes: status, links,
chain id known or not, and the reason of a failure. Gas limits, calldata and
receipt blocks are left out: no property depends on them.

`Write` models that the store swallows every error: an update takes effect or is
lost, at most `MaxLost` times.

`EthereumNode` is taken from how the code uses viem: the pool holds one
transaction per nonce, a replacement must raise both caps by a tenth, any
broadcast transaction may be mined in nonce order, the pool may evict. Two facts
of viem matter: `waitForTransactionReceipt` follows replacements and answers with
the receipt of whatever used the nonce; `getTransactionReceipt` does not.
Reorganisations are not modelled: the code has no handling for them.

### How the promise model corresponds to the code

`cmd[p]` is one CLI process of `message send --via injected --wait reply` or
`message send --resume`. `initPromiseStore` is `Open` (which reads the stamp of the
last clean-up), then, when a clean-up is due, `Delete` and `Stamp`: the three
statements of `maybeRunCleanup` are separate steps because no transaction joins
them. Whatever throws there leaves the store closed (`OpenFails`), and `purpose`
says what the process does then: `insertPending` tries to open the store once
more, and so do `markResolved`, `markFailed` and `getById`. `Send` and `Answered`
are the two ends of `sendAndWait`; only after it does the code insert (`Insert`)
and settle (`Mark`) the row. A row is its status and its `submitted_at_ts`, which is
the time of the insert, not of the sending. An error of `sendAndWait` that does
not name the message is not recorded (`SendFails`); one that does is recorded as
failed, even if the message was executed or will be: the validators (`Execute`,
external) are not told. `Die` ends a process between any two steps: what it had sent may
still be executed, what it had not written is not written.

### How the vault model corresponds to the code

A wallet file is absent, empty or whole; the key in it is named by the process that
made it. `writeUserFile` truncates and fills: `WalletOpen` / `WalletWrite`,
`PassOpen` / `PassWrite` and `ConfigOpen` / `ConfigWrite`, with other processes
and `Crash` in between. `Secret` is `resolveNewWalletPassphrase` up to
`ensurePassphraseFile`, which reads the file again (`Ensure`). `Exists` is the
first check of the Ethereum commands, `Save` the check within `saveWallet` and
`saveEthexeWallet`; key generation and encryption lie before `Save`. `ReadConfig`
is where `updateConfig`, or the spread in `init`, reads. `Account`, `Load` and
`Unlock` open a wallet: the default accounts, the file, then the passphrase in the
order of the chain. `sanitizeName` maps names to files for native wallets, while
the Ethereum store refuses names outside `EthNames`.

`raced` is a history variable: the files in which two commands met between check and
write, and `config.json` once a process died in it. The code has no lock, so its
promises hold with these files excepted; that they hold otherwise is the claim.

### How the trading model corresponds to the code

`cmd[p]` is one process of `dex swap` (both modes), `dex add-liquidity`,
`dex remove-liquidity`, a `vft` transaction or `call`. `Begin` is the validation of
the slippage and call's preview, `ReadDeadline` and `Quote` the two queries in the order each
command makes them, the second after the amounts were resolved and checked (`Asked` puts those
of a deposit in the pair's order), `CheckAllowance`, then `Submit` and `Reply` the reset and the approval of
`ensureApproval`, `ValidateVoucher` the voucher check with its refusals (one whose expiry
cannot be read passes), and the last `Submit` and `Reply`
the command's own transaction. `Submit` is `calculateGas`: it runs the message on the
state of the moment and ends the command with its error; `--estimate` stops there and
`--gas-limit` skips it. `Reply` executes the message in the state others have left;
`AnswerLost` executes it or not and loses the answer. The programs are external: a
constant product pair without fee, and tokens of which some refuse an approval over a
non-zero allowance, the case for which the code resets first. `disturbed` is a history
variable: tokens whose allowance another command changed since this one read it.
Others hold part of the pool (`Funded`), so that reserves and supply stay positive and
quotes divide by no zero, as of any pair that was ever opened.

### How the node model corresponds to the code

`proc[p]` is one CLI process. `Handshake` and `Create` are the two awaits of `connectOnce`,
each under its timer; `Fail` is their failure with `retryConnect`'s decision, `Backoff`
its sleep, `CreateFailsOnMetadata` the recovery in `getApi`. `SaveMetadata`,
`WriteMetadata`, `PruneList` and `PruneUnlink` are the file operations of
`saveMetadataIfNew` and `pruneCache`. `Refuse` is what `faucet`, `program upload` and
`program deploy` refuse before they connect (a mainnet endpoint, a missing file). `Checks` lists
what each command asks before it submits, its account first; `SignAndSend` starts the 60 s timer of `executeTx`, and the status callback,
the error and the timer race. `Interrupt` is the signal handler, `Exit` the end of
`main` or of the drained output: between the two the process goes on. The metadata of a
runtime is its spec version; content is good, corrupt or torn. A cached file has a name, a
content and a modification time; `clock` is the time of the last write. Only the order of
times matters, and no two files have the same one. The faucet's claim is
an HTTP request in the place of the extrinsic.

### How the subscription model corresponds to the code

A subscription is its place in `subs`, the sequence of what `subscribeFn` handed out;
`given` is the handle that the exit path closes, `current` the one `withReconnect` closes first. `loops[s][k]` is the loop
of the k-th `connected` event of stream `s`: loops overlap because the handler awaits.
`Callback` records what each command does with an event: filter, store under a type
and an id, count. `after` counts the events seen since `keepAlive` returned: before that
nothing notices the limit. Time is the debounce window, the retries inside it and the age of
rows; `PruneElsewhere` is `events prune` of another process.

### How the IDL model corresponds to the code

An IDL is the parsers that accept it and the methods it has. `Load`, `CodeId`,
`ReadCache`, `Evict`, `ExtractFromChain`, `CacheSection`, `Bundled` and `Use` are the steps of
`resolveIdl` and of `loadVaraEthSails`; a load is standard (`vft`, `dex`: a validator and
bundled IDLs), generic, watch, eth or session. `Import` and `Seed` are `idl import`,
`Remove` and `ClearOne` the two ways of removing. `fault` and `hit` are history: an
RPC or file failure of this load, and a session's reuse of its first IDL. A code id is the
hash of the code, so that an entry cached from the chain is what that code embeds
(`IdlResolutionAssumption`); imported entries are anything.

### How the Vara.eth command model corresponds to the code

`Plan` translates each command into the steps it takes, from its options: `connect`
starts `getEthexeApi`, `api` awaits it, `signer`, `read`, `send`, `receipt` and so on are
one await each. Each step has an action that passes and one that fails. `conn` is the
connection of `EthexeConnection`: the socket and the bootstrap end in any order, the timer
at any time, and `Finally` is the `finally` of the race. A lost answer after a broadcast
is a failing step whose transaction is in the pool. `init` and `address` follow
`outputDeploymentWithOptionalInit`, which prints a recovery before it throws.

### What the runs show

* `mailbox_claim` - two processes, two networks, one lost write, an earlier
  pending claim, requests with and without fee overrides and automatic
  replacement. Two processes are enough for every race of the journal, since
  each row update involves one row and each race is between two commands; the
  proofs below remove the bound. Fees are chosen at the edge where rounding
  decides (a tip of 1 wei).
  - `SettledTruth` - a row says confirmed or reverted only if its nonce was used,
    on its chain, with that result;
  - `LinkedSameClaim` - linked rows are the same claim, sender, chain and nonce;
  - `NoDoubleClaim` - a claim and its replacement are never both mined;
  - `ReplacementOutbids` - a linked replacement pays more, in the same fee mode;
  - `BumpClearsNode` - a replacement priced without overrides passes the node's
    ten percent rule if the claim it replaces paid a tip. The proviso is needed:
    12.5 percent of a zero tip is zero, and a node that demands growth of
    both caps refuses such a replacement;
  - `JournalLifecycle` - the run implements `ClaimJournal!JSpec`: rows start
    pending, are written off only while pending, settle only as decided, and a
    settled row never changes, although the receipt update has no guard.
* `mailbox_claim_live` - `CommandEnds` under weak fairness of each process, with a
  node that quotes no EIP-1559 fees and a legacy claim without chain id.
* `mailbox_claim_foreign` (violated) - `ConfirmedMeansAccepted`, the README's
  reading of `confirmed`: when another tool used the awaited nonce, the row is
  settled with the other transaction's receipt.
* `mailbox_claim_network` (violated) - `WrittenOffNonceUsed`, the docs' reading of
  `CLAIM_REPLACED_OR_MINED`: `--resume` on another network writes off a claim that
  is still pending on its own.

* `injected_promises` - two processes over a store that holds one row of an
  earlier message in any status, with or without a stamp. The age is 2, the
  interval 1 and the clock runs from 2 to 5, so that the earlier row is old at
  once, rows written in the run become old within it, and up to three clean-ups
  fall due.
  - `OutcomeKept` - what a send reported is what any process resumes until the
    row is older than the limit, however clean-ups interleave; it is not enough
    that the DELETE has the right WHERE clause, since its cutoff is computed from
    a clock read earlier;
  - `ResolvedTruth` - a resolved row is about a message that was executed;
  - `ResumeTruth` - an outcome that a resume reports is the one the sender reported, whoever
    died, lost a write or cleaned up in between, and a reply is that of an executed message.

  The header of `promises.ts` promises more, that an in-flight promise can be resumed after
  process death. The row is inserted only after `sendAndWait` has answered, so that a process
  that dies while it waits leaves nothing to resume: a finding, and no property.

* `injected_promises_cleanup` (violated) - `CleanupOncePerInterval`, the promise of
  the comment on `maybeRunCleanup`: two processes that open the store together
  both clean up.

* `wallet_vault` - three processes, each any of 24 commands: two names that share a
  native file and of which one is invalid for Ethereum, a passphrase from the flag,
  the environment, the file or nowhere, an own `.passphrase` at the start or none.
  Three are needed: one that saves, one that disturbs, one that opens.
  - `WalletKept` - what a command reported as saved stays, key and passphrase;
  - `PassphraseKept` - the passphrase a wallet was encrypted with stays in the file;
  - `FileWalletOpens` - a wallet of the file's passphrase opens: a native one whatever
    the environment, an Ethereum one where no flag, variable or own file precedes;
  - `SettingsKept` - a setting survives every later update of another one.

* `trading` - two commands out of twenty-one over a pool of 6 and 8, one swap of another trader,
  a clock of 2 and a voucher that expires at 1; numbers are small enough that rounding
  decides, and two commands are what an allowance race needs.
  - `QuoteHonoured` - what a swap or deposit took and gave is within the quote and the
    slippage, in the direction asked for, whatever traded in between;
  - `QuoteStands` - the limits are refused only if the pool moved since the quote;
  - `ApprovalsSuffice` - a command that approves by itself is refused for an
    allowance only if another one changed it after it was read;
  - `PreviewsSendNothing` - over all combinations of `--dry-run` and `--estimate`.
* `node_command` - a command of every kind beside a query or `metadata clear`, an empty,
  good, corrupt or torn cache, one runtime upgrade, an interrupt anywhere.
  - `OneSocket`, `NoRetryAfterInterrupt` - attempts never overlap, and no retry follows a
    signal;
  - `CacheRecovers` - poisoned metadata never fails a command;
  - `NewestKept` - pruning spares the entry written last, unless a file of that name had been
    listed before it was written: eviction goes by name, so what a third process wrote
    anew under a name that is to go goes with it. The proof demanded the exception, two
    processes do not meet it;
  - `ResultTruth` - what a command reports of its extrinsic is so;
  - `CommandEnds` - whatever the node does.
* `subscription` - every command of `subscribe`, `watch` and `wait`, with no, one or two lost
  connections (two are what overlapping loops need), up to three events and prunes.
  - `CountKept`, `SubscriptionsClosed`, `CapturedReadable`, `StreamResumes` - with the
    exceptions that the findings describe, each stated in the property.
* `idl_resolution` - a load of every kind, a second that may evict, and an `idl`
  command, over empty, corrupt and imported caches and code with a v1, a v2, no or a
  malformed section.
  - `NeverBlocked` - what the cache holds never costs a load the IDL the chain has;
  - `ImportKept` - no load removes an import that serves it.
* `vara_eth_command` - every Vara.eth command, and `call` with all 64 combinations of its
  options; one connection is all a process opens. There is no bound: commands are finite.
  - `CallPlanned` - each step that uses the validator's api has it, the paths documented as
    Ethereum-only open no socket, previews and reads send nothing;
  - `SocketReleased` - a connection that was given up leaves no socket, except one that opens
    after the other half had failed (a finding);
  - `ReportTruth` - the receipt status printed is the transaction's, errors before the
    broadcast mean there was none, the address of a deployed program is reported however its
    init ends. Of a recovery it says only that it was mined, of a successful init only
    that the program answered it: the code looks no further (two findings).

### Fairness

Safety runs need none. In `MailboxClaim`, only `Progress(p)` of each process is weakly fair. The code justifies it: RPC
calls answer or time out in the HTTP client, `--timeout-ms` bounds the wait for a
receipt, SQLite runs synchronously and waits at most its busy
timeout. Nothing is assumed of
the miner, the node, other tools or failures; in particular nothing needs ever to
be mined for a command to end.

In `NodeCommand` the steps of a process, a failing connection attempt included, are weakly
fair: 10 s timers end each step of an attempt, the provider times out a request, 60 s
end the wait for inclusion. `Settle`, `Upgrade` and `Interrupt` are not. In `Subscription` the timers
(debounce, retry) and the answers to a subscription request are, losing and
regaining the connection and events are not: `StreamResumes` speaks of a connection
that stays.

## Proofs

`MailboxClaim_proofs` first proves the arithmetic for all naturals: the rounded-up bump
exceeds a positive value and grows it by a tenth (`BumpGrows`), hence any fee that
`applyClaimFees` accepts for a replacement outbids (`ReplacementFeeOutbids`), and
clears the node without overrides (`ReplacementFeeClearsNode`).

It then proves every property of the run `mailbox_claim` for every
value of the constants: any number of processes, accounts, chains, calls, quotes,
requests, lost writes and foreign transactions. Assumptions: those stated in
the modules (`NodeAssumption`, `StoreAssumption`, `ClaimAssumption`): the bounds are
naturals, the sets of options are well-typed, and claims that were journaled
earlier have a tip no higher than their cap, as a node enforces.

None of the properties is inductive. `IInv` adds:

* `TypeInv` - types, with rows only of hashes that were sent;
* `JobInv` - what a process holds agrees with the chain and the journal:
  the claim it replaces was sent, is the same claim (`Agrees`), and the fee it is
  about to send outbids it; the transaction it holds was sent and outbids too;
* `ChainInv` - what was mined was sent, with its own nonce's position;
* `LinksOK` - links point to sent transactions of the same slot and call that
  outbid in the right direction;
* `SettledTruth` itself.

The heart is that the chain only grows (`ChainStep`): an outcome once decided
never changes, so that an answer read in one step is still true when a later
step writes it. `NoDoubleClaim` then follows from `ChainInv`: one nonce has one
outcome, made by one transaction. `JournalImplementsLifecycle` shows that every
step maps to `Decide`, `Record`, `WriteOff`, `Settle` or a stutter of `ClaimJournal`.

`InjectedPromises_proofs` proves the invariants of the run `injected_promises` for any
number of processes and any age, interval and clock. `IInv` adds `JobOK` to them:
a process that resumes has sent nothing, one that journals has an outcome,
between the two statements its row is pending and nobody else changes it, and
afterwards the row says what was reported until it is old. The clean-up is the
only step of another process that touches a row (`OthersKeep`, `CleanupKeeps`):
the time it started from is never in the future, so that what it deletes is old.
`ResumesAreTrue` needs `RowTruth` besides: a settled row says what its process, which is
done, reported. It holds of every row, lost writes and deaths included, because settling
its row is the last thing a process does.

`WalletVault_proofs` proves every property of the run `wallet_vault`, for any number of
commands, names, secrets and settings. Assumed (`VaultAssumption`) is what the command line
admits: only `open` may go without a name, `init` makes a plain native wallet, and the
like. `IInv` says who is alone with what: between looking for a wallet file and filling it a
command either is the only one there or the file is in `raced` (`WalletInv`); the passphrase
file is never opened for writing once a passphrase was taken from it (`PassInv`); a setting
that was set is in the file or in the copy of every command that is about to rewrite it
(`ConfigInv`). `StepInv` says which command is at which step, so that a step of
one kind cannot undo what another saved.

`Trading_proofs` proves all five properties of the run `trading` for any pool, amounts,
slippage, number of commands and foreign trades. Its first part is arithmetic over the naturals:
the limits round in the user's favour, a quote is below the reserve it is paid from, a
deposit takes no more than was offered. `IInv` holds that
the ledger stays solvent and that each command's message, approvals and minimum are those of its quote
(`BargainInv`); `NeedInv` and `ApproveInv` carry the allowance from the query through the
reset and the approval to the trade: until another command disturbs it, it covers what
the message takes. `QuotesHonoured` and `QuotesStand` are properties of a step: they
follow from the invariant and from what the programs check when the message runs.

`NodeCommand_proofs` proves, for any number of processes, caches and upgrades, all but
liveness of the run `node_command`. `IInv` counts the provider by step (`SocketInv`), says
that after the recovery nothing read from the cache is in use (`RecoverInv`), when there is an
extrinsic and a result (`TxInv`), and that what is listed for eviction was written before the
last write (`ListedInv`), which is what spares the newest entry.

`Subscription_proofs` proves the four invariants of the run `subscription` for any command
lines, number of lost connections, events, prunes and time. Assumed
(`SubscriptionConstants`) is that limits and ages are naturals and that a job is one of the
commands. `IInv` adds to them:

* `OneHeld`, for a stream of which no two loops have awaited `subscribeFn` at once: what is
  open, or may be brought back with the connection, is at most the current handle, and
  nothing while a loop asks for a new one. It has to speak of the lost subscriptions too,
  because the library may restore them in the step in which a handler runs;
* `PhaseInv` - nothing is counted in `after` before `keepAlive`, and nothing is down that was
  never lost; `EndInv` - what the exit path closed stays closed, though late
  notifications and the `.then` of `wait` still come;
* `DataInv` - rows are numbered as they were printed, so that a query with room for all
  events leaves none out, and a row that is missing is older than the latest cutoff.

`IdlResolution_proofs` proves `NeverBlocked` and `ImportKept` for any number of
processes, codes, methods and bundled IDLs. `IInv` says what a load knows at each step (`Holds`):
whatever it has passed over does not serve it, whatever it is about to write is the
code's own IDL; and an entry from the chain is that IDL (`CacheInv`), although other processes import,
remove and clear between any two steps.

`VaraEthCommand_proofs` proves the three invariants of the run `vara_eth_command` for any set of
command lines. Each plan is a sequence whose steps come in phases (`Ordered`: prepare, send, await,
read the program's id, init, print); the lemma `PlanFits` of each command is by cases over its
options, and the invariant is about the rest of the plan, which is ordered as well:
nothing is prepared or sent twice, what a report needs was known before it, and a
preview's rest sends nothing. `ConnFits` settles the two halves and the timer of the
connection.

Only model-checked: `CommandEnds` and `StreamResumes` (liveness is out of TLAPS's reach
here) and the three violations.

## Plan

Done, with proofs: claim, journal and fees; promise store; vault and configuration;
trading; node commands with the metadata cache; subscriptions with the event store; IDL
resolution; Vara.eth commands with their connection.

Left, in order:

1. `LightClient`: the smoldot provider's request map, a notification that overtakes the
   registration of its subscription, disconnecting with requests in flight.
2. Pure functions against reference definitions: chain and network selection, units.

## Not modelled

* The light client, which `--light` alone uses: planned.
* Chain and network selection: a choice among flags, environment and settings before anything
  else happens.
* Conversion of values (`hex-bytes.ts`, `decode-sails-result.ts`, events): structural recursion
  over Sails types without state, covered by unit tests; texts of errors, output, timing.
* The list of validator endpoints (`vara-eth:validators`), an update of the settings like those in
  `WalletVault`.
* Cryptography (key derivation, encryption, signatures), parsing and formatting of
  values and errors, wording of output, the Sails parser, the chains' internals
  beyond `EthereumNode`, chain reorganisations.

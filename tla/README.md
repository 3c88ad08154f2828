# TLA+ verification of the EOS application

The repository is the EOS application of a hardware wallet: a single-threaded
C program that receives commands from a host, shows a transaction to its user
action by action, and signs it. This directory models it in TLA+, checks it
with TLC and proves its main promises with TLAPS. Source paths below are
relative to the repository (`src/main.c`, `doc/eosapp.asc`); `PROJECT.json`
maps every definition to its lines.

## 1. Inventory

| Component | Source | State | Operations |
|---|---|---|---|
| Stream parser | `src/eos_stream.c/.h` | `txProcessingContext_t`: field state, flags `actionReady`, `confirmProcessing`, counters of actions and authorisations, position in a TLV header and in a field, names, size and data buffers, two hash contexts; `txProcessingContent_t` | `initTxContext`, `parseTx`, the loop `processTxInternal`, one `process*` function per kind of field |
| Decoders and formatters | `src/eos_utils.c`, `src/eos_types.c` | none | `tlvTryDecode`, `unpack_variant32`, `name_to_string`; `ui64toa`, `i64toa`, `asset_to_string`, `b58enc`, `compressed_public_key_to_wif` |
| Known actions | `src/eos_stream.c:71-288, 356-381` | `argumentCount` | `isKnownAction`, `process<Action>` |
| Command loop | `src/main.c` | `tmpCtx` (a union of public key and path), reply flags | `app_main`, `handleApdu`, `handleGetPublicKey`, `handleGetAppConfiguration`, `handleSign`, `sign_hash_and_set_result`, `user_action_*` callbacks |
| Setting | `src/config.c` | `N_storage`, in flash | `config_init`, `is_data_allowed`, `toogle_data_allowed` |
| Screens | `src/ui_bagl.c` (buttons), `src/ui_nbgl.c` (touch) | current flow, page labels | `ui_idle`, `ui_display_*` |
| Argument display | `printArgument`, `src/eos_parse*.c` | `txContent.arg` | one `parse*` function per action, one per kind of field |
| Signature | `src/main.c:204-276`, `src/eos_utils.c` | RFC 6979 state | `rng_rfc6979`, `ecdsa_der_to_sig`, `check_canonical` |
| SDK, harnesses, tests | outside `src/`, `desktop/`, `fuzz/`, `tests/` | | |

How they interact. `app_main` hands each command to a handler. `handleSign`
initialises the context on the first block of a transaction and calls
`parseTx` with the bytes of every block. The parser returns a verdict:
`STREAM_PROCESSING` (send more), `STREAM_CONFIRM_PROCESSING` (several actions
follow), `STREAM_ACTION_READY` (review one), `STREAM_FINISHED` (sign), or
`STREAM_FAULT`. For a review the handler leaves the command unanswered; the
callback of the screen later calls `parseTx(NULL, 0)`, which goes on with the
unread bytes of the same block, and answers. The setting decides whether
actions the parser does not know may be signed by their checksum.

What is hard. Nothing runs in parallel, but one command is handled in pieces:
by the handler, by callbacks of the screen, again by the parser, with its
state in static storage that other commands share. A stream may be cut at any
byte. The context survives refusals, faults and signatures. Counters come
from the stream and wrap. The program may stop at any point. `PROJECT.json`
lists these hazards at their lines.

## 2. Modules

| Module | Models | Depends on |
|---|---|---|
| `EosTypes` | the two enumerations of `eos_stream.h` | |
| `EosReview` | the parser as its callers see it: fields, flags, counters, verdicts; the bytes are free choices | `EosTypes` |
| `EosAuthorizations` | the authorizations of an action, counted beside `EosReview` by a history variable | `EosReview` |
| `EosApp` | `main.c`, `config.c` and the screens around `EosReview`, with user and host | `EosReview` |
| `EosEncoding` | TLV lengths, variable-length integers, names | |
| `EosActions` | known actions, argument counts, their assertions | `EosEncoding` |
| `EosStream` | the parser byte by byte, with the bytes it hashes and shows; implements `EosReview` | `EosTypes`, `EosActions`, `EosReview` |
| `EosBytewise` | what a stream is to lead to however it is cut: a reader given its bytes one at a time, a function of the bytes alone | `EosStream` |
| `EosArguments` | `eos_parse*.c`: the page that each argument of each action is printed to, as a part of the data | `EosActions` |
| `EosDisplay` | what a review reads: the context as the parser leaves it for each action of a transaction, and `printArgument` | `EosArguments` |
| `EosFlow` | `display_next_state` of `ui_bagl.c`: the way through the arguments of one action, for any number of them | |
| `EosBagl` | the reviews on a device with buttons; implements `EosFlow` | `EosDisplay`, `EosFlow` |
| `EosNbgl` | the reviews on a touch screen: pairs, pages, and the buffers the pairs are kept in | `EosDisplay` |
| `EosSign` | the loop of `sign_hash_and_set_result` with `rng_rfc6979`, `ecdsa_der_to_sig`, `check_canonical` | |
| `EosBase58` | `b58enc` digit by digit, and the size of the address | |
| `EosFormat` | numbers and assets as text | |
| `EosSamples` | the actions that the runs send and review, with what their sender means | `EosArguments` |
| `MCEosApp`, `MCEosAnyHost`, `MCEosStream`, `MCEosBagl`, `MCEosNbgl`, `MCEosSign`, `MCEosText` | instances for TLC | |
| `EosLemmas` | lemmas about the decoders, the argument counts and numbers that several proofs share | `EosActions` |
| `EosReviewProofs`, `EosAppProofs`, `EosStreamProofs`, `EosBaglProofs`, `EosNbglProofs`, `EosSignProofs`, `EosTextProofs` | theorems | the module they are about, `EosLemmas`; `EosAppProofs` also `EosAuthorizations` |

Two specifications are abstract. `EosStream` implements `EosReview`, checked by
TLC and proved (`ImplementsReview`: a field is complete when the last chunk of
it is taken, all other iterations are stuttering, `known` is defined between
the action's name and its data), and `EosApp` is proved to implement it
(`AppImplementsReview`); each of its parsing steps contains one step of
`EosReview`. `EosBagl` implements `EosFlow` (`ImplementsFlow`), also checked
and proved; the theorems about `EosFlow` hold for any number of arguments.

The byte stream is cut at the place where the parser hands out an action:
`EosStream` checks that `actionDataBuffer` and `argumentCount` are right then
(`ReviewShowsTransaction`), and `EosDisplay` starts from there. Both use
`EosSamples`, so that the pages of an action belong to the bytes that
`EosStream` has parsed.

### EosReview

`status` is `RUNNING` inside `processTxInternal`, otherwise the last verdict;
`ASSERT` after a failed `LEDGER_ASSERT`, which ends the program. `returned`
and `confirmed` are history variables for what was handed out. One action per
kind of field (`ActionListSizeDone`, `AuthorizationPermissionDone`,
`ActionDataDone`, ...) and per verdict, in the order in which the loop tests
them. `ParseTx` may follow any verdict: it is for the callers to decide.

### EosApp

`loop` says where `app_main` is: waiting in `io_exchange`, in `handleSign`, or
in the parser on behalf of `handleSign` (`parse`) or of a callback
(`parseUser`). A block is the number of fields it completes. Each verdict is
one step together with what the caller does with it, reply and screen
included. `tmpCtx` records which member of the union was written last: reading
it through the other one yields `Garbage`. `Launch` is `app_main` up to its
loop, `Stop` a power cut, a failed assertion of the SDK or the user's wish;
both lose everything but the flash. `Ui` is the user interface of the build,
one of `Builds`, and never changes.
`HostConforms` selects the host. A conforming one sends `P1_MORE` only if its
last SIGN block was answered with 9000 and no signature (`mayContinue`); it may
send commands other than SIGN in between, GET PUBLIC KEY among them. The other
sends anything. The code does not ask for either: its only test of such a block
is that the parser was started once. `approved` and `cancelled` count the
answers of the user to the reviews of the current transaction.

### EosStream

The context with its buffers as sequences of bytes; the names and
`sizeBuffer` are one memory, as they are adjacent in the structure and a field
may run over from one into the next. A hash context is the sequence of bytes
it has absorbed. An iteration of the loop is one step, or two where a TLV
header is completed first (`status` is `SWITCH` in between). The stream comes
with what its sender means by it (values, actions, verdict), computed in
`MCEosStream` by an encoder written independently of the parser.

### EosArguments and EosDisplay

A page is the label, the number in a list, the kind of the text and the bytes
it is made from, with their place in the data. A parser of an action is a
function of the context and the argument number: a field is read at an
offset, or a list is walked through to the entry asked for, with the lengths
and the assertions of the code (lengths are unsigned and wrap at
`CounterMod`). The kinds `u32`, `asset`, `key` and so on are the texts of
`EosFormat` and `EosBase58`. `actionDataBuffer` keeps what earlier actions
left behind the data of this one, and `txContent.arg` what was printed last:
an action with too little data may show either.

`Transactions` are actions with the pages that their sender means
(`wellFormed`), or actions whose data is cut short, of which nothing is
claimed but that a page shows no byte from behind the data.

### EosFlow and EosBagl

`flow` is the step of `ux_single_action_sign_flow`, `ux_step` the argument;
entering one of the two border steps runs `display_next_state`, which decides
where the flow goes on. `seen` is a history variable. `Move` prints the
argument before the flow arrives at the step, and an assertion that fails
there ends the program (`Abandon`).

### EosNbgl

The screen library asks for pairs of label and value with a callback and
keeps pointers. An argument is printed to `txContent.arg` and copied to one of
`NbMax` backup buffers chosen by its index. The library is not in this
repository. Its behaviour is taken from what the code prepares for: it may
ask for any pair to measure it before it lays a page out (`Measure`), then
asks for the pairs of the page in order (`LayOut`), with any number of them
from one to `NbMax`, and the user turns pages both ways.

### EosSign

Numbers are sequences of octets. A hash-based message code is a symbol of its
arguments, so that two chains of them are equal only if they were computed in
the same way. What `cx_ecdsa_sign` answers is free: any two numbers and a
parity, in DER as `ecdsa_der_to_sig` takes it apart. `rng_rfc6979` is one turn of
its loop, with the candidate a free choice.

### EosBase58 and EosFormat

`EosBase58` has one step per digit with the variables of `b58enc` (`high`,
`carry`, `j`). `EosFormat` computes a text with the operations of C: division
that truncates, numbers of `Width` bits that wrap. Two large precisions of an
asset have no defined text: one whose power of ten has wrapped to zero, which
`asset_to_string` divides by, and one whose text does not fit `tmp`
(`TextSize`); the text is then `Undefined`.

## 3. Runs

| Run | Checks | Shows |
|---|---|---|
| `stream` | `StreamTypeOK`, `VerdictIndependentOfBlocks`, `HashCoversEveryField`, `ReviewShowsTransaction`, `ImplementsReview`, `EveryTransactionEnds` | cutting a stream changes nothing: same verdict, same hash, same reviews; every transaction gets its verdict |
| `app` | `AppTypeOK`, `AsyncReplyHasReview`, `SignedOnlyWhatWasApproved`, `PathLostOnlyToKey`, `SignPromptIsFinal`, `AddressShownIsAddressSent`, `SettingSurvives` | with a conforming host, what is signed was approved, in both user interfaces, and the path is the given one unless a public key was read between two blocks; a confirmed address is the one displayed |
| `app_any_host` | `SignedHasNoReview`, `EveryActionWasAnswered`, `FinishedAfterEveryAction`, `WarningBeforeActions`, `AuthorizationsAsAnnounced`, `ReviewOnlyAdvances`, `OneSettingPerTransaction`, `EveryCommandAnswered` | what still holds for any order of commands: the verdicts come in the right order and number, whatever is parsed; no action gets past its review, and a signature leaves none behind; each action has the authorizations its list announced, whatever index an earlier list left, and those of a list announced as empty are as many as the counter has values; no command stays unanswered |
| `bagl` | `BaglTypeOK`, `EveryArgumentSeen`, `ReviewShowsArguments`, `PageInsideData`, `ImplementsFlow`, `ForwardLeadsToDecision` | the pages are the ones the sender means, and every one is displayed before the decision; what they show lies in the data of the action, also if that is cut, but for the cuts of `data_length` |
| `nbgl` | `NbglTypeOK`, `PageShowsPairs`, `ConfirmedAfterAllPairs` | no pair of a page takes the buffer of another, and none is left out |
| `sign` | `SignTypeOK`, `NoncesFollowRfc6979`, `SignatureIsCanonical`, `NoCandidateSkipped` | no nonce is used twice, and short numbers keep their place in the signature |
| `text` | `EncTypeOK`, `ValueKept`, `TextReadsBack`, `WifFits`, `NumberReadsBack`, `AssetReadsBack` | what is on the screen reads back as the number, the amount or the key |

Five runs show where the code and its documentation disagree.

| Run | Violated | Documentation | Code |
|---|---|---|---|
| `any_host_approval` | `SignedOnlyWhatWasApproved` | `doc/eosapp.asc:92`: signs "after having the user validate" | a cancelled transaction stays in the context, and a block with `P1_MORE` continues it |
| `any_host_signature` | `SignedOnce` | `doc/eosapp.asc:92`, as above | after a signature the parser stays at the end, and a further block is answered with a second signature |
| `key_between_blocks` | `SignedWithGivenPath` | `doc/eosapp.asc:34`: sign "given a BIP 32 path" | GET PUBLIC KEY overwrites the path of a transaction in progress |
| `data_length` | `PageInsideData` | `src/eos_parse.c:44`: "Insufficient buffer" | `parseVoteProducer` passes the assertion a length that is not what is left; `parseStringField`, `parseNewAccount` and `processEosioDelegate` read on in their own ways |
| `nonce_order` | `NonceBelowOrder` | `src/eos_utils.c:308`: "Check T is < n" | octets behind the first that differs count too |

Three more are plain from the text and have no run: the last field, of which
`src/eos_stream.c:956` says that only 0 is accepted, is hashed and not looked at
(`SomeContextFreeData`, one of the streams of `stream`, is accepted); the
exception handler of `app_main` changes only the status word (`src/main.c:420`:
"Wipe the transaction context"); and a TLV length of four bytes, which
`src/eos_utils.c:158` allows, does not fit `tlvBuffer` (one of the streams of
`stream` has such lengths and is refused).

`data_length` has four transactions. With only `MemoCut` a memo that is one
byte short is displayed with a byte from behind the data; with only
`NewAccountCut` a key that an earlier action left in the buffer is; with only
`DelegateCut` a byte of an earlier action decides that the stake is said to be
transferred. An EOSIO node refuses such data, so that these signatures are of
no use.
A candidate for a nonce between the order and 2^256 has a chance of about
2^-127, and `cx_ecdsa_sign` is given it as it is.

`any_host_approval` and `any_host_signature` need a host that goes on after a
refusal or a signature; the run `app` and the theorems show what holds with a
conforming one. The second signature is of a hash that is finalised again, and
comes without a review, but not before every action was answered once
(`EveryActionWasAnswered`, `SignedHasNoReview`). `key_between_blocks` happens
with a conforming host: nothing else takes the path away
(`PathLostOnlyToKey`). Resetting the context (`state = TLV_NONE`) in
`user_action_tx_cancel`, after a fault, after a signature and in
`handleGetPublicKey` would make all three hold for every host.

### Bounds

- `CounterMod` stands for 2^32. With 3 (`app`, `app_any_host`) a list
  announces none, one or several entries, and the authorisation index wraps
  around; 64 for the streams and the reviews. Sizes in them are below it, and
  data that is cut short makes them wrap.
- `MaxFields` bounds the fields of a block. 8 is more than one action, so a
  block ends inside and after an action, and holds the last action of a
  transaction with all that follows. 3 in `app_any_host`.
- Two paths, which are symmetric, suffice to confuse one with another. There
  is one in `app_any_host`, none of whose properties is about paths.
- `BlockSizes` for the streams: 1, 2, 3, 5, 8, 13, 34 and 255 bytes in any
  order, so that every byte of every stream is the end of some block.
- `ActionDataSize` is 104 instead of 512, just above the longest action
  (`newaccount`); one stream has data that does not fit. The chain id, which
  is only hashed, has 3 bytes instead of 32.
- The streams have every known action, unknown ones with and without data
  and leave, one to four actions, one or two authorisations, all forms of
  length, an empty list, fields of length zero, names that are too long, and
  ten streams that have to be refused or never end.
- `bagl` has 19 well-formed actions, one with each kind of argument and list,
  with up to 12 arguments; each alone and after an action that fills the
  buffer with other bytes, and some after another authority; and the actions
  cut after 0, 8, 15, 16, 31, 33 or 47 bytes or before their last one. Data
  that ends where a field ends, inside one and one byte early occurs for every
  parser. Four cases are kept apart for `data_length`. `MaxArguments` is 255,
  what a `uint8_t` can be; the theorems hold for every number.
- `nbgl` has four transactions: two actions, of which one has a list; one with
  five arguments; a cut action after a full buffer; and one cut inside an
  authority. `NbMax` is 3, so that pairs that are 3 apart share a buffer.
- `sign` has numbers of two octets and up to four candidates: below, at and
  above the order, and one that is above it but has a smaller second octet;
  numbers with one octet, with a leading zero for a high bit, and around the
  bounds of `check_canonical`.
- `text` encodes all inputs of up to three bytes out of 0, 1, 57, 58 and 255,
  and four keys of 37 bytes, the largest and one of zeros among them. Numbers
  have 16 bits, so that ten to a power wraps from precision 5 on as it does
  from 19 on with 64, and is zero from 16 on as it is from 64 on. `tmp` has 16
  places instead of 64: precision 12 has a power that is not zero and a text
  that does not fit.

### Fairness

`AppFairness`: weak fairness of `Work` (the program runs) and of `Decide` (a
user who is shown a review answers it at some time). No fairness of the host,
who need not send another command. `FairStreamSpec`: the parser runs, the
host sends what is left of its stream, the user accepts; each is one step
that stays enabled until it is taken, so weak fairness is enough. That of
the parser is written out (`ParserRuns`): it can step exactly while the
status is LOOP or SWITCH. `FairBaglSpec`: a user in a review presses the right
button in the end, unless there is nothing further right;
`ForwardLeadsToDecision` excepts a user who turns back again and again.

## 4. Proofs

All for every value of the constants that the named assumptions allow: every
`CounterMod > 1`, every set of paths, every `MaxFields`, both user interfaces,
every number of arguments, inputs of every length.

`EosReviewProofs` proves `ReviewTypes`, `ReviewComplete`, `ReviewWarns` and
`ReviewAdvances`. `FinishedAfterEveryAction` is not inductive: it says nothing
before the last state. The invariant `ReviewInv` adds that the actions handed
out are the index less the one still flagged (`ReturnedFollowsIndex`), that
the position of the index relative to the announced number follows from the
field being read (`BeforeTheList`, `IndexFollowsState`), and that the warning
is flagged or given exactly for lists of several (`WarningFollowsNumber`).
One lemma for each kind of step (`ActionDataInv`, `ActionListSizeInv`, ...)
leads to `ReviewStepInv`. The index never wraps: it stays below an announced
number that is itself a counter.

`EosAppProofs` proves

- `AppImplementsReview`: `AppSpec => ReviewSpec`, from `AppStepIsReviewStep`;
- `ReviewsMatchCommands`: `AsyncReplyHasReview` for any host. The invariant
  `AnyHostInv` adds that the parser runs exactly while the loop is in it and
  that a command being handled is unanswered;
- `EveryActionIsAnswered` and `SignatureEndsReviews`, for any host.
  `AnswersInv` says that the actions accepted and those cancelled are together
  the actions handed out, less the one on the screen (`Outstanding`), and that a
  signed transaction is at its end, from which no verdict leads back to a
  review (`SignedIsOver`). With `ReviewInv` this gives the number of answers at
  `STREAM_FINISHED`;
- `SignatureNeedsApproval` and `SignatureUsesGivenPath` (`PathLostOnlyToKey`),
  for a conforming host. `HostInv` says of a transaction that can still be
  continued (`Active`) that it is neither cancelled nor signed and that the
  union holds its path or a public key; where nothing was cancelled, the answers
  of `AnswersInv` are approvals. `UserParsesLate` is needed to show
  that the callback never meets `STREAM_CONFIRM_PROCESSING`, which it would
  answer with a fault;
- `SettingIsTheChosenOne`: `SettingSurvives`, whoever the host is. `SettingInv`
  adds what is true before the first start, when flash says "not initialized"
  and the user has chosen nothing;
- `ConfirmedAddressIsShown`: `AddressShownIsAddressSent`, inductive together
  with `AnyHostInv`: no command can write to the union while an address is on
  the screen, as one is unanswered then;
- `SettingIsCopiedOnce`: the action property `OneSettingPerTransaction`, by
  cases on the steps; only `initTxContext` and the end of the program touch
  the copy.

- `SignPromptComesLast`: `SignPromptIsFinal`, for a conforming host.
  `PromptInv` follows the words "Sign transaction" from the screen of the last
  action over the acceptance to `STREAM_FINISHED`: after the last action only
  fields without a review are left, so nothing can be shown in between;
- `AppTypes`: `AppTypeOK`, for any host;
- `AuthorizationsAreCounted`: `AuthorizationsAsAnnounced`, for counters of any
  width. `IndexCountsAuthorizations` is the reason: while there are more to
  come, the index is the number of those read, which is below the announced
  one, or below the number of values if none is announced; so the index meets
  the number only then.

`EosStreamProofs` is about the parser of bytes: any bytes, any cut into
blocks, any sizes that `StreamAssumption` allows.

- `StreamTypes` (`StreamTypeOK`). The invariant `StreamInv` has one conjunct
  for the memory (`BytesOK`), the fields of the context (`FieldOK`,
  `ContentOK`), the control variables (`ControlOK`), the header (`HeaderOK`: an
  undecoded header has fewer bytes than the longest) and the place in a
  buffered field (`PositionOK`). The last one needs that the assertions on a
  field's length come before the copy, and that the chunk is cut to what the
  block and the field have left.
- `StreamImplementsReview` (`ImplementsReview`). Inside a field the parser
  stutters; its end is the action of `EosReview` for the field, and `known`
  does not change between the name and the data because what is copied later
  lies behind the names in memory. The assumption `ActionDataSize >= 2 *
  NameSize + 5`, 21 of the 512 bytes in the code, covers what the counters
  of arguments read at fixed places: two names, and behind them a number of
  up to five bytes (`VoteProducerCount` in `EosLemmas`).
- `StreamFinishesLast`: `ReviewComplete` and `ReviewWarns` carried over to the
  parser of bytes through the refinement.
- `StreamBlocksDoNotMatter` (`BlocksDoNotMatter`): however a stream is cut, the
  verdict is that of `Result(tx)`, the reader of `EosBytewise` after all bytes,
  a complete transaction has its hash, and the reviews are its reviews in
  order. There is no hypothesis on the streams: they may be of any bytes and
  end anywhere.
- `StreamReadsByteByByte` (`ReadsByteByByte`): between fields, between blocks
  and before every answer the parser's context is that of the reader after the
  same bytes. That the contexts agree is the conjunct `AgreesOK` of the
  invariant `ReadingInv`; the others are that the block holds the unread part
  of the stream (`WindowOK`), what the answer says of the context (`AnswersOK`),
  that hashes are of bytes and which names are displayed (`HashOK`, `NamesOK`),
  that a field left for the next block is neither complete nor to be refused
  (`SettledOK`) and that what was shown begins the reader's reviews
  (`ShownOK`). Two places need care. Before the dispatch (status `SWITCH`) the
  reader has looked at a field, which may be empty, that the parser has not:
  there `AgreesOK` compares with the parser's context as the reader settles it
  (`Settle`). And an assertion on a field's length fails in the parser
  before it copies the chunk, in the reader after some byte of it. Absorbing a
  chunk is absorbing its bytes one by one (`AbsorbTwice`, `ReadingField`), a
  reader that has its verdict keeps it (`ReadingStays`), and reviews are only
  appended (`ReadingGrows`).
- `StreamVerdict`, `StreamHash` and `StreamReviews` conclude
  `VerdictIndependentOfBlocks`, `HashCoversEveryField` and
  `ReviewShowsTransaction`. These compare with what the sender of a stream
  means, which the bytes alone do not say, so the theorems assume
  `SendersMeanWhatIsRead`: the sender means what the reader makes of the
  bytes. For the streams of `stream`, whose meaning comes from an encoder that
  was not derived from the parser, TLC evaluates this when it starts
  (`SamplesMeanWhatIsRead` in `MCEosStream`). There the reader is the operator
  `ReadAll`, which reads a stream half by half, because a function that reads
  byte by byte is too deep for TLC's stack; `ReadAllIsResult` compares the two
  for the streams shorter than 80 bytes.

`EosBaglProofs` proves `FlowType` and `FlowShowsEveryArgument`
(`EveryArgumentSeen`). That every argument was seen when the flow arrives at
the last steps is not inductive: `Position` adds that all up to the argument
on the screen have been seen, and which `ux_step` belongs to each step of the
flow, before the arguments and behind them. About the screens it proves
`BaglTypes`, `BaglImplementsFlow` and with it `BaglShowsEveryArgument`: the
number of arguments the decoders count in any data fits the `uint8_t` that the
flow counts with (`CountOfLoaded`). `BaglInv` adds `ArgumentIsPrinted`: while a
step with an argument is on the screen, `txContent.arg` is what
`printArgument` makes of the argument of that step, whichever way the user
came. `BaglShowsWhatIsDecoded` concludes `ReviewShowsArguments`.

`EosNbglProofs` proves `NbglTypes`, `PagesKeepTheirPairs` and
`ConfirmedAfterEveryPair` for any data, and `NbglShowsWhatIsDecoded`
(`PageShowsPairs`) and `NbglConfirmsAllPairs` (`ConfirmedAfterAllPairs`) where
the decoders are right. `NbglInv` says of every pair of the page so far that its
pointer is its own and that its slot still holds it (`PairsKept`); a slot is
the index modulo `NbMax`, and the pairs of a page are less than `NbMax` apart,
so that two of them never share one (`RemaindersDiffer`). A pair is measured
only before a page is laid out, when nothing has to be kept. `PairsSeen` says
what has been displayed.

`[]DecodesRight` is the hypothesis of three of these theorems: for a
well-formed action, `printArgument` writes the page that its sender means and
the count is the number of pages. It is a statement about the decoders and the
constant `Transactions` alone, not about the review, and cannot be proved
without fixing what senders mean; the run `bagl` checks it in every state, as
the first conjunct of `ReviewShowsArguments`. What the theorems add is that
nothing between the decoder and the eye goes wrong: stale buffers, borders,
ring of slots, wrapping counters. `DisplayAssumption` says what a well-formed
action is: its count of pages and the three pairs in front of it fit in a
`uint8_t`; `BaglAssumption`, that a review can count all arguments that the
parser can.

`EosSignProofs` proves `SignTypes`, `NoncesOfChain`
(`NoncesFollowRfc6979`), `SentSignatureIsCanonical` (`SignatureIsCanonical`),
`FirstCanonicalEndsLoop` (no run checks its `FirstCanonicalIsSent`: a canonical
signature is not thrown away) and `CandidatesAreTried`, for numbers of any size,
any order and any number of turns. The chain of RFC 6979 is a recursive
function: `RfcChain` shows that it exists (`ChainExists`, `ChainsAgree`) and
that `V` and `K` walk along it (`FollowsChain`). `DerRoundTrip` takes a DER
integer apart octet by octet (`IsDerOf`): with z octets left out and perhaps
one put in front, `SigInteger` reads the number again, zero included.
`CanonicalOctets` shows that looking at two octets is comparing with two powers
of two.

`EosTextProofs`, for inputs of `b58enc` of any length, proves

- `EncodingStaysInside` (`EncTypeOK`): `DigitAndCarry` is the arithmetic of a
  digit (58 * 255 + 57 has a carry of a byte), the rest follows the loop;
- `DigitsKeepTheValue` (`ValueKept`) and `TextStandsForTheBytes`
  (`TextReadsBack`). The properties compute values modulo a prime, so that TLC
  can; the proof has exact values, recursive functions whose existence
  `RecursiveFunction` gives (`Horner` from the front, `Low` from the back), and
  `ValueIsExact` goes back to the prime. The invariant `EncInv2` says inside the
  loop that the new digits, the carry and 256 times the digits still to come
  are together the value of the bytes with the new one (`Weighs`), and that the
  digits no byte has reached are 0. Two things are not obvious. The loop treats
  digit 0 as reached after `StartDigits` and after it has run to the front, so
  that breaking there needs the digit to be 0: it is, because the bytes so far
  need one digit less (`FirstDigitIsFree`). And at the front a carry would be
  lost: there is none, because 58 to the number of digits is at least 256 to
  the number of bytes, for every number of bytes (`SizeIsEnough`, in steps of
  8 bytes and 11 digits: 256^8 < 58^11). `EncInv2` chooses functions on all
  numbers, so TLC cannot evaluate it; `ValueKept` is its part that TLC checks;
- `AddressIsLongEnough` (`WifFits`), from the size and the zeros;

and for numbers of any `Width`

- `NumbersAreReadable` (`NumberReadsBack`): `Place(n, k)` is the digit of n for
  10 to the k, and a text with every digit on enough places is read as n
  (`DigitsAreRead`, along n divided by falling powers of ten). `ui64toa` writes
  these digits, on the least number of places (`DigitsOfNumber`);
- `AssetsAreReadable` (`AssetReadsBack`): ten to the precision is the power it
  is meant to be as long as the last product does not wrap (`PowerOfTenIs`); the
  number then has no more digits than the largest one, so that the text fits
  its buffer (`NumberFits`, from `FormatAssumption`); the digits of the quotient and of the remainder are those of the amount
  (`HighDigits`, `LowDigits`); the loop that fills the fraction from its last
  place writes all of them, zeros in front included (`FractionIs`); the first
  point and the first space of the text are those that `asset_to_string` puts
  there, whatever bytes the symbol has (`PartsAreFound`).

Induction over numbers is used in the form of sets (`NatSetInduction`,
`LeastNatural` in `EosLemmas`): a set of numbers with 0 and every successor is
all of `Nat`. It follows from the well-foundedness of the strict subset order
of finite sets.

Only model-checked: liveness (`EveryCommandAnswered`,
`EveryTransactionEnds`, `ForwardLeadsToDecision`), which is beyond the prover,
as is `ENABLED`; `PageInsideData`, which is true of some transactions and, as
`data_length` shows, false of others; and that the sample streams satisfy
`SendersMeanWhatIsRead`, which is a computation.

## 5. Not modelled

- Cryptography: the elliptic curve, SHA-256, RIPEMD-160 and the checksum of a
  key. In `EosApp` a signature or key is the path it was made from, in
  `EosStream` a hash is what it has absorbed, in `EosSign` a message code is
  the symbol of its arguments and a signature is free.
- Wording: labels are names, texts that do not depend on the data are left
  out, as are icons, the paging of a long text by the screen libraries and
  the hexadecimal text of a checksum (`array_hexstr`).
- The length of a command: the code does not test it, and the models start
  from the bytes of a block. `char` counts of arguments are kept modulo 256.
- Bytes behind the fifth of `tlvBuffer`, which a host would reach that goes on
  after a fault in a TLV header: `EosStream` has a host that begins anew.
- Flash writes are atomic, and an exception of the transport is taken while
  no answer is pending.
- Amounts that are negative, precisions whose power of ten wraps and `%d` of
  numbers from 2^31 on: `EosFormat` computes the text as the code does, but no
  property says what it should be.
- The SDK, the desktop and fuzz harnesses, the functional tests.
- Instruction bytes: the class byte of the commands in `doc/eosapp.asc` (E0)
  is not the one of `src/main.c:38` (D4); no property depends on it.

## 6. Plan

1. Done: all parts of `src/` that keep state or print what is reviewed, with
   their runs; theorems about every component with state, two refinements
   among them.
2. Done: a proof that no block boundary changes a verdict, a hash or a review,
   stated without the encoder of `MCEosStream` (`EosBytewise`).

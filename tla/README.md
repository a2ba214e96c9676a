# A TLA+ model of openaic

openaic adds the *Agent Identity Credential* (AIC) extension to OpenSSL: an X.509
extension in which a principal delegates capabilities to an agent, and the code
that validates it, verifies the principal's signature, refuses replayed nonces and
hooks all that into OpenSSL's chain verification. It also reads and prints AICs as
text, and libopenaic reads the JSON in capability parameters. This directory holds the TLA+
modules that model that code, the TLC configurations that check them, and the
proofs that TLAPS checks. Paths below are those of the repository, under `src/`.

## 1. Inventory

| Part | Code | State | Operations | Modules |
|---|---|---|---|---|
| anti-replay context | `src/aic_verify.c:391-439` | growable array `nonces`, `n`, `cap` | `AIC_replay_new`, `_check`, `_free` | `NonceRegister`, `ReplayCache` |
| structural validation | `src/v3_aic.c:293-418` | none | `AIC_validate` | `AicExtension` |
| delegation signature | `src/aic_verify.c:47-345` | none | `aic_build_tbs`, `aic_verify_da_one`, `AIC_verify_da_ex`, `AIC_verify_da` | `DelegationAuth`, `DirectVerify` |
| certificate verification | `src/aic_verify.c:347-389, 445-521` | one call's locals; the context's nonces | `AIC_verify_cert` | `DelegationGate`, `AicVerdict`, `AicVerify` |
| flag registry | `src/aic_verify.c:530-575` | process-wide array of (parameter address, flags) | `X509_VERIFY_PARAM_set_aic_flags`, `_get_aic_flags` | `AicParamRegistry` |
| store callback | `src/aic_verify.c:577-603` | none of its own; reads the registry | `aic_verify_cb` | `VerifyCallback` |
| PrincipalUid text | `src/v3_aic.c:113-290` | one call's locals and buffers | `AIC_principalUid_to_string`, `_from_string`, base64url | `PrincipalUidText`, `Ownership` |
| extension configuration | `src/v3_aic.c:420-765` | the AIC being built, the list being made | `v2i_AIC`, `parse_cap`, `i2v_AIC` | `AicConfig` |
| command line tool | `cmd/openaic-tool/main.c` | flags, loaded certificates, context | `verify`, `print` | `OpenaicTool` |
| capability parameters | `lib/openaic.c` | none | parse/print helpers, validators | `CapabilityParams` |
| cJSON as libopenaic uses it | `lib/cjson/cJSON.c` | the heap, parse and print buffers | parse, print, delete, lookup | `JsonHeap`, `JsonString`, `JsonParser`, `JsonPrinter` |
| ASN.1 templates | `src/v3_aic.c:1-92` | none | `AIC_new` and the like (d2i/i2d external) | `AicTemplates` |
| patch, build, Go vector generator, tests | `patch`, `Makefile`, `ci`, `test` | | | not modelled |

How the parts interact:

```
 openaic-tool --+                       +--> AIC_validate
 callers -------+--> AIC_verify_cert ---+--> AIC_replay_check --> shared context
                         ^              +--> keyHash lookup in the candidates
 libcrypto chain walk    |              +--> AIC_verify_da_ex --> TBS, signature
        |                |                        ^
        +--> aic_verify_cb --> registry           +-- direct callers
                                  ^
 X509_VERIFY_PARAM_set_aic_flags -+

 openssl.cnf section --> v2i_AIC --> parse_cap
                           |  |
                           |  +----> AIC_validate
                           +--> AIC_principalUid_from_string --> base64url
 decoded extension ---> i2v_AIC --> AIC_principalUid_to_string --> base64url

 openaic_validate_* --> openaic_params_parse --> cJSON parser --> heap
 openaic_params_canonical, _pretty, _from_json --> cJSON printer --> heap
```

What is hard in it:

- *Shared state without locks.* A context is shared by every caller that passes it,
  and `AIC_replay_check` scans and then appends; the flag registry is global.
- *Order of checks.* The nonce is stored before the principal is found and the
  signature verified, and nothing takes it back when a later step fails.
- *Version negotiation.* AIC version 0 tries delegation version 2 (bound to the
  agent's key) and falls back to version 1 (not bound).
- *Two authorities on the algorithm.* The declared OID chooses digest and padding,
  the key's type chooses the algorithm.
- *Failure everywhere.* Every step allocates. A failed SPKI encoding becomes "no
  agent key", a failed decode becomes "no extension".
- *Lifetimes.* Registry entries are keyed by an address that outlives its object.
- *Integers.* ASN.1 integers of any size become a `long` and then an `int`; the
  base64url accumulator is an `int` that is never masked.
- *Sizes counted twice.* `parse_string` sizes its output in one loop and writes it in
  another; `print_string_ptr` counts the bytes escapes add before it writes them;
  `i2v_AIC` adds up a line and then fills it with `strcat`; base64url rounds.
- *Ownership in C.* Each function of `v3_aic.c` has one `err` label that frees whatever
  its locals point to; the parser builds lists that belong to nobody yet.
- *Two notations.* The section of a configuration file and the listing of an extension
  describe the same AIC.

What makes each part correct: a context accepts a nonce once and never writes past
its array; a certificate is accepted only when its principal signed exactly that
delegation for that agent, and a genuine one is accepted; flags in force are those
that were set; the callback only ever strengthens the stock result; an AIC read from a
section is the one the section describes, or none; a JSON text is parsed to the tree
the grammar gives it, and what is printed reads back; no buffer is overrun, and every
block is freed once.

`PROJECT.json` lists every hazard at its line with the properties that watch it.

## 2. Modules

**NonceRegister** is the abstract anti-replay service: `Ask`, then one atomic answer
(`accepted`, `replayed`, `nomem`, `refused`). A nonce is accepted at most once, and is
called a replay only if it was accepted.

**ReplayCache** is the code: one action per statement of `AIC_replay_check` (`Enter`,
`Scan` once per loop round, `Grow`, `Store`, `Count`), plus `New`, `Free` and `Call`. `nonces`,
`n`, `cap` are the fields of the context; `idx[t]` is the loop index, 1-based. `realloc`
keeps the old slots and adds `Junk`, and may fail at any time. The code takes no lock;
the constant `Locked` says whether the callers hold one around each call. `Free`
requires that no call is running, as in C. With `Locked`, `ReplayCache` implements
`NonceRegister` with `spent <- {nonces[i] : i \in 1..n}`.

**AicExtension** is the decoded AIC as a record and `AIC_validate` as a predicate, with
`ASN1_INTEGER_get` (-1 when no `long` holds the value) and the cast to `int`. A string is
a length and an identity. Fields the templates mark SIMPLE are always there, because
the decoder and `AIC_new` allocate them; optional ones may be `NULL`.

**DelegationAuth** has the pure part of signature verification. Cryptography is
symbolic: a key is also its SPKI, SHA-256 is injective, and a signature value is the
signature of one delegation `[key, scheme, tbs]` that somebody really signed, or of
nothing. `Tbs` is the record `aic_build_tbs` rebuilds, `Scheme` and `SetUpWorks` say what
OpenSSL does with a key under a declared OID, `UpdateWorks` that its
`EVP_DigestVerifyUpdate` (`aic_verify.c:280`) refuses an Ed25519 key, whose verification is
one-shot in OpenSSL 3.5; `AIC_verify_da_ex` is the negotiation, its
result the version reported in `*daVersion` and 0 for failure. `mem` is the set of
versions whose allocations succeed.

**AicVerdict** is what `AIC_verify_cert` answers, in one expression, from what can be
found out about the certificate, the candidates and the flags. It is the specification of
`AicVerify` (`AnswersVerdict`), and what the callback and the tool are composed with.

**AicVerify** runs `AIC_verify_cert`: `Call`, `Decode`, `Validate`, `Replay`, `FindUser`,
`VerifyDa`, one step each, for several callers. A context appears as the set `spent[x]`
of its nonces and `AIC_replay_check` as one atomic step, which the refinement of
`ReplayCache` justifies *under the callers' lock*. `granted` is a history variable. A
request says whether allocations may fail in it (`starved`): then every step may take its
out-of-memory exit. The parameter `userPub` is
the key of the chosen certificate; the vendor extensions `[1]` are not part of the
signed bytes and no code reads them.

**DelegationGate** is the abstract service behind `AIC_verify_cert`: a client presents a
request, and is at one instant granted it or turned away with a verdict that the request
permits; a grant uses up the tickets of the request. `AicVerify` implements it
(`ImplementsGate`) with `open <- {c : pc[c] # "idle"}`. `Permitted(r)` is `BestVerdict(r)`, the answer
of `AicVerdict` with memory and a fresh nonce, and what may come instead: 0 for a valid
AIC whose nonce is spent or whose call runs out of memory, and the answer to a
certificate without an extension when it is not even decoded. The ticket is the nonce in
its context, under REPLAY. The gate is what a program may rely on that knows nothing of the steps
and of the other callers.

**DirectVerify** calls `AIC_verify_da_ex` and `AIC_verify_da` as the public entry points
they are: on AICs that nobody validated, under a key the caller chose. Authorization, principal
and AIC are separate arguments, as in C, that need not belong together or be there. Its `DirectSpec` bears that
name because the proofs about it and about `AicVerify` share `DelegationAuthProofs`.

**AicParamRegistry** is the flag table: `SetAicFlags` overwrites the first entry of an
address or appends one, growing the array; `SetAicFlagsFails` is the failed `realloc`.
Nothing removes an entry: the code has no operation that does.

**VerifyCallback** composes the registry with libcrypto's chain walk (external): a
session allocates a parameter object at a free address (`Open`), may set flags
(`Configure`), walks a chain from the root to the leaf with `aic_verify_cb` at every
certificate (`Begin`, `Walk`) and is freed (`Close`). `Answer` is `AicVerdict` as the
callback gets it, without an anti-replay context. Several sessions may be open; each function of the
registry is one step.

**OpenaicTool** is the process: `Main` (usage, `load_cert`), `CmdPrint` (the decoded AIC is on the
heap until it is printed), one
`Option` step per round of the option loop, `Verify` with `AicVerdict` and the exit. `heap`
is the set of objects `main.c` must free, `users` the stack `untrusted`; a certificate is
abstracted to its key, the state of its AIC, the key that hashes to its `keyHash` and the
key that signed. One run of the process is modelled: it leaves nothing for the next.

**AicTemplates** gives the values `AIC_new` and its kin allocate. **Ownership** is the
memory of one call of `v3_aic.c`: `held` are the allocated blocks that a local owns,
`pointers` the locals that are not NULL. A pointer keeps its value when its block is
freed, so that a second free shows (`freedTwice`).

**PrincipalUidText** runs `AIC_principalUid_from_string` and `_to_string`: an allocation,
a character of `b64url_decode` or a group of `b64url_encode` is one step. `acc`, `bits` are
the locals of the decoder, `acc` at the width of an `int` (the bits that overflow are
lost), `room` the size of the buffer, `built` what was written. `Spelled` and `LeftOver`
say what a fingerprint stands for without an accumulator.

**AicConfig** runs `v2i_AIC`, one step per line of the section but for the lines
that allocate more than once (`parse_cap`, the DER of the delegation, the principal),
and `i2v_AIC`, one step per line listed and per copy made for it. It extends
`PrincipalUidText` and runs its steps in place of the two calls (`InCodec`). `num` is the buffer
that a version is printed into, of `NumRoom` bytes (16 in the code): what is longer loses its
last digits (`Cut`). An AIC that was
made is listed (`ListResult`) and the listing read again (`ReadAgain`). `Described` and `Listing`
say the same without a loop and without memory.

**JsonHeap** is `malloc` as a function from block numbers to items and byte blocks, and
`cJSON_Delete`. **JsonString** is `parse_string`: `Scan`, `ScanEscape` are the loop that looks for the end,
`CopyPlain`, `CopyEscape`, `CopySingle`, `CopyPair` the loop that decodes, with
`utf16_literal_to_utf8`. **JsonParser** is `parse_value` with its recursion as the stack
`frames`, over tokens; `buffer_skip_whitespace` steps back over the last byte as the
code does. **JsonPrinter** is `print`: each piece asks `ensure` for room, writes, and moves
`offset` at once or leaves that to `update_offset`. **JsonGrammar** is the reference: what
a text means as JSON, by intervals of tokens (`ValuesTo`) and, for a string, by the places of its
escapes (`LiteralMeaning`); `Beginnings` are the values a text begins with, `Wholes` those that it is
from end to end. A byte that cJSON skips as whitespace is one kind of token, and so is a number;
that cJSON takes any byte up to 32 for whitespace, and more for a number than JSON has, is not told
apart. **CapabilityParams** composes them under the
functions of `openaic.c`; what a call prints is given to a next call to parse.

`MC*` modules give the constants their values for TLC. `*Proofs` modules hold theorems.
Definitions marked "mutant" above an operator are the same operator with a plausible
bug; no specification uses them. `PROJECT.json` names, for each property, the mutant
that TLC must find violating it.

## 3. What the runs check

| Run | Shows |
|---|---|
| `replay_safety` | Two threads, three nonces and one malformed one, arrays of 0 to 4 slots: array in bounds, no nonce twice, no accepted nonce accepted again, through growth, failed growth, free and reuse; the statements implement the atomic register; every call returns. |
| `replay_unlocked` | **Violation.** Without a lock two overlapping calls accept one nonce. |
| `verify` | One call on every combination of signed delegation, declared version, algorithm, one changed field, certificate key, candidate list and flags, with allocations that may fail and without; two callers that interleave unbounded sequences of calls on two contexts; and the public entry points with arguments that do and do not belong together. What is accepted or reported was delegated; with memory a genuine RSA or ECDSA delegation of either version is accepted, and every call answers `AicVerdict`; a context grants a nonce once, and only valid AICs spend nonces; the steps of a call are one decision that `DelegationGate` permits. |
| `verify_skip` | **Violation.** An extension that does not decode is skipped like an absent one. |
| `verify_ed25519` | **Violation.** A genuine Ed25519 delegation is refused. |
| `direct_version` | **Violation.** A version beyond `int` is truncated and accepted by `AIC_verify_da_ex`. |
| `callback_safety` | Two sessions over three addresses: flags stay in force; with REQUIRE among them the result is the conjunction of stock and AIC verification, with empty flags the stock result; no failure of libcrypto's is undone, at any depth. |
| `callback_default` | **Violation.** A recycled address inherits the flags of a freed object. |
| `tool_safety` | Every line of up to two words and of three options: `verify` exits with 0 when the checks the line asks for hold, and with 0 for no certificate with an AIC that fails one of them; everything loaded or decoded is freed on every path of both commands. |
| `config` | Sections complete, short of a line, with a line too many at either end and rotated; fingerprints of every length up to five; extensions valid or not; a failure at any allocation. An AIC that is made is the one the section describes, and a proper section of a valid AIC makes it; the listing is that of the AIC, and reads back when there are no parameters; buffers are large enough, nothing is freed twice or lost but at `v3_aic.c:283`. |
| `capability_params` | Every text of up to four tokens, four documents changed in one token, every string literal of up to three units, and the limits of `max-concurrent`: what is JSON is parsed to its value, and what is parsed is a value that the text begins with; every block has one owner at any time, the decoded string and the print buffer fit, the printed text is the rendering of the tree and reads back, `{"max":N}` is granted within the range and nothing out of it, every call returns. |
| `params_not_json` | **Violation.** `{}` followed by anything is parsed. |

### Bounds

- *Arrays.* The first allocation has one slot (8 and 4 in the code) so that few entries
  make the array grow, and any growth may fail. Empty, partly full, exactly full, grown
  and not growable all occur. The proofs hold for every value.
- *Threads and sessions.* Interference between two calls is pairwise in every property.
  The proofs are for any number of threads.
- *Integers.* `int` has 3 bits and `long` 5: there are values that fit neither, and
  values the cast maps onto each of the versions.
- *Extensions.* Four delegations (both versions, RSA PKCS#1 and PSS, EC, Ed25519, one of
  them for an agent whose own key is of an unknown type), five versions, five declared
  algorithms, and seventeen changes of a single field, from a good extension. Lengths
  sit on their limits, and the changes put them one past.
- *Calls.* `MCAicVerify` has one instance for three kinds of behaviour: one call out of all
  requests (a call without a nonce check leaves nothing for the next), calls of both callers in
  any order out of eight requests (good, malformed and forged extensions with and without a
  nonce check, in either context), and calls of the entry points of `DirectVerify`.
- *Chains.* Two certificates, either of them rejected by libcrypto or none. The proof is
  for chains of any length.
- *Command lines.* Every word the tool knows, one it does not, a path that loads and one
  that does not, in lines of up to two words; and three well-formed options in any
  order, so that a flag is set, cleared and set again and two principals are given.
  The agents are one genuine, one signed by another key than its `keyHash` names, one with
  a malformed AIC and one without. The process stops, so deadlock is not checked.
- *Sections.* The lines that are added are about every name the code knows and one it does
  not, with lengths at their limits and one past, and every third part of a capability:
  none, empty, opaque, hexadecimal, wrong hexadecimal, empty hexadecimal. `int` has 16 bits
  (`IntMax`), the least C allows: the accumulator overflows after three characters.
  `NumRoom` is 4, so that versions of three digits and more, or two and a sign, fit and do not;
  the proofs are for any number of bytes.
  Fingerprints reach 64 bytes and 65.
- *JSON texts.* `NestingLimit` 2 and texts of four tokens exceed it; the documents reach it
  with members and elements around. The first print buffer has 6 bytes (256 in the
  code), so that it grows several times, and the largest 40 (`PrintMax`, `INT_MAX` in the
  code), so that some texts do not fit. `LiteralLength` 3 units are enough for a surrogate
  pair with something before or after, and for a backslash that one loop takes for an
  escape and the other for one of four digits; among the units are a control character, an
  escape JSON has not, and a `\u` without its digits. Numbers are halves, from below the
  range to above it, and one that no `int` holds.

### Fairness

Two properties need any. `EveryCallReturns`: a call of libopenaic, once entered, goes
on (weak fairness of `CallStep`); nothing is assumed of the callers. `EveryCheckReturns`: a thread that is executing the function goes on
(weak fairness of its statements), and the lock the callers put around the calls does
not starve a waiting thread (strong fairness of `Enter`). The last is an assumption on
the callers' lock, not a fact about the code. The walk of a session and the steps of
`AIC_verify_cert` are straight-line code, and `v2i_AIC` and `i2v_AIC` loop over finite lists;
no liveness is stated of them.

## 4. Divergences found

1. `AIC_replay_check` is not safe for concurrent use of one context, and neither
   `aic_verify.h:50` ("reject reused nonces") nor `docs/verify.md` asks the callers to
   serialise (`replay_unlocked`).
2. `AIC_verify_cert` returns -1 ("no AIC extension") also for one that does not decode
   or occurs twice, because `X509_get_ext_d2i` returns NULL for both; `aic_verify.h:64-65`
   promises 0 for a present one (`verify_skip`). With REQUIRE it is refused.
3. `AIC_verify_da_ex` truncates the version (`aic_verify.c:307`), against "any other
   version: rejected" (`aic_verify.h:27`). `AIC_verify_cert` is not affected: `AIC_validate`
   tests the `long` (`direct_version`).
4. Flags outlive the `X509_VERIFY_PARAM` they were set on, though "these hooks are OFF by
   default" (`aic_verify.h:29-31`, `callback_default`).
5. No Ed25519 delegation verifies: `aic_verify_da_one` streams the signed bytes
   (`aic_verify.c:280`), which OpenSSL 3.5 does not do for Ed25519. `aic_verify.h:19-20`,
   `docs/verify.md:57` and the repository's `README.md:33` name Ed25519 among the algorithms that are
   verified (`verify_ed25519`).
6. `openaic_params_parse` takes a text with anything behind its first value
   (`openaic.c:25`), and with it `openaic_params_canonical`, `openaic_params_pretty` and
   the validators, where `openaic.h:34`, `:41`, `:45` and `:55` speak of JSON
   (`params_not_json`).

The following are read off the code while it was modelled. No run is about them; the
properties are stated so that none of them takes the code's side against the document.

- `aic_verify_cb` is not a pass-through without REQUIRE, as `aic_verify.h:97-100` has it: it
  verifies under any flags (`aic_verify.c:585`). `FollowsFlags` speaks of sessions with REQUIRE
  and of sessions whose flags are empty.
- `openaic-tool verify` exits with 1 when there is no AIC, `--require` or not
  (`main.c:223`), where `docs/cli.md:71`, `:80` and `:103` and the usage text (`main.c:143`) say 0.
  `ZeroMeansDelegated` leaves the exit status open there.
- `openaic-tool verify agent.pem --no-verify-da`, the structural check of
  `docs/cli.md:89-90`, refuses every certificate, because the keyHash check stays on and
  there is no candidate. `ZeroMeansDelegated` leaves it open, too.
- `--replay` cannot reject a second use (`docs/cli.md:95`), because a process verifies one
  certificate with a context of its own.
- `openaic_params_pretty` indents with tabs, not with two spaces (`openaic.h:45`).
  `PrintedText` compares its text up to whitespace.
- A member `"max\u0000x"` counts as `max` for the validators, and other members beside it are
  ignored, where `openaic.h:55` has the object `{"max": N}`. `MaxValidated` asks for the latter to
  be granted and for a number in the range whenever something is.
- cJSON takes literals that are not JSON: with control characters, and with a `\u` that four
  hexadecimal digits do not follow. `ParsedIsJson` says nothing of texts with one.
- A string with an escaped NUL is printed up to it only, and so is not
  what "parse+re-serialize" (`openaic.h:40`) would give; `PrintedText` is about the tree, whose
  strings are C strings.
- `v2i_AIC` takes any unknown word for the delegation mode `authorized`, reads a version
  with `atol` and ignores lines of unknown names, against "any invalid field fails the whole
  section" (`docs/config.md:42`); and it fails without a `delegationAuthDer`
  (`v3_aic.c:343`), which `docs/config.md:40` does not require. `ResultIsReading` asks for an AIC
  only from sections of proper lines (`Proper`) that describe a valid AIC, and for a failure only
  when a line cannot be read, an allocation failed, or a delegation is there and the AIC is not
  valid.
- `i2v_AIC` does not emit the reverse of a section, as `v3_aic.c:432-434` says: parameters are listed
  in plain hexadecimal, not in colon-hex, and read back as opaque text because the prefix
  `hex:` is missing; a delegation is only "present"; a version beyond 15 characters is cut.
  `ReadsBack` says which AICs do survive, given their delegation again; `ListingPrinted` asks of
  parameters that their text decodes to the bytes, with colons or without.
- `b64url_decode` accepts a fingerprint with a last character that adds no bits to
  any byte, as long as it is `A`: two texts for one key hash.

Defects of memory management, which `config` shows at their place and no other:
`AIC_principalUid_from_string` frees the decoded hash, and when `X509_ALGOR_new` fails jumps
to `err`, where it is freed again and the principal is not (`v3_aic.c:283-288`). `i2v_AIC` drops the
list it has made when a later copy fails (`v3_aic.c:621-624` and on), and lists a scheme
or identifier that could not be copied as an empty one.

Two consequences of the code that contradict no document: a nonce is spent by a call
that then fails, so that a retry with the right candidates is refused as a replay; and
AIC_VERIFY_REPLAY set on a parameter object makes the callback refuse every certificate
with an AIC, because the callback has no context to pass.

## 5. What is proved

All proofs are for every value of the constants, under the named assumptions of the
modules (`CacheConstants`, `ExtensionConstants`, `ToolConstants`, `NestingLimitNatural`, `PrinterConstants`, `DelegationConstants`, `RequestConstants`,
`DirectConstants`, `RegistryConstants`, `CallbackConstants`, `IntHasSixteenBits`, `SectionsOfLines`, `ExtensionsDecoded`,
`HexPrefixedTexts`, `NullIsNoList`, `HexHasNoPrefix`, `HexDecodes`, `NumHoldsDigits`, `ParamsAreTexts`), which TLC evaluates in the
runs. They constrain sizes and the shape of inputs (the words of a command line are
texts, say); `DelegationConstants` and `SignedByPrincipal` state that signatures cannot be
forged, and `DelegationConstants` also that what is signed can be read back from its
encoding (`TbsFields`). `IntHasSixteenBits` is what C promises of an `int`, in two's complement.
`NullIsNoList` says that the value that stands for a NULL pointer is not a list of
capabilities, and `HexHasNoPrefix` that a text in hexadecimal does not begin with `hex:`,
there being no `h` among the digits. `HexDecodes` says that the text of some bytes in hexadecimal
decodes to them, and `NumHoldsDigits` that the buffer of a version has room for a digit.

**ReplayCacheProofs.** `TypeCorrect` needs no lock. `InBounds`, `NoDuplicate`,
`ReusedRejected` and `RegisterImplemented` assume `Locked`. The inductive invariant adds
to the properties that at most one thread is inside; that a scanning thread's nonce is
in none of the slots before its index, and a storing one's in no slot at all; and that
a thread between `Store` and `Count` has its nonce in slot `n + 1`. Without the second part
the append could not be shown to keep the slots different; the third is what makes
`Count` the register's atomic `accepted`, while every other statement maps to a stutter or
to another answer.

**DelegationAuthProofs.** `VerifyDaExSound`: a reported version is that of a signed
delegation that covers the AIC and the agent key. It rests on `ReadBack` (what
`ASN1_INTEGER_get` gives identifies the integer, unless it is -1, which no signed TBS
holds) and `KnownVersionKept` (the cast changes none of the versions 0, 1, 2).
`ReportedDelegated` is the same of the public entry points (`DirectVerify`), from `VerifyDaExSound`.

**AicVerifyProofs.** `TypeCorrect`, `AcceptedDelegated`, `GrantedOnce`, `SpentByValid`,
`VerdictAnswered`. The invariant says what
each step has established: from `replay` on the AIC is valid, at `verify` the chosen
user is a principal of the request, and what was granted is spent, together with, for a
caller at `verify` under REPLAY, that its nonce is spent, not granted, and that no other
caller at `verify` holds the same nonce of the same context. `VerdictAnswered` adds that without
failures a call has reached each step only with the checks before it passed, so that its
answer is the one expression of `AicVerdict`. `AcceptedWhenGenuine` is the way back,
`GenuineAccepted`: without failures and without REPLAY a call has answered what one
expression, `BestVerdict`, says of its request (`Answered`), and for a genuine request under an RSA
or ECDSA key (`UpdateWorks`) that expression has no branch left but the one that accepts.

`GateImplemented` is the refinement of `DelegationGate`, from the same invariants. A step that
stays in the call is a stutter (`GoingOn`); a return is `Grant` or `TurnAway`. The hard one is the
grant with allocations failing: the verdict must be the one that memory would have given. All the
matching candidates have one key (`OneKey`), so that missing one does not change the principal,
and `MemoryOnlyRefuses` says that a delegation which verifies although a TBS or the agent's
SPKI could not be made verifies with them too: the fallback of a version 0 AIC tries version 1
in either case. The ticket is unused because a caller at `verify` holds its nonce (`Claims`).

**VerifyCallbackProofs.** `RegistryWellFormed`, `FlagsInForce`, `FlagsFollowed`,
`NothingForgiven`. `SetEffect` is the lemma on the registry: setting flags gives them to
their address and to no other. The invariant adds that live sessions have different
addresses and that the callback has agreed to every certificate a walk has passed
(`WalkSoFar`), for chains of any length.

**CapabilityParamsProofs.** `DecodedFits`: for literals of any length, whatever fails
where, what `parse_string` decodes and its terminating zero fit the block. The two loops
do not agree on what an escape is, so that counting escapes is not enough. The
invariant keeps the set `E` of the places where the first loop saw one; no two of them are
adjacent. Each step of the second loop writes no more bytes than it passes over less
the members of `E` among them (`CopiedSoFar`): one byte for a plain character,
one for the two of a short escape, at most three for the six of a `\u` escape and four
for the twelve of a pair.

The same module proves `OneOwner`, `NothingLeaked` and `Linked` of the whole check, parser,
printer and validators, for any parameters, any limit on nesting and whatever allocation
fails, as `NoTwoOwners`, `NoLeak` and `ListsAreLinked`. The inductive invariant has two halves.
`Places` says what each part of the code holds while it stands where it stands: the
copy, the tree, the decoded string and the buffer are there in exactly the places that use
them and free them or hand them on. `Blocks` says that the heap is sound, its roots (`Tops`)
being the blocks that a variable of the code points to: the tree, the copy, the string,
the buffer, what was returned, and the list of each container not yet closed. `Sound` is
the conjunction of a forest (each block is owned once, by an item or by being a root, and
each can be reached from a root), of links (the next item leads back, and a container's first
item to the last), and of the lists that are being made (`Lists`). The open containers are
stacked, each a value in the one before (`Stacked`). That `cJSON_Delete` frees all
that hangs from an item and nothing else is an induction over the levels of its recursion:
what it reaches in as many steps as there are live blocks owns nothing outside of it. Each
action then has lemmas of its own.

`PointersAndPlaces` and `PrintsInside` are `TypeOK` and `BufferSafe`, which need more of the parser
and of the printer (`FullInv`). That no piece writes more than it asked `ensure` for (`PieceFits`)
is shown piece by piece: the first loop of `print_string_ptr` counts at least what the second
writes (`StringTokenFits`), the indentation is as wide as the walk is deep, and so on; the
sums are recursive functions, unfolded by an induction of their own. A piece of a string
or a key fits only if there is a string or a key, which is a matter of what was parsed:
`WholeInv` says that until a parse fails every item has its type and a string its value
except those still being parsed (`Completed`), that every member of an object
has a name (`NamesFollow`, `MembersNamed`, `FramesNamed`), and that the other blocks hold text. `WalkInv` leads the printer through such a tree, `TextInv` keeps the parser in its text,
and `BufferInv` says that what was written, with the zero behind it, lies before `length`.

**CapabilityPrintProofs**, on top of `CapabilityParamsProofs`, has the theorem `PrintsTheRendering`.
It states `PrintedText`: the printer, which walks the tree in steps and writes
into a buffer at an offset, and `Rendering`, a recursive function of the tree, give the same text.
What is proved of `pretty` is its text as the code indents it (`TextIsWanted`), from which the
comparison up to whitespace follows (`WantedIsPrinted`).

1. *The text.* A parsed tree has a rank, the levels that `cJSON_Delete` needs (`RankExists`), so
   that `Rendering` is the one function with its equations (`RenderingExists`, `RenderingIsOne`,
   both by the least counterexample over rank and kind). `IsRendered` states those equations.
2. *What is left.* At each place of the walk the text that still has to come is the rest of the
   innermost list and, outwards, the end of each container and the rest of the list that it is in
   (`IsLeft`). Each step splits off exactly what its piece says (`LeftOpen`, `LeftComma` and the
   others of their kind), and a piece says what it asked for (`Says`: it asks for the
   width of its text, or one byte more; for a string `StringSays`: the escaped text is exactly as
   long as the first loop counted).
3. *What is written.* The pieces before the offset are a text as wide as the offset (`Laid`): a
   piece that `update_offset` has not passed yet is not lost, and nothing is written twice.
4. *Both.* `WorkInv`: what is written and what is left make up what is wanted. When `ensure` refuses
   a piece, what was written and the piece do not fit the largest buffer, so that the whole text
   does not (`FailsTooMuch`). When nothing is left, the buffer is cut to the whole
   text (`CutWork`), and `AnswerInv` takes it to the caller past `cJSON_Delete`.

**OpenaicToolProofs.** `ZeroIsRight`: `ZeroMeansDelegated` for every command line. What is proved by
induction is what the code does, that 0 stands for `Delegated` and nothing else
(`ZeroIsDelegated`), which implies the property. The invariant of the
option loop says that the words before the current one are understood, the paths among
them loaded in their order, and that each flag is what the last option about it says. Which
words are options at all, a recursive function (`IsOption`), is first shown to be a
matter of whether the number of `--user` in a row directly before the word is even.
`TypeCorrect` and `AllFreed`: in the option loop all that is allocated
is in `Held`, which both exits free; only a failed `--user` can leave a certificate
outside of it, after a failed allocation.

**AicConfigProofs.** `OnlyPrincipalLost`: of what a call allocates, nothing is lost but the principal that
`NothingElseLost` names; the invariant says which blocks are held at each place of the code
(`WhereHeld`, `CodecHeld`). `TypeCorrect`, `NothingBehindTheEnd` and `OnlyErrFreesTwice`: `TypeOK`,
`BuffersFit` and `FreedOnce` for every section and AIC, whatever allocations fail. They share one
invariant in four parts. `LoopInv`: the decoder has written eight bits for every eight it has
read and not kept (`8 * Len(built) + bits = 6 * pos`), the encoder four characters for every
three bytes, so that what is written follows from the index, and the room from the length.
`PointersInv`: a pointer that is not NULL holds a block, but for `fp` between `FillUid` and the
end of the call, which is why no free but that of `Err` can be a second one. `ControlInv`
and `LineInv` say what is held and which line is current at each place. `DataInv`
says that every text has a length, which the lines of a listing take from the AIC and give
to the section read next. A capability line is sized for three characters a byte of
parameters and holds two.

`SectionIsRead`, `AllIsListed` and `ListingReadsBack` are `ResultIsReading`, `ListingPrinted`
and `ReadsBack` for every section and AIC. They go from the bits to the lines:

1. *The codec.* `DecodeMeans` and `WriteMeans` say what the loops have made so far in terms
   of the single bits of `Spelled`. The decoder's accumulator overflows, but its low twelve
   bits are those of the last two characters (`ShiftedBits`), and a byte is written before it
   needs more (`ByteAbove`). A group of the encoder spells its three bytes (`SextetsSpell`),
   and a last group of one or two bytes leaves only zeros (`LastBitsZero`).
2. *The listing.* `ListInv`: the list is a prefix of `Listing`, as long as the place in
   `i2v_AIC` and the index of the loop say (`Progress`), and from the third line on with a
   fingerprint that spells the key hash. Before the principal is written any fingerprint would
   do, which is why the prefix is stated for every one.
3. *The section.* `ReadInv`: at line `n + 1` the first `n` lines can all be read and the AIC
   is `Described` of them (`Done`); within a line, the capability, the buffer or the codec
   holds what that line says (`Making`). Each kind of line is then one step from
   `Described(section, n)` to `Described(section, n + 1)` (`DescribedStep`), where the count of
   the lines of a name grows by one or stays (`CountStep`). While `authorizationConstraint`
   is read for the first time the list is there but empty, where `Described` still has none.
4. *Both.* `ReadInv` also keeps, across the calls, that what is read again is the listing of an
   AIC that a section of the constants described (`Relisted`). `IsRelisting` gives that section
   line by line, `AgainDescribed` that it describes the same AIC but for `AsListed`
   capabilities, `AgainReadable` and `AgainValid` that it is accepted, and `AgainSame` that
   nothing changed exactly if there were no parameters: twice a length is not the length,
   and an empty parameter is read as none. `ListingReadsBack` states the half of it that the
   documentation promises.

   The induction is on what the code does (`Reading`, `ListedExactly`), and the three properties
   follow from it. A version survives because a valid one has a single digit, which `num` keeps
   (`DigitStays`).

Only model-checked:

- `EveryCheckReturns` and `EveryCallReturns`: liveness under fairness is out of the prover's reach.
- `ParsedIsJson`, `PrintingIsStable` and `MaxValidated`: they compare the parser
  with recursive functions over data of any depth. The library's induction theorems take an
  operator as a parameter and cannot be instantiated; where a proof needs an induction
  (the sum of a sequence, the levels of a heap, the text of a tree) it is done for that one
  predicate, through the least counterexample. A second description of the grammar would need one
  such induction for each of its rules.

## 6. Not modelled

- Bytes: DER, base64, PEM, and the strength of cryptography.
- Races on the registry: its functions are atomic steps. In `replay_unlocked` a
  statement of `AIC_replay_check` is atomic, and a realloc under a running scan is not
  represented; the violation needs neither.
- `aic_verify_cb` with a context that has no certificate (raw public keys).
- Texts with NUL bytes, and a colon inside the realm of a decoded certificate, which the
  listing would not tell from the one behind it.
- The parts of cJSON that libopenaic never calls (building by hand, comparing, detaching,
  duplicating, minifying, references), the digits of a number, and locale.
- What d2i and i2d, generated from the templates, do with bytes.
- The parts marked not modelled in section 1: the patch, the build and the tests keep no
  state of the program.

## 7. Plan

Done: every part of `src/`, `lib/openaic.c`, the tool and the part of cJSON they use, as
modules and runs, and theorems about each of them.

Next: a proof that the parser of cJSON agrees with the grammar (`ParsedIsJson`), which needs one
induction for each rule of the grammar; `MaxValidated` and, with `PrintsTheRendering`,
`PrintingIsStable` would follow from it.

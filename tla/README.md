# A verification development for fiducia-routing

`fiducia-routing` decides in which shard (one Raft group) a key lives. Load balancers,
nodes, the brain and operator tools all link it; if two of them ever compute different
shards for one key, "the load balancer would route a request to one shard while the data
plane stored it in another" (`src/src/lib.rs:3`). The library is pure, so its own code has
no concurrency: the hard behaviour is what happens when several programs, each with its own
copy of the region list or of the lock-routing mode, call it at different moments. This
directory models the library, line by line, and those compositions, checks them with TLC and
proves the main results with TLAPS for every value of the constants.

## 1. Inventory

| Part | State | Operations | Interactions | What makes it correct |
|---|---|---|---|---|
| Hash `fnv1a` (`lib.rs`) | one 32-bit word per call | absorb a byte | everything below hashes with it | frozen: the digests and shards in the tests never move |
| Key framing (`lib.rs`, `lock_coordination.rs`) | none | `org_scoped_key`, `org_scope_prefix`, `lock_coordination_domain_key`, reserved keys | LB and node scope before they hash; nodes list by prefix | framing is injective and the keyspaces are disjoint, whatever characters a key holds |
| Routing (`lib.rs`) | none | `shard_for`, `shard_for_region`, `region_index[_or]`, `route_shard` | called by LB, node, brain, CLI | total, in range, bands tile the cluster, a global key ignores regions |
| Customer regions (`lib.rs`, `Region`) | none | `parse`, `index`, `cluster_name`, `nearest_to`, `shard_for_customer_region` | CLI; index order must be the topology's | agrees with `route_shard` over the topology list |
| Request path (LB, node, store: other repositories; ARCHITECTURE.md section 4) | LB region lists, shard contents, requests in flight | forward, commit, read, reload, lose | the same key is routed twice, by different programs | global keys are registers with one home; regional data stays home; orgs are isolated |
| Lock coordination (`lock_coordination.rs`) and the migration to DomainV1 | routing mode of each participant, lock tables, requests | ask, grant, release, give up, drain, switch, resume | every participant predicts the shard of a domain | union locks are exclusive, no lock is stranded, every lock comes free |
| Service discovery routing (`lib.rs`) | registry under one key (other repository) | `service_discovery_shard`; register, deregister, list, look up | LB and node, next to the locks, in the same migrations | one shard, disjoint from all other keys; a list is one state of the whole registry |
| Operator tool `fiducia-region` (`src/src/bin`) | settings, remaining arguments | one step per argument, answer | environment, `with-flags2env.sh` | answers what was asked, with the shard requests use |
| `scripts/with-flags2env.sh`, `.cli-flags.toml` | flags collected, environment of the child | split at `--`, find the parser, export, exec | flags2env (other program), then the tool | a flag means the same in front of `--` as behind the tool's name |
| `formal/model.py` | the lines read, the outputs not yet emitted | the mapping functions once more, replay | conformance runner | answers what the library answers, fails where it panics, prints nothing of a file it cannot answer |
| `.just/dotenv.py` | none | `parse`, rendering in three modes | every recipe that starts something pipes through it | a value means the same to a shell, docker and Kubernetes, or is refused; an escape is read once |
| Recipes of `.just/env.just` | ciphertext files (committed), plaintext files (local), recipes under way | decrypt, encrypt, edit, new, run, docker-run, docker-env-file, k8s-secret, clean; rekey, keygen, reports | git, sops, the developer's editor, several recipes at once | a recipe that stops anywhere leaves whole files; what is started has its variables; a readable ciphertext stays readable (the last two fail, see the findings) |
| Contracts, `.ores-lint`, Docker, Nix, CI | none between runs | | | not modelled: declarations, vendored lint rules, pipelines |

What is hard here: two routing calls for one request made by programs whose inputs differ
(stale region lists, mixed lock-routing modes); the boundary arithmetic of the bands on
unsigned words; framing whatever characters a key holds; a lock that is held, released and
asked for under different modes while a migration is under way; two implementations of one
mapping on integers of different kinds; in the tool and its wrapper, the many orders of variables, flags and early returns;
and, in the environment recipes, commands that fail between two writes while git or another
recipe changes the same files. The `hazards` list of PROJECT.json names the line of each.

## 2. Modules

A module models a component; `...Proofs` modules hold theorems about it; `MC...` modules
give TLC its constants. A definition has the name of the function it translates
(`shard_for_region`, `org_scoped_key`, ...). A Rust panic is a predicate
`<function>_panics` of the arguments. Definitions whose comment begins with "Mutant:" are
plausible bugs, each of which breaks the property PROJECT.json pairs it with; nothing in the
models uses them.

| Module | Models | State and actions |
|---|---|---|
| `HashWords` | the words of the hash, held as two 16-bit halves (TLC's integers have 31 bits): exclusive or, product, remainder, one turn of the loop | operators |
| `Fnv1a` (extends `HashWords`) | the hash, byte by byte | `key`, `i`, `hash`; `Absorb` is one turn of the `for` loop |
| `KeyFraming` | framed keys as sequences of symbols, the control characters apart from text | operators |
| `Routing` | all routing functions over an arbitrary hash; u32 arithmetic wraps at `WordSize` | operators |
| `RouteCalls` | any caller making any call of `shard_for_region` or `route_shard` | `call`; one action per function |
| `FormalModel` (extends `KeyFraming`, `Routing`) | the functions of `formal/model.py` and its replay adapter | `replay`, `input`, `at`, `outputs`, `emitted`; `StartReplay`, `ReadLine`, `EndOfInput`, `Emit`, `Killed`, `Again` |
| `Conformance` (extends `RouteCalls`, `FormalModel`) | library and model side by side: what one answers, the other must | those of both, one thing at a time |
| `DataPlane` (extends `KeyFraming`, `Routing`) | LB and node routing the same request with their own region lists | `lbRegions`, `store`, `client`; `ForwardPut`, `ForwardGet` (LB), `NodePut`, `NodeGet` (node), `Finish` (done, or lost on the way there or back), `Reload` |
| `RegisterMap` | abstract: a fixed set of atomic registers | `reg`, `call` |
| `LockRouting` (extends `KeyFraming`, `Routing`) | participants with a mode each, a lock table per shard, the coordinated migration | `mode`, `target`, `admitting`, `table`, `request`; `Ask`, `Grant`, `Release`, `GiveUp`, `Drain`, `Switch`, `Resume` |
| `LockTable` | abstract: one table of union locks per domain | `lock` |
| `Coordination` (extends `LockRouting`) | the service registry next to the lock tables, routed by the same participants during the same migrations | `registry`, `query`; `Register`, `Deregister`, `AskServices`, `AnswerServices`, `ForgetServices`, and every step of `LockRouting` |
| `ServiceDirectory` | abstract: one directory of services, questions and answers | `directory`, `query` |
| `CustomerRegion` (extends `Routing`) | `Region` and its functions | operators |
| `Dotenv` | the rules for one value: quotes, every escape of `unicode_escape`, the three renderings, and how their consumers read | operators |
| `DotenvConsumers` (extends `Dotenv`) | a value on its way to a program | `raw`, `mode`, `pc`, `text`; `Parse`, `Render`, `Read` |
| `EnvVault` | the recipes, step by step, over ciphertext and plaintext files | `enc`, `dec`, `proc` (step, names to do, what has been read); initially each file is there or not; an action per step of a recipe, `Die`, `LocalEdit`, `Pull` |
| `RegionCli` (extends `CustomerRegion`) | the whole of `main`: variables, argument loop, answer | `env`, `argv`, `pc`, `rest`, `settings`, `outcome`; one action per arm of the loop's `match` |
| `FlagWrapper` (extends `RegionCli`) | `with-flags2env.sh` in front of the tool, or the tool alone | `inherited`, `flags`; `Collect`, `FindParser`, `Refuse`, `ExportAndExec`, then every step of the tool |

Abstractions and why they lose nothing the properties see:

- *Hash.* `Routing` takes `fnv1a` as any function from keys to words, so what is proved
  about routing holds for every hash; `Fnv1a` checks the concrete one, in halves whose
  arithmetic is proved to be that of a u32. The runs choose hashes
  that tell the keys apart.
- *Strings.* A framed key is a sequence of symbols in which the delimiter, NUL, constant tags
  and decimal numbers are single symbols: the constant tags and the digits contain no control
  character, which is all the framing relies on. `DomainKeyInjective` needs the length prefix
  nowhere but where the code puts it. A region name is its lower-case letters plus two flags
  (has capitals, has white space), since trimming and ASCII case are all the code looks at.
- *Distances.* `nearest_to` only compares distances, so they are a constant function into
  the naturals. They are never NaN: `haversine_km` clamps with `min(1.0)` and `max(0.0)`, and
  `f64::min`/`max` return the other argument when one is NaN.
- *Word width.* 2^32 in the code, any `WordSize > 1` in the proofs, 8, 16 or 512 in the runs.
- *Request path.* A put is applied in the shard the node computes; a get is answered by the
  shard the LB chose, as ARCHITECTURE.md section 4 describes. Raft, leader caches and
  redirects are below this level: a shard is one copy that acts atomically. A value carries
  the org and the region it was written for (ghost data, so that an answer shows its origin).
- *Migration.* The library only says "explicit, coordinated"; the model takes the least
  that can mean: admission of new requests stops, what is held or asked for drains,
  participants switch one at a time, admission resumes. Any number of migrations in either
  direction happens. The cluster starts with locks in place, placed as the release before
  modes existed placed them.
- *Service discovery.* The registry is another program's, modelled from the one sentence the
  library has about it: all discovery state lives under one reserved key. A registration and
  its end are atomic in the shard they are routed to; a question is routed when it is asked
  and answered later. Instances, addresses and expiry are one bit: registered or not.
- *The Python model.* Its integers are unbounded, so the operators of `FormalModel` have no
  `u32`; every exception ends the run and is one `ValueError`. Key scopes are strings there,
  and any other string than the two names is refused. Names are ASCII, where `casefold` and
  `eq_ignore_ascii_case` agree. `ShardCount` keeps the files below 2^32: the adapter answers
  a larger count, the library has no such request. What the adapter prints is a list of
  answers; JSON and line ends are left out.
- *The wrapper.* flags2env is another program: it accepts the words `--flag=value` and
  `--list`, refuses others (`allow_unknown = false`) and, as it likes, counts the tool cannot
  use, and prints the exports of what it was given. Which of the three builds is found makes
  no difference to what follows, so it is one choice, beside finding none.
- *Environment files.* A character is its code point, and a double-quoted value is decoded the
  way Python does it: from its UTF-8 bytes, read one by one, with all escapes (`\n` and its
  like, octal, `\xHH`, `\uXXXX`, `\UXXXXXXXX`, `\N{...}`) and the failures of malformed ones.
  Which names `\N{...}` knows is a constant. Files and output are UTF-8. A surrogate, which only
  an escape can bring, cannot be encoded and ends the run; this is a refusal in every mode, and
  what a failing run may have printed by then is not followed (`shell` and `k8s` print variable
  by variable). In `EnvVault` a file is the raw value of each variable; how raw values are parsed
  and rendered are two constant functions, which `MCEnvVault` takes from `Dotenv`. sops is
  external: it encrypts a file or fails, and `sops edit` writes its result in one step. A
  ciphertext file is the text sops reads from it; which of its values a fold encrypts anew is
  sops' own affair and not modelled. A recipe that exits early, fails under `set -e` or is
  killed leaves the files as they are at that step, which is the one action `Die`; the places
  where the code goes on after a failure (`Run`, `K8sSecret`) are disjuncts of their own. A
  temporary file lives in its recipe's `buf`; what an interrupted recipe leaves of it is not
  modelled. `Pull` brings a new environment or a new version of one.

## 3. Properties and runs

Each run below is checked to the end of its state space. Deadlock is checked everywhere but
in `hash`, `dotenv` and the `cli` runs, where a computation ends.

| Run | Checks | Instance | Shows |
|---|---|---|---|
| `hash` | `FrozenLayout` | the 19 keys the tests freeze, as UTF-8 bytes | every frozen digest and every frozen shard, of 16, 256 and 1024 shards |
| `calls` | `BandsMatchReference`, `RouteIsTotal`, `RouteResolvesRegion`, `ModelAgrees`, `ReplayIsFaithful` | 3-bit words: all 8^4 combinations of index, count, hash and shard count; 12 spellings of names; all lists of up to 3 entries over 3, duplicates and padded entries included; all files of up to 3 lines out of 9, blank, malformed and refused ones among them, stopped anywhere | the code's arithmetic equals a reference that lists a region's shards and counts into the list, and the Python model's on unbounded integers; only a cluster without shards panics; names resolve to the first match; a replay prints the library's answers under the right line numbers, and nothing of a file with a line that cannot be answered |
| `drift` | `TypeOK`, `GlobalSingleHome`, `RegionalDataStaysHome`, `GlobalKeysAreRegisters` | 2 clients, an LB that reloads between 2 lists (one lacks the primary region), a global and a regional key, 2 payloads, 5 shards over 2 regions (uneven bands) | stale lists never split a global key or misplace regional data |
| `stable` | `RegionScoped`, `OrgIsolation`, `AllKeysAreRegisters` | 2 clients, orgs `a` and `ab`, keys that complete one id to the other (one global, one regional), a padded and a plain region name, one list | each (org, key, region) is an independent register |
| `few_shards` | `RegionScoped` (violated) | 3 regions, 2 shards | finding, see below |
| `locks` | `TypeOK`, `MutualExclusion`, `NoStrandedLocks`, `DomainInOneShard`, `UnionLocksAreOneTable`, `LocksComeFree`, `ServicesAreOneDirectory` | 2 clients, 2 participants, a tenant and a shared domain of the same id, 2 lock names, a hash that separates legacy, domain and discovery shards; 2 services and a watcher next to them | the sharded, migrating lock tables are one table; a lock that is held comes free in whatever mode its release is routed; the registry is one directory throughout |
| `cli` | `AnswerIsWhatWasAsked`, `OperatorSeesRequestShard`, `WrapperAnswersAsTool` | all command lines of up to 4 arguments over 12 words, and of up to 2 over these and one that is not Unicode, 9 environments; behind the wrapper, up to 3 flags out of 11 and 6 rests | the loop computes what the command line means as a whole; the tool's shard is the request path's; it does not matter which flags go through the wrapper and what its environment held before |
| `dotenv` | `ConsumersAgree`, `OnePass` | all raw values of up to 4 of 6 characters; between double quotes, all of up to 3 of them, and every beginning of 12 escapes, well-formed and malformed, and of a character outside the BMP, each followed by another of them or by an escaped backslash; in 3 modes | quoting, escaping and refusing fit together: whoever gets a value without NULs gets the parsed one; no escape is read twice |
| `cli_panic` | `NeverPanics` (violated) | shard counts 1, 2 and 8 | finding, see below |
| `vault` | `PublishedPlaintextIsWhole` | two recipes at a time over an environment that may not exist yet, 2 variables, a value docker takes and one it refuses; edits and pulls at any time | wherever recipes stop and however they interleave, no plaintext file is half decrypted |
| `vault_run` | `RunHasItsVariables` (violated) | an environment, values that do not parse among them | finding, see below |
| `vault_race` | `SealedStaysReadable` (violated) | two recipes and an environment that may not exist yet | finding, see below |

Why the bounds are enough: words of 3 bits contain every relation of index, counts and hash
that the clamp, the floor and the remainder tell apart, and the proofs remove the bound. Two
clients are what it takes for a read to overlap a write; two lists, one of them with another
primary, are what it takes for two calls to disagree; two lock clients are a holder and a
conflicting asker, which is all that exclusion, a stranded entry and a migration that waits
are about (the proofs cover any number). A file of three lines has room for an answer before
and after the line that stops the adapter. Three flags are two settings and one that is given
twice. Bounds in cfg files: the number of clients, load balancers, participants, payloads and
shards, the command-line length; nothing else is capped. Three characters between quotes are
enough for an escaped backslash before a letter, and an escape, cut anywhere, in front of another
one for what one can do to the next. Two recipes on one file are what it takes for one to read
what the other then replaces; that a recipe works through a list of names, and that there are
several files, adds nothing between two recipes, and the proofs have any number of both. No run has a constraint on explored states.

Fairness. Only `locks` assumes any (`Fairness` in `LockRouting`): weak fairness of a holder's
`Release` (`Releases`). A client that holds for ever is another program's fault: locks have
owners that let go of them. Nothing is assumed of any other action: nobody has to want a lock,
no shard has to grant one, no migration has to start or to go on. Under this `LocksComeFree`
says that a release, which is routed when it is sent and by the mode of that moment, finds what
the request left. Nothing else has a liveness property. The library itself promises no progress;
that a migration ends depends on the programs that carry it out, whose procedure is not in this
repository and of which the model only has what the library requires. A loop over arguments or
lines ends by its shape.

### Findings

1. `cli_panic`: `--shards 1` or `2` with a region and a key reaches the library's
   assertion, although ARCHITECTURE.md:340-344 says every error is a short message.
2. `few_shards`: the fallback of `route_shard` for fewer shards than regions merges the
   regions' copies of a key; the comment there says only leader locality is lost.
3. `vault_run`: `env-run` executes the command, and `env-k8s-secret` prints a Secret, without
   the variables when decryption fails; `env-docker-run` documents and avoids this.
4. `vault_race`: `env-new` and `env-encrypt` look for the ciphertext first and truncate it
   later (`> "$dst"`); when another recipe, or a pull, has brought the file in between, a readable
   ciphertext is emptied, and stays so if the recipe stops there. The ciphertext is documented as
   the source of truth, and `env-new` as leaving a file that exists alone.

Other disagreements have no run. `region.or(nearest)` lets `FIDUCIA_REGION` beat a place given by
`--lat` and `--lon` (`fiducia-region.rs:63`), and an invalid one ends the run although `--region`
follows (line 18); ARCHITECTURE.md:338-340 says that flags take precedence. An escape can bring a
NUL into a value (`"\0"`): the shell's `$(...)` (`env.just:148`) drops it and a Secret keeps it,
where `dotenv.py:6` and `env.just:146` say that consumers agree; `ConsumersAgree` leaves such
values out. `dotenv.py:10` lists four escapes, `unicode_escape` (line 52) takes all of Python's,
so that `"\x0a"` is a line end too. A double-quoted value outside ASCII is decoded as Latin-1
(line 52), where the documented rules only strip quotes and expand escapes. `env-encrypt` after
a pull or an `env-edit` puts the older values of `env/dec` back, which the documents call
disposable. `env-docker-env-file` leaves rendered
values in the file `env-encrypt` reads. After an `env-new` whose sops call fails, the empty
file makes the next `env-new` say that the environment exists. `env/README.md:58` says that
`.envrc` auto-loads `env/dec/local.env`, while `.envrc` says that nothing is auto-loaded and
loads nothing.

## 4. Proofs

All theorems are checked by TLAPS with no assumption but the named ASSUMEs of the modules and
the hypotheses stated in a theorem. The ASSUMEs say that the hash is a function into words, org
ids contain no delimiter, the shard count is a positive word, keys in use can be hashed, region
lists are lists; and of the tool that distances are naturals (`DistanceAssumption`), what parses
as a float or as a count has its type (`ParseAssumption`), a word `--flag=value` stands for a
flag of `.cli-flags.toml` and a text (`AssignmentAssumption`), and the command lines given to
the wrapper are sequences of texts (`WrapperLinesAssumption`); and of the environment files that
Python's names of characters name code points (`NamesAssumption`), raw values are texts without
line ends and surrogates (`RawAssumption`), and every file gives each variable a text. TLC evaluates
each in a run.

`SequenceLemmas` has what several proofs share: the least and the greatest number of a set,
induction over positions, and joins (a sequence of texts flattened into one). The induction is
on a set (`SetInduction`: a set of naturals that has 0 and all successors has them all), which
the provers can instantiate, where the library's induction schemes take an operator.

- `RoutingProofs`: `ShardInBand`, `BandsDisjoint`, `BandsTile`, `RouteShardTotal`,
  `RouteInRange`. The core is that none of the u32 operations wraps where the assertions hold;
  after that the bands are plain division arithmetic. And `ProductOfHalves` and
  `RemainderOfHalves`: on every word the halves of `HashWords` compute `wrapping_mul` by the
  FNV prime and `% num_shards`, which leaves to the run of `Fnv1a` the order of the two operations
  and the frozen vectors themselves. `AbsorbLosesNothing`: one turn of the loop is injective in
  the hash and in the byte, so two keys of one length that differ in a single byte never have
  one hash. The prime is invertible modulo 2^32 (the inverse is in `PrimeInverse`), and the
  exclusive or is followed digit by digit; an even multiplier, or one cut to fewer bits, would
  break it.
- `ConformanceProofs`, first part: `RouteIsTotal`, `RouteResolvesRegion` and
  `BandsMatchReference` as invariants. For the last one the reference, which names the n-th
  shard of a region by how many of its shards lie below it, is shown to count along an
  interval.
- `ConformanceProofs`, second part: `SpecModelAgrees` (where the library does not panic none
  of its words wraps, and the rest is the same division) and `SpecReplayIsFaithful`, by the
  inductive `ReplayInv`: outputs are the library's answers, in line order, to exactly the
  requests read so far, and what is emitted is the first of them. `ConformanceKeepsCalls`
  carries the results about library calls over to the composition.
- `DataPlaneProofs`, first the keys both sides frame: `ScopedKeyInjective`,
  `PrefixFilterExact`, `StripInverse` (the per-org keyspace), `DomainKeyInjective`, and
  `KeyKindsDisjoint`: scoped, reserved and lock-domain keys never meet. The key lemma is that the org id ends at the
  second delimiter of a scoped key, which uses only that org ids contain none.
- `DataPlaneProofs`, global keys: `SpecTypeOK`; `SpecGlobalSingleHome` by the inductive
  `HomeInv` = types, every copy of a global key is at `shard_for` of its scoped key, every
  request for it is headed there (the property alone is not inductive: it does not say *where*
  a first copy may appear); `SpecGlobalKeysAreRegisters`, a step-by-step refinement of
  `RegisterMap` that uses `HomeInv` and `ScopedKeyInjective` (a write changes no other
  register).
- `DataPlaneProofs`, regional keys: `SpecRegionalDataStaysHome`, `SpecOrgIsolation`, by the
  inductive `StoreInv`, which gives each stored value an origin (an org, a key and a region
  name whose routing leads to that shard); `SpecRegionScoped` by `AgreeInv`, which adds that
  every request heads where the cluster's list sends it; `SpecAllKeysAreRegisters` from the
  same invariant, a refinement in which two slots that share a shard and a scoped key are one
  slot, because bands are disjoint. The hypotheses that the cluster can band at all are
  necessary: `few_shards` shows what happens without.
- `LockRoutingProofs`: `SpecTypeOK`, `SpecMutualExclusion`, `SpecNoStrandedLocks`,
  `SpecDomainInOneShard`, `SpecUnionLocksAreOneTable`, by the inductive `LockInv`:
  participants' modes agree while requests are admitted, and every request sits in the shard
  all modes name. A switch is safe because it finds no request; the two facts are only
  inductive together. `CoordinationKeepsLocks` carries all of it over to the composition with
  the registry, and `SpecServicesAreOneDirectory` refines `ServiceDirectory` there.
- `LockRoutingProofs`, progress: `SpecLocksComeFree`, of `FairSpec` under the hypothesis
  `[]HoldersCanRelease`: the table entry of a client is there only while the client holds
  (`LockInv`), it holds until its own release is taken, that release is enabled meanwhile (the
  hypothesis), and it empties the entry because it is routed to the shard the entry is in. The
  hypothesis stays one because the prover has no rule for ENABLED; `Release` is guarded by
  nothing but that its client holds a lock.
- `EnvVaultProofs`: `SpecPublishedPlaintextIsWhole`, for any number of recipes, environments and
  variables, by the inductive `VaultInv`, which says what each file can hold and what a recipe
  has in hand at each step: a plaintext is whole because a recipe at its `move` holds a whole
  text.
- `DotenvProofs`: for raw values of any length, with any escapes and whatever names Python
  knows, `SpecConsumersAgree` and `SpecOnePass`. The recursive functions of `Dotenv` are first
  shown to satisfy their own equations, then followed from the end of a text to its start.
  `ShellQuoteInverse` is the hard part of the first: a text is quoted into one piece per
  character, and a shell that reads a piece inside quotes gets that character and is inside
  quotes again behind it, though the piece for a quote leaves and re-enters them. Of the second
  it is `DecodeHalves`: from a position with an even number of backslashes before it, a text in
  which they come in pairs decodes to one that, doubled again, gives it back.
- `FlagWrapperProofs`: `SpecAnswerIsWhatWasAsked`, for command lines of any length over any
  words, and the same behind the wrapper; `SpecOperatorSeesRequestShard`;
  `SpecWrapperAnswersAsTool`. The property speaks of the line as a whole, in which the last
  occurrence of a flag counts, while the loop sees one argument at a time. So the inductive
  `ToolInv` carries `ReadSoFar`: for each setting, either the rest of the line still has its
  flag, and the last one there is the last one of the whole line, or the setting is already
  what the line and the environment ask for; `LastShift` is what one argument does to that.
  `EntryPointsAgree` and `NearestIsNearest` (the nearest region, of several the first in the
  order of `ALL`) show that the shard an operator is shown is `route_shard`'s over the topology. For the wrapper, `FlagsOrVariables` says that flags
  exported as variables choose the same word for every setting as the same flags in front of
  the line; it needs that the schema gives no two flags one variable (`SchemaIsOneToOne`).

`SpecWrapperAnswersAsTool` is about what is printed: runs that end in an error are not compared,
and may differ (a bad `FIDUCIA_REGION` in the environment is replaced by a `--region` in front of
`--`, and ends the run before a `--region` behind it is read).

Left to TLC: `FrozenLayout`, the outcome of computing 19 concrete keys, of which a proof would
only repeat the computation. All other properties of passing runs are proved for every value of
the constants, under the hypotheses named above.

## 5. Plan

Done: modules and proofs above. Left, in this order:

1. `EnvVault`: what the values mean after a rendering has been folded back or an older
   plaintext has won over a pull; `env-rekey`, which can stop half way through the files; what
   interrupted recipes leave in `env/dec`, which `env-clean` does not look for.
2. The request path with leader caches and redirects, as far as ARCHITECTURE.md describes
   them, and what a client's retry of a lost put does to its register.
3. The line syntax of `dotenv.py` around one value, and what a run that is refused half way has
   printed.

Not modelled: `verify()` of `formal/model.py` (a loop over fixed lists) and
`formal_wave5_model.py` (compares two constants); flags2env itself; `env-keygen` and the recipes
that only report; JSON and TypeSpec contracts (declarations), `.ores-lint` (vendored textual
lint), Docker, Nix and CI definitions, the test code itself (used to find the frozen values
and the documented expectations).

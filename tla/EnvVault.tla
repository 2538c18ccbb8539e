------------------------------ MODULE EnvVault ------------------------------
(***************************************************************************)
(* Encrypted environment files (.just/env.just).  One working copy holds   *)
(* env/enc/<name>.env.enc, committed, and env/dec/<name>.env, local.       *)
(* Recipes run step by step, several at a time, and may be killed or fail  *)
(* between any two steps; the developer edits plaintext files, and git     *)
(* brings new ciphertext of other developers.                              *)
(*                                                                         *)
(* A file is a text, the raw value of each variable; a ciphertext file is  *)
(* the text that sops reads from it, if it can.                            *)
(*                                                                         *)
(* A step of sops that fails and a recipe that is killed come to the same  *)
(* (set -e), and are both Die, except where the code goes on after a       *)
(* failure.                                                                *)
(***************************************************************************)
EXTENDS Naturals, Sequences, FiniteSets, Functions

CONSTANTS
  Proc,       \* recipes that may run at one time
  Env,        \* names of environments
  Var, Raw,   \* variables and their raw values
  meaning,    \* what dotenv.py makes of a raw value, or Broken if it fails
  envfile,    \* what it renders for docker --env-file, or Broken if it refuses
  Template,   \* the text of a new environment
  Pulled,     \* texts that other developers commit
  Absent,     \* no file, nothing read
  Zeros,      \* a file overwritten with zeros
  Broken      \* truncated: what a command has printed before it failed

Text == [Var -> Raw]

ASSUME TextAssumption ==
  /\ Template \in Text
  /\ Pulled \subseteq Text
  /\ \A r \in Raw : envfile[r] \in Raw \cup {Broken}

ASSUME FileAssumption ==
  /\ Absent # Broken /\ Zeros # Broken /\ Absent # Zeros
  /\ {Absent, Zeros, Broken} \cap Text = {}
  /\ Broken \notin Raw

VARIABLES
  enc,      \* ciphertext files
  dec,      \* plaintext files
  proc      \* running recipes

vars == <<enc, dec, proc>>

\* A recipe at a step: the names still to do, the first of them in hand, the ciphertext
\* it has read and the plaintext it holds.
Frame(pc, todo, base, buf) == [pc |-> pc, todo |-> todo, base |-> base, buf |-> buf]

Idle == Frame("idle", <<>>, Absent, Absent)

\* An environment may be there as ciphertext, as a plaintext file that a developer wrote,
\* or both.
Init ==
  /\ enc \in [Env -> {Absent, Template}]
  /\ dec \in [Env -> {Absent, Template}]
  /\ proc = [p \in Proc |-> Idle]

-----------------------------------------------------------------------------
\* The control of a recipe.

At(p, pc) == proc[p].pc = pc
name(p) == Head(proc[p].todo)
GoTo(p, pc, base, buf) ==
  proc' = [proc EXCEPT ![p] = Frame(pc, proc[p].todo, base, buf)]
Exit(p) == proc' = [proc EXCEPT ![p] = Idle]
NextName(p, recipe) ==
  IF Len(proc[p].todo) = 1 THEN Exit(p)
  ELSE proc' = [proc EXCEPT ![p] = Frame(recipe, Tail(proc[p].todo), Absent, Absent)]

NameLists == {s \in UNION {[1 .. k -> Env] : k \in 1 .. Cardinality(Env)} : IsInjective(s)}
OneName   == {s \in NameLists : Len(s) = 1}

Names(recipe) ==
  CASE recipe \in {"decrypt", "encrypt"} -> NameLists
    [] recipe = "clean" -> {s \in NameLists : Range(s) = {n \in Env : dec[n] # Absent}}
    [] OTHER -> OneName

Recipe == {"decrypt", "encrypt", "edit", "new", "run", "docker-run", "docker-env-file",
           "k8s-secret", "clean"}

Start(p) ==
  /\ At(p, "idle")
  /\ \E recipe \in Recipe : \E todo \in Names(recipe) :
       proc' = [proc EXCEPT ![p] = Frame(recipe, todo, Absent, Absent)]
  /\ UNCHANGED <<enc, dec>>

Die(p) == ~At(p, "idle") /\ Exit(p) /\ UNCHANGED <<enc, dec>>

-----------------------------------------------------------------------------
\* env-decrypt and env-docker-env-file: through a temporary file, moved into place.

\* Mutant: the output is opened in place.
OpenTemp_in_place(p) ==
  /\ proc[p].pc \in {"decrypt", "docker-env-file"}
  /\ enc[name(p)] # Absent
  /\ GoTo(p, IF At(p, "decrypt") THEN "decrypt-sops" ELSE "envfile-sops", Absent, Broken)
  /\ dec' = [dec EXCEPT ![name(p)] = Broken]
  /\ UNCHANGED enc

OpenTemp(p) ==
  /\ proc[p].pc \in {"decrypt", "docker-env-file"}
  /\ enc[name(p)] # Absent
  /\ GoTo(p, IF At(p, "decrypt") THEN "decrypt-sops" ELSE "envfile-sops", Absent, Broken)
  /\ UNCHANGED <<enc, dec>>

FillTemp(p) ==
  /\ proc[p].pc \in {"decrypt-sops", "envfile-sops"}
  /\ enc[name(p)] \in Text
  /\ LET text == enc[name(p)]
     IN  \/ At(p, "decrypt-sops") /\ GoTo(p, "move", Absent, text)
         \/ /\ At(p, "envfile-sops")
            /\ \A v \in Var : envfile[text[v]] # Broken
            /\ GoTo(p, "move", Absent, [v \in Var |-> envfile[text[v]]])
  /\ UNCHANGED <<enc, dec>>

Move(p) ==
  /\ At(p, "move")
  /\ dec' = [dec EXCEPT ![name(p)] = proc[p].buf]
  /\ NextName(p, "decrypt")
  /\ UNCHANGED enc

-----------------------------------------------------------------------------
\* env-encrypt, env-edit, env-new

\* An existing ciphertext is edited; sops reads it first.
EncryptFile(p) ==
  /\ At(p, "encrypt") /\ dec[name(p)] # Absent
  /\ \/ enc[name(p)] \in Text /\ GoTo(p, "copy", enc[name(p)], Absent)
     \/ enc[name(p)] = Absent /\ GoTo(p, "encrypt-truncate", Absent, Absent)
  /\ UNCHANGED <<enc, dec>>

\* The editor is a copy of the plaintext, as it is now.
CopyAsEditor(p) ==
  /\ At(p, "copy") /\ dec[name(p)] \in Text
  /\ GoTo(p, "fold", proc[p].base, dec[name(p)])
  /\ UNCHANGED <<enc, dec>>

\* Exit code 200, nothing has changed, is no failure.  sops replaces the file, whatever has
\* become of it since sops read it.
Fold(p) ==
  /\ At(p, "fold")
  /\ \/ proc[p].buf = proc[p].base /\ UNCHANGED enc
     \/ proc[p].buf # proc[p].base /\ enc' = [enc EXCEPT ![name(p)] = proc[p].buf]
  /\ NextName(p, "encrypt")
  /\ UNCHANGED dec

\* The shell opens the output before it starts sops.
Truncate(p) ==
  /\ proc[p].pc \in {"encrypt-truncate", "new-truncate"}
  /\ enc' = [enc EXCEPT ![name(p)] = Broken]
  /\ GoTo(p, IF At(p, "new-truncate") THEN "new-write" ELSE "encrypt-write", Absent, Absent)
  /\ UNCHANGED dec

EncryptNew(p) ==
  /\ At(p, "encrypt-write") /\ dec[name(p)] \in Text
  /\ enc' = [enc EXCEPT ![name(p)] = dec[name(p)]]
  /\ NextName(p, "encrypt")
  /\ UNCHANGED dec

\* sops opens an example when there is no file.
EditFile(p) ==
  /\ At(p, "edit") /\ enc[name(p)] \in Text \cup {Absent}
  /\ GoTo(p, "save", enc[name(p)], Absent)
  /\ UNCHANGED <<enc, dec>>

Save(p) ==
  /\ At(p, "save")
  /\ \E text \in Text \ {proc[p].base} : enc' = [enc EXCEPT ![name(p)] = text]
  /\ Exit(p)
  /\ UNCHANGED dec

New(p) ==
  /\ At(p, "new") /\ enc[name(p)] = Absent
  /\ GoTo(p, "new-truncate", Absent, Absent)
  /\ UNCHANGED <<enc, dec>>

NewWrite(p) ==
  /\ At(p, "new-write")
  /\ enc' = [enc EXCEPT ![name(p)] = Template]
  /\ Exit(p)
  /\ UNCHANGED dec

-----------------------------------------------------------------------------
\* env-run, env-docker-run, env-k8s-secret: "buf" is what the program that is started,
\* or whoever applies the Secret, has been given.

Parsed(n) == enc[n] \in Text /\ \A v \in Var : meaning[enc[n][v]] # Broken

\* The status of the pipeline inside `eval "$(...)"' is lost.
Run(p) ==
  /\ At(p, "run") /\ enc[name(p)] # Absent
  /\ \/ Parsed(name(p)) /\ GoTo(p, "running", Absent, enc[name(p)])
     \/ GoTo(p, "running", Absent, Broken)
  /\ UNCHANGED <<enc, dec>>

\* "Materialise and validate BEFORE invoking docker": here a failing pipeline ends the recipe.
DockerRun(p) ==
  /\ At(p, "docker-run") /\ enc[name(p)] # Absent
  /\ Parsed(name(p))
  /\ \A v \in Var : envfile[enc[name(p)][v]] # Broken
  /\ GoTo(p, "container", Absent, enc[name(p)])
  /\ UNCHANGED <<enc, dec>>

\* Without input from sops dotenv.py prints a Secret without data; when it cannot parse
\* its input it prints nothing.
K8sSecret(p) ==
  /\ At(p, "k8s-secret") /\ enc[name(p)] # Absent
  /\ \/ Parsed(name(p)) /\ GoTo(p, "applied", Absent, enc[name(p)])
     \/ GoTo(p, "applied", Absent, Broken)
  /\ UNCHANGED <<enc, dec>>

-----------------------------------------------------------------------------
\* env-clean

Overwrite(p) ==
  /\ At(p, "clean")
  /\ dec' = [dec EXCEPT ![name(p)] = Zeros]
  /\ GoTo(p, "remove", Absent, Absent)
  /\ UNCHANGED enc

Remove(p) ==
  /\ At(p, "remove")
  /\ dec' = [dec EXCEPT ![name(p)] = Absent]
  /\ NextName(p, "clean")
  /\ UNCHANGED enc

-----------------------------------------------------------------------------
\* The developer's editor, and git: it brings a new environment, or a new version of one.

LocalEdit(n) ==
  /\ dec[n] \in Text
  /\ \E v \in Var : \E r \in Raw \ {dec[n][v]} : dec' = [dec EXCEPT ![n][v] = r]
  /\ UNCHANGED <<enc, proc>>

Pull(n) ==
  /\ enc[n] \in Text \cup {Absent}
  /\ \E text \in Pulled \ {enc[n]} : enc' = [enc EXCEPT ![n] = text]
  /\ UNCHANGED <<dec, proc>>

-----------------------------------------------------------------------------
Step(p) ==
  \/ Start(p) \/ Die(p)
  \/ OpenTemp(p) \/ FillTemp(p) \/ Move(p)
  \/ EncryptFile(p) \/ CopyAsEditor(p) \/ Fold(p) \/ Truncate(p) \/ EncryptNew(p)
  \/ EditFile(p) \/ Save(p) \/ New(p) \/ NewWrite(p)
  \/ Run(p) \/ DockerRun(p) \/ K8sSecret(p)
  \/ Overwrite(p) \/ Remove(p)

Next == (\E p \in Proc : Step(p)) \/ (\E n \in Env : LocalEdit(n) \/ Pull(n))

Spec == Init /\ [][Next]_vars

-----------------------------------------------------------------------------
\* Properties.

\* Plaintext is written to a temporary file and moved: whatever fails or is killed when,
\* and whatever else runs, a tool never finds a plaintext file that is half decrypted.
PublishedPlaintextIsWhole == \A n \in Env : dec[n] # Broken

\* "Ciphertext -- committed.  This is the source of truth", and env-new refuses an environment
\* that "already exists": a readable ciphertext never becomes unreadable or disappears,
\* whichever step of a recipe is the last, and whatever other recipes do meanwhile.
SealedStaysReadable == [][\A n \in Env : enc[n] \in Text => enc'[n] \in Text]_vars

\* "Run a command with <name>'s variables exported"; the same of a Secret.
RunHasItsVariables ==
  \A p \in Proc : proc[p].pc \in {"running", "applied"} => proc[p].buf # Broken
=============================================================================

--------------------------- MODULE EnvVaultProofs ---------------------------
(***************************************************************************)
(* Proofs about EnvVault: the inductive invariant says what each kind of   *)
(* file can hold and what a recipe has in hand at each of its steps.       *)
(***************************************************************************)
EXTENDS EnvVault, SequenceTheorems, TLAPS

EncFile == Text \cup {Absent, Broken}
DecFile == Text \cup {Absent, Zeros}
InHand  == Text \cup {Absent, Broken}

Pc == Recipe \cup {"idle", "decrypt-sops", "envfile-sops", "move", "copy", "fold",
                   "encrypt-truncate", "encrypt-write", "save", "new-truncate", "new-write",
                   "running", "container", "applied", "remove"}

ProcRecord == [pc : Pc, todo : Seq(Env), base : InHand, buf : InHand]

\* What a recipe has in hand at its steps.
Sound(r) ==
  /\ r \in ProcRecord
  /\ r.pc # "idle" => r.todo # <<>>
  /\ r.pc \in {"move", "fold"} => r.buf \in Text

FilesOK == enc \in [Env -> EncFile] /\ dec \in [Env -> DecFile]
ProcOK  == proc \in [Proc -> ProcRecord] /\ \A p \in Proc : Sound(proc[p])

VaultInv == FilesOK /\ ProcOK

-----------------------------------------------------------------------------
\* A recipe that goes on, ends, or takes its next name changes nothing of the others.

LEMMA FrameOK ==
  ASSUME NEW pc \in Pc, NEW todo \in Seq(Env), NEW base \in InHand, NEW buf \in InHand
  PROVE  /\ Frame(pc, todo, base, buf) \in ProcRecord
         /\ Frame(pc, todo, base, buf).pc = pc
         /\ Frame(pc, todo, base, buf).todo = todo
         /\ Frame(pc, todo, base, buf).base = base
         /\ Frame(pc, todo, base, buf).buf = buf
BY DEF Frame, ProcRecord

LEMMA StepOK ==
  ASSUME ProcOK, NEW p \in Proc, NEW r, Sound(r), proc' = [proc EXCEPT ![p] = r]
  PROVE  ProcOK'
<1>1. r \in ProcRecord
  BY DEF Sound
<1> QED
  BY <1>1 DEF ProcOK

LEMMA IdleOK == Sound(Idle)
<1>1. "idle" \in Pc /\ Absent \in InHand
  BY DEF Pc, InHand
<1>2. <<>> \in Seq(Env)
  BY EmptySeq
<1>3. \A todo \in Seq(Env) : /\ Frame("idle", todo, Absent, Absent) \in ProcRecord
                              /\ Frame("idle", todo, Absent, Absent).pc = "idle"
  BY <1>1, FrameOK
<1>4. Idle \in ProcRecord /\ Idle.pc = "idle"
  BY <1>2, <1>3, Zenon DEF Idle
<1> QED
  BY <1>4 DEF Sound

LEMMA ExitOK ==
  ASSUME ProcOK, NEW p \in Proc, Exit(p)
  PROVE  ProcOK'
BY IdleOK, StepOK DEF Exit

LEMMA LongTail ==
  ASSUME NEW S, NEW s \in Seq(S), s # <<>>, Len(s) # 1
  PROVE  Tail(s) \in Seq(S) /\ Tail(s) # <<>>
<1>1. Len(s) \in Nat /\ Len(s) # 0
  BY EmptySeq
<1>2. Tail(s) \in Seq(S) /\ Len(Tail(s)) = Len(s) - 1
  BY <1>1, HeadTailProperties
<1>3. Len(Tail(s)) # 0
  BY <1>1, <1>2
<1>4. Len(<<>>) = 0
  BY EmptySeq
<1> QED
  BY <1>2, <1>3, <1>4, Zenon

\* A recipe at its first step has nothing in hand.
LEMMA FirstStepOK ==
  ASSUME NEW recipe \in Recipe, NEW todo \in Seq(Env), todo # <<>>
  PROVE  Sound(Frame(recipe, todo, Absent, Absent))
<1>1. recipe \in Pc /\ Absent \in InHand
  BY DEF Pc, InHand
<1>2. recipe \notin {"idle", "move", "copy", "fold", "save", "container"}
  BY DEF Recipe
<1> QED
  BY <1>1, <1>2, FrameOK DEF Sound

LEMMA NextNameOK ==
  ASSUME ProcOK, NEW p \in Proc, ~At(p, "idle"), NEW recipe \in Recipe, NextName(p, recipe)
  PROVE  ProcOK'
<1>1. CASE Len(proc[p].todo) = 1
  BY <1>1, ExitOK DEF NextName
<1>2. CASE Len(proc[p].todo) # 1
  <2>1. proc[p].todo \in Seq(Env) /\ proc[p].todo # <<>>
    BY DEF ProcOK, Sound, At, ProcRecord
  <2>2. Tail(proc[p].todo) \in Seq(Env) /\ Tail(proc[p].todo) # <<>>
    BY <1>2, <2>1, LongTail
  <2>3. Sound(Frame(recipe, Tail(proc[p].todo), Absent, Absent))
    BY <2>2, FirstStepOK
  <2> QED
    BY <1>2, <2>3, StepOK DEF NextName
<1> QED
  BY <1>1, <1>2

\* A recipe that goes on keeps its names; what it has in hand must suit the step.
LEMMA GoToOK ==
  ASSUME ProcOK, NEW p \in Proc, ~At(p, "idle"),
         NEW pc \in Pc, NEW base \in InHand, NEW buf \in InHand, GoTo(p, pc, base, buf),
         pc \in {"move", "fold"} => buf \in Text
  PROVE  ProcOK'
<1> DEFINE r == Frame(pc, proc[p].todo, base, buf)
<1>1. proc[p].todo \in Seq(Env) /\ proc[p].todo # <<>>
  BY DEF ProcOK, Sound, At, ProcRecord
<1>2. r \in ProcRecord /\ r.pc = pc /\ r.todo = proc[p].todo /\ r.base = base /\ r.buf = buf
  BY <1>1, FrameOK
<1>3. proc' = [proc EXCEPT ![p] = r]
  BY DEF GoTo
<1> HIDE DEF r
<1>4. Sound(r)
  BY <1>1, <1>2 DEF Sound
<1> QED
  BY <1>3, <1>4, StepOK

LEMMA NamesAreLists ==
  ASSUME NEW recipe, NEW todo \in Names(recipe)
  PROVE  todo \in Seq(Env) /\ todo # <<>>
<1>1. todo \in NameLists
  BY DEF Names, OneName
<1>2. PICK k \in 1 .. Cardinality(Env) : todo \in [1 .. k -> Env]
  BY <1>1 DEF NameLists
<1>3. k \in Nat /\ k >= 1
  OBVIOUS
<1>4. todo \in Seq(Env) /\ Len(todo) # 0
  BY <1>2, <1>3
<1> QED
  BY <1>4, EmptySeq

LEMMA NameInHand ==
  ASSUME ProcOK, NEW p \in Proc, ~At(p, "idle")
  PROVE  name(p) \in Env
BY DEF ProcOK, Sound, ProcRecord, At, name

-----------------------------------------------------------------------------
\* The invariant, action by action.

LEMMA InitVaultInv == Init => VaultInv
<1> SUFFICES ASSUME Init PROVE VaultInv
  OBVIOUS
<1>1. enc \in [Env -> EncFile]
  BY TextAssumption DEF Init, EncFile
<1>2. dec \in [Env -> DecFile]
  BY TextAssumption DEF Init, DecFile
<1>3. ProcOK
  BY IdleOK DEF Init, ProcOK, Sound
<1> QED
  BY <1>1, <1>2, <1>3 DEF VaultInv, FilesOK

LEMMA StartInv ==
  ASSUME VaultInv, NEW p \in Proc, Start(p)
  PROVE  VaultInv'
<1>0. PICK recipe \in Recipe : \E todo \in Names(recipe) :
        proc' = [proc EXCEPT ![p] = Frame(recipe, todo, Absent, Absent)]
  BY DEF Start
<1>1. PICK todo \in Names(recipe) :
        proc' = [proc EXCEPT ![p] = Frame(recipe, todo, Absent, Absent)]
  BY <1>0
<1>2. todo \in Seq(Env) /\ todo # <<>>
  BY NamesAreLists
<1>3. Sound(Frame(recipe, todo, Absent, Absent))
  BY <1>2, FirstStepOK
<1>4. ProcOK'
  BY <1>1, <1>3, StepOK DEF VaultInv
<1> QED
  BY <1>4 DEF Start, VaultInv, FilesOK

LEMMA DieInv ==
  ASSUME VaultInv, NEW p \in Proc, Die(p)
  PROVE  VaultInv'
BY ExitOK DEF Die, VaultInv, FilesOK

LEMMA DecryptInv ==
  ASSUME VaultInv, NEW p \in Proc, OpenTemp(p) \/ FillTemp(p) \/ Move(p)
  PROVE  VaultInv'
<1>1. CASE OpenTemp(p)
  <2>1. ~At(p, "idle") /\ FilesOK'
    BY <1>1 DEF OpenTemp, At, VaultInv, FilesOK
  <2>2. PICK pc \in {"decrypt-sops", "envfile-sops"} : GoTo(p, pc, Absent, Broken)
    BY <1>1 DEF OpenTemp
  <2>3. pc \in Pc /\ Absent \in InHand /\ Broken \in InHand
    BY DEF Pc, InHand
  <2>4. pc \notin {"move", "copy", "fold", "container", "save"}
    OBVIOUS
  <2>5. ProcOK'
    BY <2>1, <2>2, <2>3, <2>4, GoToOK DEF VaultInv
  <2> QED
    BY <2>1, <2>5 DEF VaultInv
<1>2. CASE FillTemp(p)
  <2> DEFINE text == enc[name(p)]
             rendered == [v \in Var |-> envfile[text[v]]]
  <2>1. ~At(p, "idle") /\ FilesOK'
    BY <1>2 DEF FillTemp, At, VaultInv, FilesOK
  <2>2. text \in Text
    BY <1>2 DEF FillTemp
  <2>3. PICK out \in {text, rendered} :
          GoTo(p, "move", Absent, out) /\ (out = text \/ \A v \in Var : envfile[text[v]] # Broken)
    BY <1>2 DEF FillTemp
  <2>4. out \in Text
    <3>1. CASE out = text
      BY <3>1, <2>2
    <3>2. CASE out # text
      <4>1. \A v \in Var : text[v] \in Raw
        BY <2>2 DEF Text
      <4>2. \A v \in Var : envfile[text[v]] \in Raw
        BY <4>1, <2>3, <3>2, TextAssumption
      <4> QED
        BY <3>2, <4>2 DEF Text
    <3> QED
      BY <3>1, <3>2
  <2>5. "move" \in Pc /\ Absent \in InHand /\ out \in InHand
    BY <2>4 DEF Pc, InHand
  <2>6. ProcOK'
    BY <2>1, <2>3, <2>4, <2>5, GoToOK DEF VaultInv
  <2> QED
    BY <2>1, <2>6 DEF VaultInv
<1>3. CASE Move(p)
  <2>1. ~At(p, "idle") /\ proc[p].buf \in Text
    BY <1>3 DEF Move, At, VaultInv, ProcOK, Sound
  <2>2. FilesOK'
    BY <1>3, <2>1 DEF Move, VaultInv, FilesOK, DecFile
  <2>3. "decrypt" \in Recipe
    BY DEF Recipe
  <2>4. ProcOK'
    BY <1>3, <2>1, <2>3, NextNameOK DEF Move, VaultInv
  <2> QED
    BY <2>2, <2>4 DEF VaultInv
<1> QED
  BY <1>1, <1>2, <1>3

LEMMA EncryptInv ==
  ASSUME VaultInv, NEW p \in Proc, EncryptFile(p) \/ CopyAsEditor(p) \/ Fold(p)
  PROVE  VaultInv'
<1>1. CASE EncryptFile(p)
  <2>1. ~At(p, "idle") /\ FilesOK'
    BY <1>1 DEF EncryptFile, At, VaultInv, FilesOK
  <2>2. Absent \in InHand /\ {"copy", "encrypt-truncate"} \subseteq Pc
    BY DEF InHand, Pc
  <2>3. CASE enc[name(p)] \in Text /\ GoTo(p, "copy", enc[name(p)], Absent)
    <3>1. enc[name(p)] \in InHand
      BY <2>3 DEF InHand
    <3> QED
      BY <2>1, <2>2, <2>3, <3>1, GoToOK DEF VaultInv
  <2>4. CASE GoTo(p, "encrypt-truncate", Absent, Absent)
    BY <2>1, <2>2, <2>4, GoToOK DEF VaultInv
  <2> QED
    BY <1>1, <2>3, <2>4 DEF EncryptFile
<1>2. CASE CopyAsEditor(p)
  <2>1. ~At(p, "idle") /\ FilesOK'
    BY <1>2 DEF CopyAsEditor, At, VaultInv, FilesOK
  <2>2. proc[p].base \in InHand /\ dec[name(p)] \in InHand /\ "fold" \in Pc
    BY <1>2 DEF CopyAsEditor, VaultInv, ProcOK, ProcRecord, InHand, Pc
  <2>3. dec[name(p)] \in Text
    BY <1>2 DEF CopyAsEditor
  <2> QED
    BY <1>2, <2>1, <2>2, <2>3, GoToOK DEF CopyAsEditor, VaultInv
<1>3. CASE Fold(p)
  <2>1. ~At(p, "idle") /\ proc[p].buf \in Text
    BY <1>3 DEF Fold, At, VaultInv, ProcOK, Sound
  <2>2. FilesOK'
    BY <1>3, <2>1 DEF Fold, VaultInv, FilesOK, EncFile
  <2>3. "encrypt" \in Recipe
    BY DEF Recipe
  <2>4. ProcOK'
    BY <1>3, <2>1, <2>3, NextNameOK DEF Fold, VaultInv
  <2> QED
    BY <2>2, <2>4 DEF VaultInv
<1> QED
  BY <1>1, <1>2, <1>3

LEMMA CreateInv ==
  ASSUME VaultInv, NEW p \in Proc, New(p) \/ Truncate(p) \/ EncryptNew(p) \/ NewWrite(p)
  PROVE  VaultInv'
<1> USE DEF At
<1>1. CASE New(p)
  <2>1. ~At(p, "idle") /\ FilesOK'
    BY <1>1 DEF New, VaultInv, FilesOK
  <2>2. Absent \in InHand /\ "new-truncate" \in Pc
    BY DEF InHand, Pc
  <2> QED
    BY <1>1, <2>1, <2>2, GoToOK DEF New, VaultInv
<1>2. CASE Truncate(p)
  <2>1. ~At(p, "idle") /\ FilesOK'
    BY <1>2 DEF Truncate, VaultInv, FilesOK, EncFile
  <2>2. PICK pc \in {"new-write", "encrypt-write"} : GoTo(p, pc, Absent, Absent)
    BY <1>2 DEF Truncate
  <2>3. Absent \in InHand /\ pc \in Pc
    BY DEF InHand, Pc
  <2>4. pc \notin {"move", "copy", "fold", "container", "save"}
    OBVIOUS
  <2> QED
    BY <2>1, <2>2, <2>3, <2>4, GoToOK DEF VaultInv
<1>3. CASE EncryptNew(p)
  <2>1. dec[name(p)] \in Text
    BY <1>3 DEF EncryptNew
  <2>2. ~At(p, "idle") /\ FilesOK'
    BY <1>3, <2>1 DEF EncryptNew, VaultInv, FilesOK, EncFile
  <2>3. "encrypt" \in Recipe
    BY DEF Recipe
  <2>4. ProcOK'
    BY <1>3, <2>2, <2>3, NextNameOK DEF EncryptNew, VaultInv
  <2> QED
    BY <2>2, <2>4 DEF VaultInv
<1>4. CASE NewWrite(p)
  <2>1. FilesOK'
    BY <1>4, TextAssumption DEF NewWrite, VaultInv, FilesOK, EncFile
  <2>2. ProcOK'
    BY <1>4, ExitOK DEF NewWrite, VaultInv
  <2> QED
    BY <2>1, <2>2 DEF VaultInv
<1> QED
  BY <1>1, <1>2, <1>3, <1>4

LEMMA EditInv ==
  ASSUME VaultInv, NEW p \in Proc, EditFile(p) \/ Save(p)
  PROVE  VaultInv'
<1>1. CASE EditFile(p)
  <2>1. ~At(p, "idle") /\ FilesOK'
    BY <1>1 DEF EditFile, At, VaultInv, FilesOK
  <2>2. enc[name(p)] \in InHand /\ Absent \in InHand /\ "save" \in Pc
    BY <1>1 DEF EditFile, InHand, Pc
  <2> QED
    BY <1>1, <2>1, <2>2, GoToOK DEF EditFile, VaultInv
<1>2. CASE Save(p)
  <2>1. PICK text \in Text : enc' = [enc EXCEPT ![name(p)] = text]
    BY <1>2 DEF Save
  <2>2. FilesOK'
    BY <1>2, <2>1 DEF Save, VaultInv, FilesOK, EncFile
  <2>3. ProcOK'
    BY <1>2, ExitOK DEF Save, VaultInv
  <2> QED
    BY <2>2, <2>3 DEF VaultInv
<1> QED
  BY <1>1, <1>2

LEMMA LaunchInv ==
  ASSUME VaultInv, NEW p \in Proc, Run(p) \/ DockerRun(p) \/ K8sSecret(p)
  PROVE  VaultInv'
<1>1. ~At(p, "idle") /\ FilesOK'
  BY DEF Run, DockerRun, K8sSecret, At, VaultInv, FilesOK
<1>2. {"running", "container", "applied"} \subseteq Pc /\ Absent \in InHand /\ Broken \in InHand
  BY DEF Pc, InHand
<1>3. Parsed(name(p)) => enc[name(p)] \in InHand
  BY DEF Parsed, InHand
<1>4. CASE Run(p) \/ K8sSecret(p)
  <2>1. PICK pc \in {"running", "applied"}, buf \in InHand : GoTo(p, pc, Absent, buf)
    BY <1>2, <1>3, <1>4 DEF Run, K8sSecret
  <2>2. pc \notin {"move", "copy", "fold", "container", "save"}
    OBVIOUS
  <2> QED
    BY <1>1, <1>2, <2>1, <2>2, GoToOK DEF VaultInv
<1>5. CASE DockerRun(p)
  BY <1>1, <1>2, <1>3, <1>5, GoToOK DEF DockerRun, VaultInv
<1> QED
  BY <1>4, <1>5

LEMMA CleanInv ==
  ASSUME VaultInv, NEW p \in Proc, Overwrite(p) \/ Remove(p)
  PROVE  VaultInv'
<1>1. ~At(p, "idle") /\ FilesOK'
  BY DEF Overwrite, Remove, At, VaultInv, FilesOK, DecFile
<1>2. CASE Overwrite(p)
  <2>1. Absent \in InHand /\ "remove" \in Pc
    BY DEF InHand, Pc
  <2> QED
    BY <1>1, <1>2, <2>1, GoToOK DEF Overwrite, VaultInv
<1>3. CASE Remove(p)
  <2>1. "clean" \in Recipe
    BY DEF Recipe
  <2> QED
    BY <1>1, <1>3, <2>1, NextNameOK DEF Remove, VaultInv
<1> QED
  BY <1>2, <1>3

LEMMA OthersInv ==
  ASSUME VaultInv, NEW n \in Env, LocalEdit(n) \/ Pull(n)
  PROVE  VaultInv'
<1>1. CASE LocalEdit(n)
  <2>1. PICK v \in Var, r \in Raw : dec' = [dec EXCEPT ![n][v] = r]
    BY <1>1 DEF LocalEdit
  <2>2. [dec[n] EXCEPT ![v] = r] \in Text
    BY <1>1, <2>1 DEF LocalEdit, Text
  <2>3. dec' \in [Env -> DecFile]
    BY <2>1, <2>2 DEF VaultInv, FilesOK, DecFile
  <2> QED
    BY <1>1, <2>3 DEF LocalEdit, VaultInv, FilesOK, ProcOK
<1>2. CASE Pull(n)
  <2>1. PICK text \in Text : enc' = [enc EXCEPT ![n] = text]
    BY <1>2, TextAssumption DEF Pull
  <2>2. enc' \in [Env -> EncFile]
    BY <2>1 DEF VaultInv, FilesOK, EncFile
  <2> QED
    BY <1>2, <2>2 DEF Pull, VaultInv, FilesOK, ProcOK
<1> QED
  BY <1>1, <1>2

LEMMA NextVaultInv == VaultInv /\ [Next]_vars => VaultInv'
<1> SUFFICES ASSUME VaultInv, [Next]_vars PROVE VaultInv'
  OBVIOUS
<1>1. ASSUME NEW p \in Proc, Step(p) PROVE VaultInv'
  BY <1>1, StartInv, DieInv, DecryptInv, EncryptInv, CreateInv, EditInv, LaunchInv, CleanInv
     DEF Step
<1>2. ASSUME NEW n \in Env, LocalEdit(n) \/ Pull(n) PROVE VaultInv'
  BY <1>2, OthersInv
<1>3. CASE UNCHANGED vars
  BY <1>3 DEF vars, VaultInv, FilesOK, ProcOK
<1> QED
  BY <1>1, <1>2, <1>3 DEF Next

LEMMA SpecVaultInv == Spec => []VaultInv
BY InitVaultInv, NextVaultInv, PTL DEF Spec

-----------------------------------------------------------------------------
\* Whatever recipes run, fail or are killed, no plaintext file is ever half decrypted.
THEOREM SpecPublishedPlaintextIsWhole == Spec => []PublishedPlaintextIsWhole
<1>1. VaultInv => PublishedPlaintextIsWhole
  <2>1. Broken \notin DecFile
    BY FileAssumption DEF DecFile
  <2> QED
    BY <2>1 DEF VaultInv, FilesOK, PublishedPlaintextIsWhole
<1> QED
  BY <1>1, SpecVaultInv, PTL
=============================================================================

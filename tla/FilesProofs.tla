----------------------------- MODULE FilesProofs -----------------------------
(***************************************************************************)
(* Proofs about the parts that keep files: the file tools, for any number  *)
(* of sessions, files, limits and failures; the token store, for any       *)
(* number of processes, files, failures and salts; and, with the proofs    *)
(* about transcripts and kn-code-atomic, all of them together.             *)
(*                                                                         *)
(* A call of a file tool returns several awaits after it chose its         *)
(* content.  The invariant carries the content from one to the next:       *)
(* through the draft to the temporary file, which no other call writes     *)
(* because its name is the call's own, and from there into the target.     *)
(***************************************************************************)
EXTENDS MCFiles, AtomicProofs, TranscriptProofs, WellFoundedInduction

-----------------------------------------------------------------------------
(* What a call is to write                                                 *)

\* What the call was to write: the content given, or the replacement in the
\* content it read.
Due(a) ==
  /\ job[a].tool = "write" => draft[a] = job[a].content
  /\ job[a].tool = "edit" =>
       draft[a] = Substituted(basis[a], job[a].old, job[a].new, job[a].all)

CallInv(a) ==
  /\ fpc[a] = "idle" => job[a] = NoJob
  /\ fpc[a] # "idle" => job[a] \in EditJob \cup WriteJob \cup ReadJob
  /\ fpc[a] \in {"writing", "renaming"} => job[a].tool \in {"edit", "write"} /\ Due(a)
  /\ fpc[a] = "renaming" => temp[TempName(a)] = draft[a]

Domains ==
  /\ tree = [t \in Targets |-> tree[t]]
  /\ temp = [n \in TempNames |-> temp[n]]
  /\ job = [a \in Agents |-> job[a]]
  /\ fpc \in [Agents -> {"idle", "reading", "writing", "renaming"}]
  /\ basis = [a \in Agents |-> basis[a]] /\ draft = [a \in Agents |-> draft[a]]
  /\ reply = [a \in Agents |-> reply[a]]

CallsInv == Domains /\ \A a \in Agents : CallInv(a)

\* The property of one step.
Installs ==
  \A a \in Agents :
    /\ EndsAs(a, "write", "ok") => tree'[job[a].file] = job[a].content
    /\ EndsAs(a, "edit", "ok") =>
         tree'[job[a].file] = Substituted(basis[a], job[a].old, job[a].new, job[a].all)

\* A step of one call leaves the others as they are.
Alone(a) ==
  \A b \in Agents \ {a} :
    /\ job'[b] = job[b] /\ fpc'[b] = fpc[b] /\ basis'[b] = basis[b]
    /\ draft'[b] = draft[b] /\ reply'[b] = reply[b]
    /\ fpc[b] = "renaming" => temp'[TempName(b)] = temp[TempName(b)]

-----------------------------------------------------------------------------

LEMMA JobsHaveFiles ==
  ASSUME NEW j \in EditJob \cup WriteJob \cup ReadJob
  PROVE  /\ j.file \in Targets
         /\ j \in EditJob <=> j.tool = "edit"
         /\ j \in WriteJob <=> j.tool = "write"
         /\ j \in ReadJob <=> j.tool = "read"
  BY DEF EditJob, WriteJob, ReadJob

\* What another call leaves alone keeps its part of the invariant.
LEMMA AloneKeepsOthers ==
  ASSUME CallsInv, NEW a \in Agents, Alone(a), Domains', CallInv(a)',
         EndsAs(a, "write", "ok") => tree'[job[a].file] = job[a].content,
         EndsAs(a, "edit", "ok") =>
           tree'[job[a].file] = Substituted(basis[a], job[a].old, job[a].new, job[a].all)
  PROVE  CallsInv' /\ Installs
<1>1. ASSUME NEW b \in Agents \ {a}
      PROVE  CallInv(b)' /\ ~EndsAs(b, "write", "ok") /\ ~EndsAs(b, "edit", "ok")
  <2>1. /\ job'[b] = job[b] /\ fpc'[b] = fpc[b] /\ basis'[b] = basis[b] /\ draft'[b] = draft[b]
        /\ fpc[b] = "renaming" => temp'[TempName(b)] = temp[TempName(b)]
    BY DEF Alone
  <2>2. CallInv(b)
    BY DEF CallsInv
  <2>3. TempName(b)' = TempName(b)
    BY <2>1 DEF TempName
  <2>4. Due(b) => Due(b)'
    BY <2>1 DEF Due
  <2>5. CallInv(b)'
    <3>1. /\ fpc'[b] = "idle" => job'[b] = NoJob
          /\ fpc'[b] # "idle" => job'[b] \in EditJob \cup WriteJob \cup ReadJob
      BY <2>1, <2>2 DEF CallInv
    <3>2. fpc'[b] \in {"writing", "renaming"} => job'[b].tool \in {"edit", "write"} /\ Due(b)'
      BY <2>1, <2>2, <2>4 DEF CallInv
    <3>3. fpc'[b] = "renaming" => temp'[TempName(b)'] = draft'[b]
      BY <2>1, <2>2, <2>3 DEF CallInv
    <3>. QED
      BY <3>1, <3>2, <3>3 DEF CallInv, EditJob, WriteJob, ReadJob
  <2>. QED
    BY <2>1, <2>5 DEF EndsAs
<1>2. CallsInv'
  BY <1>1 DEF CallsInv
<1>. QED
  BY <1>1, <1>2 DEF Installs

-----------------------------------------------------------------------------
(* What a call that returns, or goes on, has done                          *)

\* What a step does to the files: they stay, and no temporary file changes that
\* another call is about to install.
FilesKept(a) ==
  /\ tree' = [t \in Targets |-> tree'[t]]
  /\ temp' = [n \in TempNames |-> temp'[n]]
  /\ \A b \in Agents \ {a} : fpc[b] = "renaming" => temp'[TempName(b)] = temp[TempName(b)]

\* What AloneKeepsOthers asks of a step.
StepInstalls(a) ==
  /\ EndsAs(a, "write", "ok") => tree'[job[a].file] = job[a].content
  /\ EndsAs(a, "edit", "ok") =>
       tree'[job[a].file] = Substituted(basis[a], job[a].old, job[a].new, job[a].all)

StepKeeps(a) == Domains' /\ Alone(a) /\ CallInv(a)' /\ StepInstalls(a)

LEMMA ReturnKeeps ==
  ASSUME CallsInv, NEW a \in Agents, NEW r, Return(a, r), FilesKept(a),
         r.outcome = "ok" => StepInstalls(a)
  PROVE  StepKeeps(a)
<1>1. /\ job' = [job EXCEPT ![a] = NoJob] /\ fpc' = [fpc EXCEPT ![a] = "idle"]
      /\ basis' = [basis EXCEPT ![a] = NoSuchFile] /\ draft' = [draft EXCEPT ![a] = NoSuchFile]
      /\ reply' = [reply EXCEPT ![a] = r]
  BY DEF Return
<1>2. Domains'
  BY <1>1 DEF CallsInv, Domains, FilesKept
<1>3. Alone(a)
  BY <1>1 DEF CallsInv, Domains, FilesKept, Alone
<1>4. job'[a] = NoJob /\ fpc'[a] = "idle" /\ reply'[a] = r
  BY <1>1 DEF CallsInv, Domains
<1>5. CallInv(a)'
  BY <1>4 DEF CallInv
<1>6. StepInstalls(a)
  BY <1>4 DEF StepInstalls, EndsAs
<1>. QED
  BY <1>2, <1>3, <1>5, <1>6 DEF StepKeeps

LEMMA GoOnKeeps ==
  ASSUME CallsInv, NEW a \in Agents, NEW j \in EditJob \cup WriteJob \cup ReadJob,
         NEW p \in {"reading", "writing", "renaming"}, NEW prior, NEW new,
         GoOn(a, j, p, prior, new), FilesKept(a),
         fpc[a] = "idle" \/ j = job[a],
         p \in {"writing", "renaming"} =>
           /\ j.tool \in {"edit", "write"}
           /\ j.tool = "write" => new = j.content
           /\ j.tool = "edit" => new = Substituted(prior, j.old, j.new, j.all),
         p = "renaming" => temp'[<<j.file, a>>] = new
  PROVE  StepKeeps(a)
<1>1. /\ job' = [job EXCEPT ![a] = j] /\ fpc' = [fpc EXCEPT ![a] = p]
      /\ basis' = [basis EXCEPT ![a] = prior] /\ draft' = [draft EXCEPT ![a] = new]
      /\ reply' = reply
  BY DEF GoOn
<1>2. Domains'
  BY <1>1 DEF CallsInv, Domains, FilesKept
<1>3. Alone(a)
  BY <1>1 DEF CallsInv, Domains, FilesKept, Alone
<1>4. job'[a] = j /\ fpc'[a] = p /\ basis'[a] = prior /\ draft'[a] = new
  BY <1>1 DEF CallsInv, Domains
<1>5. TempName(a)' = <<j.file, a>>
  BY <1>4 DEF TempName
<1>6. p \in {"writing", "renaming"} => Due(a)'
  BY <1>4 DEF Due
<1>7. CallInv(a)'
  BY <1>4, <1>5, <1>6 DEF CallInv
<1>8. job[a] # NoJob => job'[a] # NoJob
  BY <1>4 DEF CallsInv, CallInv
<1>9. StepInstalls(a)
  BY <1>8 DEF StepInstalls, EndsAs
<1>. QED
  BY <1>2, <1>3, <1>7, <1>9 DEF StepKeeps

\* A step that writes no file at all.
LEMMA UntouchedAreKept ==
  ASSUME CallsInv, NEW a \in Agents, UNCHANGED <<tree, temp>>
  PROVE  FilesKept(a)
  BY DEF CallsInv, Domains, FilesKept

\* A step that writes the call's own temporary file.
LEMMA OwnTempIsKept ==
  ASSUME CallsInv, NEW a \in Agents, job[a].file \in Targets, NEW text,
         temp' = [temp EXCEPT ![TempName(a)] = text],
         tree' = [t \in Targets |-> tree'[t]]
  PROVE  FilesKept(a) /\ temp'[TempName(a)] = text
<1>1. ASSUME NEW b \in Agents, fpc[b] = "renaming"
      PROVE  TempName(b) \in TempNames
  BY <1>1, JobsHaveFiles DEF CallsInv, CallInv, TempName, TempNames
<1>2. TempName(a) \in TempNames
  BY DEF TempName, TempNames
<1>3. \A b \in Agents \ {a} : TempName(b) # TempName(a)
  BY DEF TempName
<1>. QED
  BY <1>1, <1>2, <1>3 DEF CallsInv, Domains, FilesKept

-----------------------------------------------------------------------------
(* The steps of a call                                                     *)

LEMMA StartEditKeeps ==
  ASSUME CallsInv, NEW a \in Agents, NEW j \in EditJob, StartEdit(a, j)
  PROVE  StepKeeps(a)
<1>1. FilesKept(a) /\ fpc[a] = "idle"
  BY UntouchedAreKept DEF StartEdit
<1>2. CASE GoOn(a, j, "reading", NoSuchFile, NoSuchFile)
  BY <1>1, <1>2, GoOnKeeps
<1>3. CASE Return(a, Reply("refused"))
  BY <1>1, <1>3, ReturnKeeps DEF Reply
<1>. QED
  BY <1>2, <1>3 DEF StartEdit

LEMMA StartWriteKeeps ==
  ASSUME CallsInv, NEW a \in Agents, NEW j \in WriteJob, StartWrite(a, j)
  PROVE  StepKeeps(a)
<1>1. FilesKept(a) /\ fpc[a] = "idle"
  BY UntouchedAreKept DEF StartWrite
<1>2. CASE GoOn(a, j, "writing", NoSuchFile, j.content)
  <2>1. j.tool = "write"
    BY JobsHaveFiles
  <2>. QED
    BY <1>1, <1>2, <2>1, GoOnKeeps
<1>3. CASE Return(a, Reply("refused"))
  BY <1>1, <1>3, ReturnKeeps DEF Reply
<1>4. CASE Return(a, Reply("too_large"))
  BY <1>1, <1>4, ReturnKeeps DEF Reply
<1>. QED
  BY <1>2, <1>3, <1>4 DEF StartWrite

LEMMA StartReadKeeps ==
  ASSUME CallsInv, NEW a \in Agents, NEW j \in ReadJob, StartRead(a, j)
  PROVE  StepKeeps(a)
<1>1. FilesKept(a) /\ fpc[a] = "idle"
  BY UntouchedAreKept DEF StartRead
<1>2. CASE GoOn(a, j, "reading", NoSuchFile, NoSuchFile)
  BY <1>1, <1>2, GoOnKeeps
<1>3. CASE Return(a, Reply("refused"))
  BY <1>1, <1>3, ReturnKeeps DEF Reply
<1>. QED
  BY <1>2, <1>3 DEF StartRead

\* An edit goes on with the replacement in what it just read.
LEMMA ReadForEditKeeps ==
  ASSUME CallsInv, NEW a \in Agents, ReadForEdit(a)
  PROVE  StepKeeps(a)
<1> DEFINE new == Substituted(tree[job[a].file], job[a].old, job[a].new, job[a].all)
<1>1. FilesKept(a) /\ fpc[a] = "reading" /\ job[a].tool = "edit"
  BY UntouchedAreKept DEF ReadForEdit
<1>2. job[a] \in EditJob \cup WriteJob \cup ReadJob
  BY <1>1 DEF CallsInv, CallInv
<1>3. CASE GoOn(a, job[a], "writing", tree[job[a].file], new)
  BY <1>1, <1>2, <1>3, GoOnKeeps
<1>4. ASSUME NEW o \in {"error", "too_large", "not_found"}, Return(a, Reply(o))
      PROVE  StepKeeps(a)
  BY <1>1, <1>4, ReturnKeeps DEF Reply
<1>. QED
  BY <1>3, <1>4 DEF ReadForEdit

LEMMA WriteTempKeeps ==
  ASSUME CallsInv, NEW a \in Agents, WriteTemp(a)
  PROVE  StepKeeps(a)
<1>1. fpc[a] = "writing" /\ job[a] \in EditJob \cup WriteJob \cup ReadJob
  BY DEF WriteTemp, CallsInv, CallInv
<1>2. job[a].file \in Targets
  BY <1>1, JobsHaveFiles
<1>3. job[a].tool \in {"edit", "write"} /\ Due(a)
  BY <1>1 DEF CallsInv, CallInv
<1>4. tree' = tree
  BY DEF WriteTemp, TempWritten, TempFailed
<1>5. tree' = [t \in Targets |-> tree'[t]]
  BY <1>4 DEF CallsInv, Domains
<1>6. CASE TempWritten(a)
  <2>1. FilesKept(a) /\ temp'[<<job[a].file, a>>] = draft[a]
    BY <1>2, <1>5, <1>6, OwnTempIsKept DEF TempWritten, TempName
  <2>2. GoOn(a, job[a], "renaming", basis[a], draft[a])
    BY <1>6 DEF TempWritten
  <2>. QED
    BY <1>1, <1>3, <2>1, <2>2, GoOnKeeps DEF Due
<1>7. CASE TempFailed(a)
  <2>1. FilesKept(a)
    BY <1>2, <1>5, <1>7, OwnTempIsKept DEF TempFailed
  <2>. QED
    BY <1>7, <2>1, ReturnKeeps DEF TempFailed, Reply
<1>. QED
  BY <1>6, <1>7 DEF WriteTemp

\* The rename puts the draft into the target.
LEMMA InstallKeeps ==
  ASSUME CallsInv, NEW a \in Agents, Install(a)
  PROVE  StepKeeps(a)
<1>1. fpc[a] = "renaming" /\ job[a] \in EditJob \cup WriteJob \cup ReadJob
  BY DEF Install, CallsInv, CallInv
<1>2. job[a].file \in Targets
  BY <1>1, JobsHaveFiles
<1>3. temp[TempName(a)] = draft[a] /\ Due(a)
  BY <1>1 DEF CallsInv, CallInv
<1>4. tree' = [t \in Targets |-> tree'[t]]
  BY DEF Install, Installed, InstallFailed, CallsInv, Domains
<1>5. FilesKept(a)
  BY <1>2, <1>4, OwnTempIsKept DEF Install
<1>6. CASE Installed(a)
  <2>1. tree'[job[a].file] = draft[a]
    BY <1>2, <1>3, <1>6 DEF Installed, CallsInv, Domains
  <2>2. StepInstalls(a)
    BY <1>3, <2>1 DEF StepInstalls, EndsAs, Due
  <2>. QED
    BY <1>5, <1>6, <2>2, ReturnKeeps DEF Installed
<1>7. CASE InstallFailed(a)
  BY <1>5, <1>7, ReturnKeeps DEF InstallFailed, Reply
<1>. QED
  BY <1>6, <1>7 DEF Install

LEMMA ReadKeeps ==
  ASSUME CallsInv, NEW a \in Agents, Read(a)
  PROVE  StepKeeps(a)
<1>1. FilesKept(a) /\ job[a].tool = "read"
  BY UntouchedAreKept DEF Read
<1>2. StepInstalls(a)
  BY <1>1 DEF StepInstalls, EndsAs
<1>3. \E r : Return(a, r)
  BY DEF Read
<1>. QED
  BY <1>1, <1>2, <1>3, ReturnKeeps

-----------------------------------------------------------------------------
(* The specification                                                       *)

LEMMA CallsInvInit == FileToolsInit => CallsInv
  BY DEF FileToolsInit, CallsInv, Domains, CallInv

LEMMA CallsStep ==
  ASSUME CallsInv, [FileToolsNext]_fileVars
  PROVE  CallsInv' /\ [Installs]_fileVars
<1>1. ASSUME NEW a \in Agents, FileStep(a)
      PROVE  CallsInv' /\ Installs
  <2>1. StepKeeps(a)
    BY <1>1, StartEditKeeps, StartWriteKeeps, StartReadKeeps, ReadForEditKeeps, WriteTempKeeps,
       InstallKeeps, ReadKeeps DEF FileStep
  <2>. QED
    BY <2>1, AloneKeepsOthers DEF StepKeeps, StepInstalls
<1>2. ASSUME NEW t \in Targets, NEW text, Change(t, text)
      PROVE  CallsInv' /\ Installs
  <2>1. Domains'
    BY <1>2 DEF Change, CallsInv, Domains
  <2>2. \A a \in Agents : CallInv(a)'
    BY <1>2 DEF Change, CallsInv, CallInv, Due, TempName
  <2>3. Installs
    BY <1>2 DEF Change, Installs, EndsAs
  <2>. QED
    BY <2>1, <2>2, <2>3 DEF CallsInv
<1>3. CASE Shutdown
  <2>1. Domains'
    BY <1>3 DEF Shutdown, Domains
  <2>2. \A a \in Agents : CallInv(a)'
    BY <1>3 DEF Shutdown, CallInv
  <2>3. Installs
    BY <1>3 DEF Shutdown, Installs, EndsAs, Reply
  <2>. QED
    BY <2>1, <2>2, <2>3 DEF CallsInv
<1>4. CASE UNCHANGED fileVars
  <2>1. Domains' /\ \A a \in Agents : CallInv(a)'
    BY <1>4 DEF fileVars, CallsInv, Domains, CallInv, Due, TempName
  <2>. QED
    BY <1>4, <2>1 DEF CallsInv
<1>. QED
  BY <1>1, <1>2, <1>3, <1>4 DEF FileToolsNext

\* The content of a call stays its own from where it is chosen to where it is
\* installed (file_edit.rs, file_write.rs).
THEOREM CallsInvariant == FileToolsSpec => []CallsInv
<1>1. CallsInv /\ [FileToolsNext]_fileVars => CallsInv'
  BY CallsStep
<1>. QED
  BY CallsInvInit, <1>1, PTL DEF FileToolsSpec

\* For any number of sessions on the same files, a call that returned ok has
\* put into its file the content it was given, or the replacement in what it
\* read, whatever other calls did meanwhile and however many of them failed.
THEOREM CallsInstall == FileToolsSpec => OkCallIsInstalled
<1>1. CallsInv /\ [FileToolsNext]_fileVars => [Installs]_fileVars
  BY CallsStep
<1>2. FileToolsSpec => [][Installs]_fileVars
  BY CallsInvariant, <1>1, PTL DEF FileToolsSpec
<1>. QED
  BY <1>2 DEF OkCallIsInstalled, Installs

-----------------------------------------------------------------------------
(* Replacements                                                            *)

LEMMA NaturalsHaveAMinimum ==
  ASSUME NEW N \in SUBSET Nat, N # {}
  PROVE  \E i \in N : \A j \in N : i <= j
<1>. DEFINE R == OpToRel(<, Nat)
<1>1. IsWellFoundedOn(R, Nat)
  BY NatLessThanWellFounded
<1>2. PICK i \in N : \A j \in N : ~(<<j, i>> \in R)
  <2>. HIDE DEF R
  <2>. QED
  BY <1>1, WFMin
<1>3. \A j \in N : ~(j < i)
  BY <1>2 DEF OpToRel
<1>. QED
  BY <1>3

LEMMA FlattenedIsASequence ==
  ASSUME NEW S, NEW n \in Nat, NEW seqs \in [1..n -> Seq(S)]
  PROVE  FlattenSeq(seqs) \in Seq(S)
<1>. DEFINE Flat(f, k) == /\ f \in [1..k -> Seq(S)]
                          /\ \A i \in 1..k : f[i] = IF i = 1 THEN seqs[i] ELSE f[i - 1] \o seqs[i]
            Bad == {k \in Nat : k <= n /\ ~ \E f : Flat(f, k)}
<1>1. Len(seqs) = n
  OBVIOUS
<1>2. ASSUME NEW k \in Nat, k + 1 <= n, NEW f, Flat(f, k)
      PROVE  \E g : Flat(g, k + 1)
  <2>. DEFINE last == IF k = 0 THEN seqs[1] ELSE f[k] \o seqs[k + 1]
              g == [i \in 1..(k + 1) |-> IF i <= k THEN f[i] ELSE last]
  <2>1. last \in Seq(S)
    <3>1. CASE k = 0
      BY <1>2, <3>1
    <3>2. CASE k # 0
      <4>1. f[k] \in Seq(S) /\ seqs[k + 1] \in Seq(S)
        BY <1>2, <3>2
      <4>. QED
        BY <3>2, <4>1, ConcatProperties
    <3>. QED
      BY <3>1, <3>2
  <2>. HIDE DEF last
  <2>2. g \in [1..(k + 1) -> Seq(S)]
    BY <1>2, <2>1
  <2>3. ASSUME NEW i \in 1..(k + 1)
        PROVE  g[i] = IF i = 1 THEN seqs[i] ELSE g[i - 1] \o seqs[i]
    <3>1. CASE i <= k
      <4>1. g[i] = f[i] /\ i \in 1..k
        BY <3>1
      <4>2. f[i] = IF i = 1 THEN seqs[i] ELSE f[i - 1] \o seqs[i]
        BY <1>2, <4>1
      <4>3. i # 1 => i - 1 \in 1..(k + 1) /\ i - 1 <= k
        BY <3>1
      <4>4. i # 1 => g[i - 1] = f[i - 1]
        BY <4>3
      <4>. QED
        BY <4>1, <4>2, <4>4
    <3>2. CASE i = k + 1
      <4>1. k = 0 \/ (k \in 1..k /\ k \in 1..(k + 1))
        OBVIOUS
      <4>. QED
        BY <3>2, <4>1 DEF last
    <3>. QED
      BY <3>1, <3>2
  <2>. QED
    BY <2>2, <2>3
<1>3. Flat(<<>>, 0)
  OBVIOUS
<1>4. Bad = {}
  <2>. SUFFICES ASSUME Bad # {} PROVE FALSE
    OBVIOUS
  <2>. HIDE DEF Flat
  <2>1. PICK k \in Bad : \A j \in Bad : k <= j
    BY NaturalsHaveAMinimum
  <2>2. k # 0
    BY <1>3
  <2>3. k - 1 \in Nat /\ k - 1 <= n /\ (k - 1) + 1 = k /\ k <= n /\ ~(k <= k - 1)
    BY <2>2
  <2>4. PICK f : Flat(f, k - 1)
    BY <2>1, <2>3
  <2>. QED
    BY <1>2, <2>3, <2>4
<1>5. PICK f : Flat(f, n)
  <2>. HIDE DEF Flat
  <2>1. n <= n
    OBVIOUS
  <2>2. n \notin Bad
    BY <1>4
  <2>. QED
    BY <2>1, <2>2, Zenon
<1>. DEFINE Unfolds(g) == g = [i \in 1..Len(seqs) |-> IF i = 1 THEN seqs[i] ELSE g[i - 1] \o seqs[i]]
            flatten == CHOOSE g : Unfolds(g)
<1>6. Unfolds(flatten)
  <2>1. f = [i \in 1..n |-> IF i = 1 THEN seqs[i] ELSE f[i - 1] \o seqs[i]]
    BY <1>5
  <2>2. Unfolds(f)
    BY <1>1, <2>1
  <2>. HIDE DEF Unfolds
  <2>. QED
    BY <2>2
<1>7. FlattenSeq(seqs) = IF n = 0 THEN seqs ELSE flatten[n]
  BY <1>1 DEF FlattenSeq
<1>. HIDE DEF flatten
<1>8. \A i \in 1..n : flatten[i] = IF i = 1 THEN seqs[i] ELSE flatten[i - 1] \o seqs[i]
  BY <1>1, <1>6
<1>9. \A i \in 1..n : flatten[i] \in Seq(S)
  <2>. DEFINE Wrong == {i \in 1..n : flatten[i] \notin Seq(S)}
  <2>. SUFFICES ASSUME Wrong # {} PROVE FALSE
    OBVIOUS
  <2>1. PICK i \in Wrong : \A j \in Wrong : i <= j
    <3>1. Wrong \in SUBSET Nat
      OBVIOUS
    <3>. QED
      BY <3>1, NaturalsHaveAMinimum
  <2>2. CASE i = 1
    BY <1>8, <2>1, <2>2
  <2>3. CASE i # 1
    <3>1. i - 1 \in 1..n /\ ~(i <= i - 1) /\ i \in 1..n
      BY <2>3
    <3>4. i - 1 \notin Wrong
      BY <2>1, <3>1
    <3>2. flatten[i - 1] \in Seq(S) /\ seqs[i] \in Seq(S)
      BY <3>1, <3>4
    <3>3. flatten[i - 1] \o seqs[i] \in Seq(S)
      BY <3>2, ConcatProperties
    <3>. QED
      BY <1>8, <2>1, <2>3, <3>1, <3>3
  <2>. QED
    BY <2>2, <2>3
<1>10. CASE n = 0
  <2>1. seqs = <<>>
    BY <1>10
  <2>. QED
    BY <1>7, <1>10, <2>1, EmptySeq
<1>11. CASE n # 0
  BY <1>7, <1>9, <1>11
<1>. QED
  BY <1>10, <1>11

\* What a call is about to write is a whole text; the parts of a write are in
\* temporary files that nobody renames.
FilesInv ==
  /\ CallsInv /\ FileToolsTypeOK /\ FilesAreWhole
  /\ \A a \in Agents : fpc[a] \in {"writing", "renaming"} => draft[a] \in Texts

-----------------------------------------------------------------------------
(* Texts                                                                   *)

LEMMA TextsAreSequences ==
  ASSUME NEW text
  PROVE  text \in Texts <=> text \in Seq(Tokens) /\ Len(text) <= SizeLimit + 1
<1>1. SizeLimit + 1 \in Nat
  BY FileToolsAssumption
<1>2. ASSUME text \in Texts PROVE text \in Seq(Tokens) /\ Len(text) <= SizeLimit + 1
  <2>1. PICK n \in 0..(SizeLimit + 1) : text \in [1..n -> Tokens]
    BY <1>2 DEF Texts, BoundedSeq, SeqOf
  <2>2. n \in Nat
    BY <2>1
  <2>. QED
    BY <2>1, <2>2
<1>3. ASSUME text \in Seq(Tokens), Len(text) <= SizeLimit + 1 PROVE text \in Texts
  <2>1. Len(text) \in Nat /\ text \in [1..Len(text) -> Tokens]
    BY <1>3, LenProperties
  <2>2. Len(text) \in 0..(SizeLimit + 1)
    BY <1>1, <1>3, <2>1
  <2>. QED
    BY <2>1, <2>2 DEF Texts, BoundedSeq, SeqOf
<1>. QED
  BY <1>2, <1>3

LEMMA OutOfTexts == NoSuchFile \notin Texts /\ Partial \notin Texts /\ NoSuchFile # Partial
                    /\ <<>> \in Texts
<1>1. <<>> \in Seq(Tokens) /\ Len(<<>>) = 0
  BY EmptySeq
<1>2. 0 <= SizeLimit + 1
  BY FileToolsAssumption
<1>3. <<>> \in Texts
  BY <1>1, <1>2, TextsAreSequences
<1>. QED
  BY <1>3, FileToolsAssumption DEF Texts

\* A replacement in a text gives a sequence of tokens.
LEMMA SubstitutedIsASequence ==
  ASSUME NEW text \in Texts, NEW prior \in Tokens, NEW new \in NewStrings, NEW all \in BOOLEAN
  PROVE  Substituted(text, prior, new, all) \in Seq(Tokens)
<1>1. text \in Seq(Tokens) /\ Len(text) \in Nat /\ DOMAIN text = 1..Len(text)
  BY TextsAreSequences, LenProperties
<1>2. new \in Seq(Tokens)
  BY FileToolsAssumption
<1>. DEFINE here(i) == text[i] = prior /\ (all \/ i = SelectInSeq(text, LAMBDA token : token = prior))
            seqs == [i \in DOMAIN text |-> IF here(i) THEN new ELSE <<text[i]>>]
<1>3. \A i \in 1..Len(text) : <<text[i]>> \in Seq(Tokens)
  BY <1>1
<1>4. seqs \in [1..Len(text) -> Seq(Tokens)]
  <2>. HIDE DEF here
  <2>. QED
    BY <1>1, <1>2, <1>3
<1>5. Substituted(text, prior, new, all) = FlattenSeq(seqs)
  BY DEF Substituted
<1>. HIDE DEF seqs
<1>. QED
  BY <1>1, <1>4, <1>5, FlattenedIsASequence

-----------------------------------------------------------------------------
(* The steps                                                               *)

LEMMA SpentIsCounted ==
  ASSUME spent \in [{"calls", "faults", "shutdowns", "changes"} -> Nat],
         NEW what \in {"calls", "faults", "shutdowns", "changes"}, NEW bound, Spend(what, bound)
  PROVE  spent' \in [{"calls", "faults", "shutdowns", "changes"} -> Nat]
  BY DEF Spend

LEMMA ReturnTypes ==
  ASSUME FilesInv, NEW a \in Agents, NEW r, Return(a, r), CallsInv',
         r.outcome \in Outcomes, r.lines \in Texts,
         tree' \in [Targets -> OnDisk], temp' \in [TempNames -> OnDisk], FilesAreWhole',
         known' \in [Agents -> [Targets -> OnDisk]],
         spent' \in [{"calls", "faults", "shutdowns", "changes"} -> Nat]
  PROVE  FilesInv'
<1>1. /\ job' = [job EXCEPT ![a] = NoJob] /\ fpc' = [fpc EXCEPT ![a] = "idle"]
      /\ basis' = [basis EXCEPT ![a] = NoSuchFile] /\ draft' = [draft EXCEPT ![a] = NoSuchFile]
      /\ reply' = [reply EXCEPT ![a] = r]
  BY DEF Return
<1>2. NoSuchFile \in OnDisk
  BY DEF OnDisk
<1>3. \A b \in Agents : fpc'[b] \in {"writing", "renaming"} => draft'[b] \in Texts
  BY <1>1 DEF FilesInv, FileToolsTypeOK
<1>4. /\ \A b \in Agents : job'[b] = NoJob \/ job'[b] \in EditJob \cup WriteJob \cup ReadJob
      /\ \A b \in Agents : reply'[b].outcome \in Outcomes /\ reply'[b].lines \in Texts
  BY <1>1 DEF FilesInv, FileToolsTypeOK, CallsInv, Domains
<1>5. FileToolsTypeOK'
  BY <1>1, <1>2, <1>4 DEF FilesInv, FileToolsTypeOK
<1>. QED
  BY <1>3, <1>5 DEF FilesInv

LEMMA GoOnTypes ==
  ASSUME FilesInv, NEW a \in Agents, NEW j \in EditJob \cup WriteJob \cup ReadJob,
         NEW p \in {"reading", "writing", "renaming"}, NEW prior \in OnDisk, NEW new \in OnDisk,
         GoOn(a, j, p, prior, new), CallsInv',
         p \in {"writing", "renaming"} => new \in Texts,
         tree' = tree, temp' \in [TempNames -> OnDisk],
         known' \in [Agents -> [Targets -> OnDisk]],
         spent' \in [{"calls", "faults", "shutdowns", "changes"} -> Nat]
  PROVE  FilesInv'
<1>1. /\ job' = [job EXCEPT ![a] = j] /\ fpc' = [fpc EXCEPT ![a] = p]
      /\ basis' = [basis EXCEPT ![a] = prior] /\ draft' = [draft EXCEPT ![a] = new]
      /\ reply' = reply
  BY DEF GoOn
<1>2. FilesAreWhole'
  BY DEF FilesInv, FilesAreWhole
<1>3. \A b \in Agents : fpc'[b] \in {"writing", "renaming"} => draft'[b] \in Texts
  BY <1>1 DEF FilesInv, FileToolsTypeOK
<1>4. \A b \in Agents : job'[b] = NoJob \/ job'[b] \in EditJob \cup WriteJob \cup ReadJob
  BY <1>1 DEF FilesInv, FileToolsTypeOK, CallsInv, Domains
<1>5. fpc' \in [Agents -> {"idle", "reading", "writing", "renaming"}]
      /\ basis' \in [Agents -> OnDisk] /\ draft' \in [Agents -> OnDisk]
  BY <1>1 DEF FilesInv, FileToolsTypeOK
<1>6. FileToolsTypeOK'
  BY <1>1, <1>4, <1>5 DEF FilesInv, FileToolsTypeOK
<1>. QED
  BY <1>2, <1>3, <1>6 DEF FilesInv

\* A call is in the job of its kind, on a file of the tree.
LEMMA JobsAreTyped ==
  ASSUME FilesInv, NEW a \in Agents, fpc[a] # "idle"
  PROVE  /\ job[a] \in EditJob \cup WriteJob \cup ReadJob
         /\ job[a].file \in Targets /\ tree[job[a].file] \in Texts \cup {NoSuchFile}
         /\ TempName(a) \in TempNames
<1>1. job[a] \in EditJob \cup WriteJob \cup ReadJob
  BY DEF FilesInv, CallsInv, CallInv
<1>2. job[a].file \in Targets
  BY <1>1, JobsHaveFiles
<1>3. tree[job[a].file] \in OnDisk /\ tree[job[a].file] # Partial
  BY <1>2 DEF FilesInv, FileToolsTypeOK, FilesAreWhole
<1>. QED
  BY <1>1, <1>2, <1>3 DEF OnDisk, TempName, TempNames

\* The parts of the state a step may leave alone.
LEMMA FilesParts ==
  ASSUME FilesInv
  PROVE  /\ tree \in [Targets -> OnDisk] /\ temp \in [TempNames -> OnDisk]
         /\ known \in [Agents -> [Targets -> OnDisk]]
         /\ spent \in [{"calls", "faults", "shutdowns", "changes"} -> Nat]
         /\ FilesAreWhole
  BY DEF FilesInv, FileToolsTypeOK

LEMMA RepliesAreTyped ==
  ASSUME NEW o \in Outcomes
  PROVE  Reply(o).outcome \in Outcomes /\ Reply(o).lines \in Texts
  BY OutOfTexts DEF Reply

LEMMA StartsTyped ==
  ASSUME FilesInv, CallsInv', NEW a \in Agents, NEW j \in EditJob \cup WriteJob \cup ReadJob,
         Spend("calls", MaxToolCalls), UNCHANGED <<tree, temp, known>>,
         \/ GoOn(a, j, "reading", NoSuchFile, NoSuchFile)
         \/ j.tool = "write" /\ GoOn(a, j, "writing", NoSuchFile, j.content)
         \/ \E o \in Outcomes : Return(a, Reply(o))
  PROVE  FilesInv'
<1>1. spent' \in [{"calls", "faults", "shutdowns", "changes"} -> Nat]
  BY FilesParts, SpentIsCounted
<1>2. /\ tree' \in [Targets -> OnDisk] /\ temp' \in [TempNames -> OnDisk]
      /\ known' \in [Agents -> [Targets -> OnDisk]] /\ FilesAreWhole'
  BY FilesParts DEF FilesAreWhole
<1>3. NoSuchFile \in OnDisk
  BY DEF OnDisk
<1>4. CASE GoOn(a, j, "reading", NoSuchFile, NoSuchFile)
  BY <1>1, <1>2, <1>3, <1>4, GoOnTypes
<1>5. CASE j.tool = "write" /\ GoOn(a, j, "writing", NoSuchFile, j.content)
  <2>1. j.content \in NewTexts
    BY <1>5, JobsHaveFiles DEF WriteJob
  <2>2. j.content \in Texts /\ j.content \in OnDisk
    BY <2>1, FileToolsAssumption DEF Texts, OnDisk
  <2>. QED
    BY <1>1, <1>2, <1>3, <1>5, <2>2, GoOnTypes
<1>6. CASE \E o \in Outcomes : Return(a, Reply(o))
  BY <1>1, <1>2, <1>6, ReturnTypes, RepliesAreTyped
<1>. QED
  BY <1>4, <1>5, <1>6

LEMMA KnownIsTyped ==
  ASSUME FilesInv, NEW a \in Agents, NEW t \in Targets, NEW text \in OnDisk,
         Learn(a, t, text)
  PROVE  known' \in [Agents -> [Targets -> OnDisk]]
  BY FilesParts DEF Learn

LEMMA ReadForEditTyped ==
  ASSUME FilesInv, CallsInv', NEW a \in Agents, ReadForEdit(a)
  PROVE  FilesInv'
<1>. DEFINE text == tree[job[a].file]
            new == Substituted(text, job[a].old, job[a].new, job[a].all)
<1>1. fpc[a] # "idle" /\ job[a].tool = "edit" /\ UNCHANGED <<tree, temp, spent>>
  BY DEF ReadForEdit
<1>2. job[a] \in EditJob /\ job[a].file \in Targets /\ text \in Texts \cup {NoSuchFile}
  BY <1>1, JobsAreTyped, JobsHaveFiles
<1>3. text \in OnDisk
  BY <1>2 DEF OnDisk
<1>4. known' \in [Agents -> [Targets -> OnDisk]]
  <2>1. known' = known \/ Learn(a, job[a].file, text)
    BY DEF ReadForEdit
  <2>. QED
    BY <1>2, <1>3, <2>1, KnownIsTyped, FilesParts
<1>5. /\ tree' \in [Targets -> OnDisk] /\ temp' \in [TempNames -> OnDisk]
      /\ spent' \in [{"calls", "faults", "shutdowns", "changes"} -> Nat] /\ FilesAreWhole'
  BY <1>1, FilesParts DEF FilesAreWhole
<1>6. ASSUME NEW o \in Outcomes, Return(a, Reply(o)) PROVE FilesInv'
  BY <1>4, <1>5, <1>6, ReturnTypes, RepliesAreTyped
<1>7. ASSUME text # NoSuchFile, Len(new) <= SizeLimit, GoOn(a, job[a], "writing", text, new)
      PROVE  FilesInv'
  <2>1. new \in Seq(Tokens)
    BY <1>2, <1>7, SubstitutedIsASequence DEF EditJob
  <2>2. Len(new) <= SizeLimit + 1
    BY <1>7, <2>1, LenProperties, FileToolsAssumption
  <2>3. new \in Texts /\ new \in OnDisk
    BY <2>1, <2>2, TextsAreSequences DEF OnDisk
  <2>. HIDE DEF new, text
  <2>. QED
    BY <1>1, <1>2, <1>3, <1>4, <1>5, <1>7, <2>3, GoOnTypes
<1>8. \/ \E o \in Outcomes : Return(a, Reply(o))
      \/ /\ text # NoSuchFile /\ Len(new) <= SizeLimit
         /\ GoOn(a, job[a], "writing", text, new)
  BY DEF ReadForEdit, Outcomes
<1>. QED
  BY <1>6, <1>7, <1>8

LEMMA WriteTempTyped ==
  ASSUME FilesInv, CallsInv', NEW a \in Agents, WriteTemp(a)
  PROVE  FilesInv'
<1>1. fpc[a] = "writing" /\ UNCHANGED <<tree, known>>
  BY DEF WriteTemp, TempWritten, TempFailed
<1>2. job[a] \in EditJob \cup WriteJob \cup ReadJob /\ TempName(a) \in TempNames
  BY <1>1, JobsAreTyped
<1>3. draft[a] \in Texts /\ basis[a] \in OnDisk
  BY <1>1 DEF FilesInv, FileToolsTypeOK
<1>4. /\ tree' \in [Targets -> OnDisk] /\ known' \in [Agents -> [Targets -> OnDisk]]
      /\ FilesAreWhole'
  BY <1>1, FilesParts DEF FilesAreWhole
<1>5. CASE TempWritten(a)
  <2>1. draft[a] \in OnDisk
    BY <1>3 DEF OnDisk
  <2>2. temp' \in [TempNames -> OnDisk]
    BY <1>2, <1>5, <2>1, FilesParts DEF TempWritten
  <2>3. GoOn(a, job[a], "renaming", basis[a], draft[a]) /\ spent' = spent /\ tree' = tree
    BY <1>1, <1>5 DEF TempWritten
  <2>. QED
    BY <1>2, <1>3, <1>4, <2>1, <2>2, <2>3, FilesParts, GoOnTypes
<1>6. CASE TempFailed(a)
  <2>1. temp' = [temp EXCEPT ![TempName(a)] = Partial] /\ Partial \in OnDisk
    BY <1>6 DEF TempFailed, OnDisk
  <2>2. temp' \in [TempNames -> OnDisk]
    BY <1>2, <2>1, FilesParts
  <2>3. Spend("faults", MaxDiskFaults) /\ Return(a, Reply("error")) /\ "error" \in Outcomes
    BY <1>6 DEF TempFailed, Outcomes
  <2>4. spent' \in [{"calls", "faults", "shutdowns", "changes"} -> Nat]
    BY <2>3, FilesParts, SpentIsCounted
  <2>. QED
    BY <1>4, <2>2, <2>3, <2>4, ReturnTypes, RepliesAreTyped
<1>. QED
  BY <1>5, <1>6 DEF WriteTemp

\* What is renamed is the whole draft.
LEMMA InstallTyped ==
  ASSUME FilesInv, CallsInv', NEW a \in Agents, Install(a)
  PROVE  FilesInv'
<1>1. fpc[a] = "renaming" /\ temp' = [temp EXCEPT ![TempName(a)] = NoSuchFile]
  BY DEF Install
<1>2. job[a].file \in Targets /\ TempName(a) \in TempNames
  BY <1>1, JobsAreTyped
<1>3. temp[TempName(a)] \in Texts
  BY <1>1 DEF FilesInv, CallsInv, CallInv
<1>4. temp[TempName(a)] \in OnDisk /\ temp[TempName(a)] # Partial /\ NoSuchFile \in OnDisk
  BY <1>3, OutOfTexts DEF OnDisk
<1>5. temp' \in [TempNames -> OnDisk]
  BY <1>1, <1>2, <1>4, FilesParts
<1>6. "ok" \in Outcomes /\ "error" \in Outcomes
  BY DEF Outcomes
<1>7. CASE Installed(a)
  <2>1. tree' \in [Targets -> OnDisk] /\ FilesAreWhole'
    BY <1>2, <1>4, <1>7, FilesParts DEF Installed, FilesAreWhole
  <2>2. known' \in [Agents -> [Targets -> OnDisk]]
    BY <1>2, <1>4, <1>7, KnownIsTyped DEF Installed
  <2>3. Return(a, Reply("ok")) /\ spent' = spent
    BY <1>7 DEF Installed
  <2>. QED
    BY <1>5, <1>6, <2>1, <2>2, <2>3, FilesParts, ReturnTypes, RepliesAreTyped
<1>8. CASE InstallFailed(a)
  <2>1. Return(a, Reply("error")) /\ Spend("faults", MaxDiskFaults) /\ UNCHANGED <<tree, known>>
    BY <1>8 DEF InstallFailed
  <2>2. /\ tree' \in [Targets -> OnDisk] /\ known' \in [Agents -> [Targets -> OnDisk]]
        /\ FilesAreWhole'
    BY <2>1, FilesParts DEF FilesAreWhole
  <2>3. spent' \in [{"calls", "faults", "shutdowns", "changes"} -> Nat]
    BY <2>1, FilesParts, SpentIsCounted
  <2>. QED
    BY <1>5, <1>6, <2>1, <2>2, <2>3, ReturnTypes, RepliesAreTyped
<1>. QED
  BY <1>7, <1>8 DEF Install

\* A read: the slice between two lines is a text.
LEMMA Modulo ==
  ASSUME NEW m \in Nat \ {0}, NEW n \in Nat
  PROVE  n % m \in 0..(m - 1) /\ (n < m => n % m = n)
  OBVIOUS

LEMMA LinesAreAText ==
  ASSUME NEW text \in Texts, NEW offset \in Nat, NEW limit \in Nat
  PROVE  /\ Len(text) \in Nat /\ FirstLine(offset) \in Nat
         /\ PastLine(offset, limit, Len(text)) \in 0..Len(text)
         /\ SubSeq(text, FirstLine(offset) + 1, PastLine(offset, limit, Len(text))) \in Texts
<1>. DEFINE f == FirstLine(offset)
            p == PastLine(offset, limit, Len(text))
            s == SubSeq(text, f + 1, p)
<1>1. text \in Seq(Tokens) /\ Len(text) <= SizeLimit + 1 /\ Len(text) \in Nat
      /\ \A i \in 1..Len(text) : text[i] \in Tokens
  BY TextsAreSequences, LenProperties, ElementOfSeq
<1>2. f \in Nat
  BY DEF FirstLine
<1>3. (f + limit) % UsizeLimit \in Nat
  <2>1. f + limit \in Nat /\ UsizeLimit \in Nat \ {0}
    BY <1>2, FileToolsAssumption
  <2>. HIDE DEF f
  <2>. QED
    BY <2>1, Modulo
<1>4. p \in 0..Len(text)
  BY <1>1, <1>3 DEF PastLine
<1>. HIDE DEF f, p
<1>5. \A i \in (f + 1)..p : text[i] \in Tokens
  BY <1>1, <1>2, <1>4
<1>6. s \in Seq(Tokens) /\ Len(s) = IF f + 1 <= p THEN p - (f + 1) + 1 ELSE 0
  <2>1. f + 1 \in Int /\ p \in Int
    BY <1>2, <1>4, <1>1
  <2>. QED
    BY <1>5, <2>1, SubSeqProperties
<1>. HIDE DEF s
<1>7. Len(s) <= SizeLimit + 1
  BY <1>1, <1>2, <1>4, <1>6, FileToolsAssumption
<1>8. s \in Texts
  BY <1>6, <1>7, TextsAreSequences
<1>. QED
  BY <1>1, <1>2, <1>4, <1>8 DEF f, p, s

LEMMA ReadTyped ==
  ASSUME FilesInv, CallsInv', NEW a \in Agents, Read(a)
  PROVE  FilesInv'
<1>. DEFINE text == tree[job[a].file]
            lines == SubSeq(text, FirstLine(job[a].offset) + 1,
                            PastLine(job[a].offset, job[a].limit, Len(text)))
<1>1. fpc[a] # "idle" /\ job[a].tool = "read" /\ UNCHANGED <<tree, temp, spent>>
  BY DEF Read
<1>2. job[a] \in ReadJob /\ job[a].file \in Targets /\ text \in Texts \cup {NoSuchFile}
  BY <1>1, JobsAreTyped, JobsHaveFiles
<1>3. text \in OnDisk
  BY <1>2 DEF OnDisk
<1>4. known' \in [Agents -> [Targets -> OnDisk]]
  <2>1. known' = known \/ Learn(a, job[a].file, text)
    BY DEF Read
  <2>. QED
    BY <1>2, <1>3, <2>1, KnownIsTyped, FilesParts
<1>5. /\ tree' \in [Targets -> OnDisk] /\ temp' \in [TempNames -> OnDisk]
      /\ spent' \in [{"calls", "faults", "shutdowns", "changes"} -> Nat] /\ FilesAreWhole'
  BY <1>1, FilesParts DEF FilesAreWhole
<1>6. ASSUME NEW o \in Outcomes, Return(a, Reply(o)) PROVE FilesInv'
  BY <1>4, <1>5, <1>6, ReturnTypes, RepliesAreTyped
<1>7. ASSUME text # NoSuchFile, Return(a, [outcome |-> "ok", lines |-> lines])
      PROVE  FilesInv'
  <2>1. job[a].offset \in Nat /\ job[a].limit \in Nat /\ text \in Texts
    BY <1>2, <1>7, FileToolsAssumption DEF ReadJob
  <2>2. lines \in Texts
    BY <2>1, LinesAreAText
  <2>. HIDE DEF lines
  <2>3. "ok" \in Outcomes
    BY DEF Outcomes
  <2>. QED
    BY <1>4, <1>5, <1>7, <2>2, <2>3, ReturnTypes
<1>8. \/ \E o \in Outcomes : Return(a, Reply(o))
      \/ text # NoSuchFile /\ Return(a, [outcome |-> "ok", lines |-> lines])
  BY DEF Read, Outcomes
<1>. QED
  BY <1>6, <1>7, <1>8

LEMMA ChangeTyped ==
  ASSUME FilesInv, CallsInv', NEW t \in Targets, NEW text \in NewTexts \cup {NoSuchFile},
         Change(t, text)
  PROVE  FilesInv'
<1>1. text \in OnDisk /\ text # Partial
  BY FileToolsAssumption, OutOfTexts DEF OnDisk, Texts
<1>2. tree' \in [Targets -> OnDisk] /\ FilesAreWhole'
  BY <1>1, FilesParts DEF Change, FilesAreWhole
<1>3. spent' \in [{"calls", "faults", "shutdowns", "changes"} -> Nat]
  BY FilesParts, SpentIsCounted DEF Change
<1>4. UNCHANGED <<temp, job, fpc, basis, draft, reply, known>>
  BY DEF Change
<1>. QED
  BY <1>2, <1>3, <1>4 DEF FilesInv, FileToolsTypeOK

\* The renames that happened before the process ended were whole.
LEMMA ShutdownTyped ==
  ASSUME FilesInv, CallsInv', Shutdown
  PROVE  FilesInv'
<1>1. PICK done \in SUBSET {a \in Agents : fpc[a] = "renaming"},
           cut \in SUBSET {a \in Agents : fpc[a] = "writing"} :
        /\ tree' = [t \in Targets |->
             IF \E a \in done : job[a].file = t
             THEN temp[TempName(CHOOSE a \in done : job[a].file = t)] ELSE tree[t]]
        /\ temp' = [n \in TempNames |->
             CASE \E a \in done : TempName(a) = n -> NoSuchFile
               [] \E a \in cut : TempName(a) = n -> Partial
               [] OTHER -> temp[n]]
  BY DEF Shutdown
<1>2. NoSuchFile \in OnDisk /\ Partial \in OnDisk
  BY DEF OnDisk
<1>3. ASSUME NEW a \in done PROVE temp[TempName(a)] \in OnDisk \ {Partial}
  <2>1. temp[TempName(a)] \in Texts
    BY <1>3 DEF FilesInv, CallsInv, CallInv
  <2>. QED
    BY <2>1, OutOfTexts DEF OnDisk
<1>4. ASSUME NEW t \in Targets PROVE tree'[t] \in OnDisk \ {Partial}
  <2>1. tree[t] \in OnDisk \ {Partial}
    BY FilesParts DEF FilesAreWhole
  <2>2. CASE \E a \in done : job[a].file = t
    <3>1. (CHOOSE a \in done : job[a].file = t) \in done
      BY <2>2
    <3>. QED
      BY <1>1, <1>3, <2>2, <3>1
  <2>3. CASE ~\E a \in done : job[a].file = t
    BY <1>1, <2>1, <2>3
  <2>. QED
    BY <2>2, <2>3
<1>5. tree' \in [Targets -> OnDisk] /\ FilesAreWhole'
  <2>1. tree' = [t \in Targets |-> tree'[t]]
    BY <1>1
  <2>. QED
    BY <1>4, <2>1 DEF FilesAreWhole
<1>6. temp' \in [TempNames -> OnDisk]
  <2>1. \A n \in TempNames : temp[n] \in OnDisk
    BY FilesParts
  <2>2. ASSUME NEW n \in TempNames PROVE temp'[n] \in OnDisk
    <3>1. CASE \E a \in done : TempName(a) = n
      <4>1. ~\E a \in cut : TempName(a) = n
        BY <3>1 DEF TempName
      <4>. QED
        BY <1>1, <1>2, <3>1, <4>1
    <3>2. CASE ~\E a \in done : TempName(a) = n
      BY <1>1, <1>2, <2>1, <3>2
    <3>. QED
      BY <3>1, <3>2
  <2>3. temp' = [n \in TempNames |-> temp'[n]]
    BY <1>1
  <2>. QED
    BY <2>2, <2>3
<1>7. spent' \in [{"calls", "faults", "shutdowns", "changes"} -> Nat]
  BY FilesParts, SpentIsCounted DEF Shutdown
<1>8. /\ job' = [a \in Agents |-> NoJob] /\ fpc' = [a \in Agents |-> "idle"]
      /\ basis' = [a \in Agents |-> NoSuchFile] /\ draft' = [a \in Agents |-> NoSuchFile]
      /\ reply' = [a \in Agents |-> Reply("none")]
      /\ known' = [a \in Agents |-> [t \in Targets |-> NoSuchFile]]
  BY DEF Shutdown
<1>9. \A a \in Agents : reply'[a].outcome \in Outcomes /\ reply'[a].lines \in Texts
  <2>1. "none" \in Outcomes
    BY DEF Outcomes
  <2>. QED
    BY <1>8, <2>1, RepliesAreTyped
<1>10. FileToolsTypeOK'
  BY <1>2, <1>5, <1>6, <1>7, <1>8, <1>9 DEF FileToolsTypeOK
<1>. QED
  BY <1>5, <1>8, <1>10 DEF FilesInv

LEMMA FilesInvInit == FileToolsInit => FilesInv
<1>. SUFFICES ASSUME FileToolsInit PROVE FilesInv
  OBVIOUS
<1>1. NoSuchFile \in OnDisk /\ FirstTexts \subseteq OnDisk /\ Partial \notin FirstTexts
  BY FileToolsAssumption, OutOfTexts DEF OnDisk, Texts
<1>2. tree \in [Targets -> OnDisk] /\ FilesAreWhole
  <2>1. PICK texts \in [Targets \ Parentless -> FirstTexts \cup {NoSuchFile}] :
          tree = [t \in Targets |-> IF t \in Parentless THEN NoSuchFile ELSE texts[t]]
    BY DEF FileToolsInit
  <2>2. \A t \in Targets : tree[t] \in OnDisk /\ tree[t] # Partial
    BY <1>1, <2>1, OutOfTexts
  <2>3. tree = [t \in Targets |-> tree[t]]
    BY <2>1
  <2>. QED
    BY <2>2, <2>3 DEF FilesAreWhole
<1>3. \A a \in Agents : reply[a].outcome \in Outcomes /\ reply[a].lines \in Texts
  <2>1. "none" \in Outcomes
    BY DEF Outcomes
  <2>. QED
    BY <2>1, RepliesAreTyped DEF FileToolsInit
<1>4. FileToolsTypeOK
  BY <1>1, <1>2, <1>3 DEF FileToolsInit, FileToolsTypeOK
<1>. QED
  BY <1>2, <1>4, CallsInvInit DEF FileToolsInit, FilesInv

LEMMA FilesStep ==
  ASSUME FilesInv, [FileToolsNext]_fileVars
  PROVE  FilesInv'
<1>1. CallsInv'
  BY CallsStep DEF FilesInv
<1>2. ASSUME NEW a \in Agents, FileStep(a) PROVE FilesInv'
  <2>0. "reading" # "writing" /\ \A o \in {"refused", "too_large"} : o \in Outcomes
    BY DEF Outcomes
  <2>1. ASSUME NEW j \in EditJob, StartEdit(a, j) PROVE FilesInv'
    BY <1>1, <2>0, <2>1, StartsTyped DEF StartEdit
  <2>2. ASSUME NEW j \in WriteJob, StartWrite(a, j) PROVE FilesInv'
    <3>1. j.tool = "write"
      BY JobsHaveFiles
    <3>. QED
      BY <1>1, <2>0, <2>2, <3>1, StartsTyped DEF StartWrite
  <2>3. ASSUME NEW j \in ReadJob, StartRead(a, j) PROVE FilesInv'
    BY <1>1, <2>0, <2>3, StartsTyped DEF StartRead
  <2>. QED
    BY <1>1, <1>2, <2>1, <2>2, <2>3, ReadForEditTyped, WriteTempTyped, InstallTyped, ReadTyped
       DEF FileStep
<1>3. CASE UNCHANGED fileVars
  BY <1>1, <1>3 DEF fileVars, FilesInv, FileToolsTypeOK, FilesAreWhole
<1>. QED
  BY <1>1, <1>2, <1>3, ChangeTyped, ShutdownTyped DEF FileToolsNext

\* The files and the calls stay in their types, and what a call is about to
\* install is whole.
THEOREM FilesInvariant == FileToolsSpec => []FilesInv
<1>1. FilesInv /\ [FileToolsNext]_fileVars => FilesInv'
  BY FilesStep
<1>. QED
  BY FilesInvInit, <1>1, PTL DEF FileToolsSpec

\* The state of the file tools stays in its types (file_edit.rs, file_write.rs,
\* file_read.rs).
THEOREM ToolsStayTyped == FileToolsSpec => []FileToolsTypeOK
<1>1. FilesInv => FileToolsTypeOK
  BY DEF FilesInv
<1>. QED
  BY FilesInvariant, <1>1, PTL

\* With failed writes, failed renames and the process ending inside any call,
\* no target holds a part of a write: what a rename installs is a whole draft.
THEOREM TargetsAreWhole == FileToolsSpec => []FilesAreWhole
<1>1. FilesInv => FilesAreWhole
  BY DEF FilesInv
<1>. QED
  BY FilesInvariant, <1>1, PTL

-----------------------------------------------------------------------------
(* What a read returns                                                     *)

\* The property of one step.
ReadsTheLines ==
  \A a \in Agents : EndsAs(a, "read", "ok") =>
    reply'[a].lines = LinesOf(tree[job[a].file], job[a].offset, job[a].limit)

LEMMA Overlap ==
  ASSUME NEW f \in Nat, NEW limit \in Nat, NEW total \in Nat, NEW p,
         p = IF f + limit < total THEN f + limit ELSE total
  PROVE  /\ p \in Nat /\ p <= total
         /\ ((f + 1)..((f + 1) + limit - 1)) \cap (1..total) = (f + 1)..p
  OBVIOUS

\* The lines counted without the width of usize are the slice that is taken when
\* the sum does not overflow, and there are none when it does past the end.
LEMMA LinesOfASlice ==
  ASSUME NEW text \in Texts, NEW offset \in 0..(UsizeLimit - 1), NEW limit \in 0..(UsizeLimit - 1)
  PROVE  /\ ~Overflows(offset, limit) =>
              LinesOf(text, offset, limit) =
                SubSeq(text, FirstLine(offset) + 1, PastLine(offset, limit, Len(text)))
         /\ FirstLine(offset) >= Len(text) => LinesOf(text, offset, limit) = <<>>
<1>. DEFINE from == IF offset = 0 THEN 1 ELSE offset
            here == (from..(from + limit - 1)) \cap DOMAIN text
            lines == [k \in 1..Cardinality(here) |-> text[from + k - 1]]
            f == FirstLine(offset)
            p == PastLine(offset, limit, Len(text))
            s == SubSeq(text, f + 1, p)
<1>1. offset \in Nat /\ limit \in Nat /\ UsizeLimit \in Nat \ {0}
  BY FileToolsAssumption
<1>2. /\ text \in Seq(Tokens) /\ Len(text) \in Nat /\ DOMAIN text = 1..Len(text)
      /\ \A i \in 1..Len(text) : text[i] \in Tokens
  BY TextsAreSequences, LenProperties, ElementOfSeq
<1>3. f \in Nat /\ from = f + 1
  BY <1>1 DEF FirstLine
<1>4. ASSUME ~Overflows(offset, limit) PROVE lines = s
  <2>1. (f + limit) % UsizeLimit = f + limit
    <3>1. f + limit < UsizeLimit /\ f + limit \in Nat
      BY <1>1, <1>3, <1>4 DEF Overflows
    <3>. HIDE DEF f
    <3>. QED
      BY <1>1, <3>1, Modulo
  <2>2. p = IF f + limit < Len(text) THEN f + limit ELSE Len(text)
    BY <2>1 DEF PastLine
  <2>3. here = (from..(from + limit - 1)) \cap (1..Len(text))
    BY <1>2
  <2>. HIDE DEF f, p, from, here
  <2>4. p \in Nat /\ p <= Len(text) /\ here = (f + 1)..p
    <3>1. f \in Nat /\ limit \in Nat /\ Len(text) \in Nat
      BY <1>1, <1>2, <1>3
    <3>2. /\ p \in Nat /\ p <= Len(text)
          /\ ((f + 1)..((f + 1) + limit - 1)) \cap (1..Len(text)) = (f + 1)..p
      BY ONLY <3>1, <2>2, Overlap
    <3>. QED
      BY <1>3, <2>3, <3>2
  <2>5. Cardinality(here) = IF f + 1 > p THEN 0 ELSE p - (f + 1) + 1
    <3>1. f + 1 \in Int /\ p \in Int
      BY <1>3, <2>4
    <3>. QED
      BY <2>4, <3>1, FS_Interval
  <2>6. \A i \in (f + 1)..p : text[i] \in Tokens
    BY <1>2, <1>3, <2>4
  <2>7. /\ s \in Seq(Tokens) /\ Len(s) = IF f + 1 <= p THEN p - (f + 1) + 1 ELSE 0
        /\ \A i \in 1..(p - (f + 1) + 1) : s[i] = text[(f + 1) + i - 1]
    <3>1. f + 1 \in Int /\ p \in Int
      BY <1>3, <2>4
    <3>. QED
      BY <2>6, <3>1, SubSeqProperties
  <2>. HIDE DEF s
  <2>8. Cardinality(here) = Len(s)
    BY <1>3, <2>4, <2>5, <2>7
  <2>9. s = [k \in 1..Len(s) |-> s[k]]
    BY <2>7, LenProperties
  <2>10. \A k \in 1..Len(s) : s[k] = text[from + k - 1]
    BY <1>3, <2>4, <2>7
  <2>. QED
    BY <2>8, <2>9, <2>10
<1>5. ASSUME FirstLine(offset) >= Len(text) PROVE lines = <<>>
  <2>1. here = {}
    BY <1>1, <1>2, <1>3, <1>5
  <2>2. Cardinality(here) = 0
    BY <2>1, FS_EmptySet
  <2>. HIDE DEF here
  <2>. QED
    BY <2>2
<1>6. LinesOf(text, offset, limit) = lines
  BY DEF LinesOf
<1>7. s = SubSeq(text, FirstLine(offset) + 1, PastLine(offset, limit, Len(text)))
  OBVIOUS
<1>. HIDE DEF lines, s
<1>. QED
  BY ONLY <1>4, <1>5, <1>6, <1>7

LEMMA ReadStep ==
  ASSUME FilesInv, NEW a \in Agents, Read(a), EndsAs(a, "read", "ok")
  PROVE  reply'[a].lines = LinesOf(tree[job[a].file], job[a].offset, job[a].limit)
<1>. DEFINE text == tree[job[a].file]
            offset == job[a].offset
            limit == job[a].limit
            slice == SubSeq(text, FirstLine(offset) + 1, PastLine(offset, limit, Len(text)))
<1>1. job[a] \in ReadJob /\ text \in Texts \cup {NoSuchFile}
  BY JobsAreTyped, JobsHaveFiles DEF Read
<1>2. offset \in 0..(UsizeLimit - 1) /\ limit \in 0..(UsizeLimit - 1)
  BY <1>1 DEF ReadJob
<1>3. \A r : Return(a, r) => reply'[a] = r
  BY DEF Return, FilesInv, CallsInv, Domains
<1>4. reply'[a].outcome = "ok"
  BY DEF EndsAs
<1>5. \/ text # NoSuchFile /\ ~Overflows(offset, limit) /\ reply'[a].lines = slice
      \/ text # NoSuchFile /\ FirstLine(offset) >= Len(text) /\ reply'[a].lines = <<>>
  BY <1>3, <1>4 DEF Read, Reply
<1>. QED
  <2>1. text \in Texts
    BY <1>1, <1>5
  <2>2. /\ ~Overflows(offset, limit) => LinesOf(text, offset, limit) = slice
        /\ FirstLine(offset) >= Len(text) => LinesOf(text, offset, limit) = <<>>
    BY <1>2, <2>1, LinesOfASlice
  <2>. QED
    BY ONLY <1>5, <2>2

LEMMA ReadsStep ==
  ASSUME FilesInv, [FileToolsNext]_fileVars
  PROVE  [ReadsTheLines]_fileVars
<1>. SUFFICES ASSUME FileToolsNext, NEW a \in Agents, EndsAs(a, "read", "ok")
              PROVE  reply'[a].lines = LinesOf(tree[job[a].file], job[a].offset, job[a].limit)
  BY DEF ReadsTheLines
<1>1. /\ job[a] # NoJob /\ job[a].tool = "read" /\ job'[a] = NoJob /\ reply'[a].outcome = "ok"
  BY DEF EndsAs
<1>2. CallInv(a)
  BY DEF FilesInv, CallsInv
<1>3. Read(a)
  <2>1. ASSUME NEW b \in Agents, FileStep(b) PROVE Read(a)
    <3>1. StepKeeps(b)
      BY <2>1, StartEditKeeps, StartWriteKeeps, StartReadKeeps, ReadForEditKeeps, WriteTempKeeps,
         InstallKeeps, ReadKeeps DEF FileStep, FilesInv
    <3>2. b = a
      BY <1>1, <3>1 DEF StepKeeps, Alone
    <3>. QED
      BY <1>1, <1>2, <2>1, <3>2
         DEF FileStep, CallInv, StartEdit, StartWrite, StartRead, ReadForEdit, WriteTemp, Install
  <2>2. ~ \E t \in Targets, text \in NewTexts \cup {NoSuchFile} : Change(t, text)
    BY <1>1 DEF Change
  <2>3. ~Shutdown
    BY <1>1 DEF Shutdown, Reply
  <2>. QED
    BY <2>1, <2>2, <2>3 DEF FileToolsNext
<1>. QED
  BY <1>3, ReadStep

\* A read that ends well returns exactly the lines from its offset on, as many
\* as asked for or as there are, for every width of usize: where the sum wraps,
\* only the build that does not panic goes on, and only when there is no line.
THEOREM ReadsAreExact == FileToolsSpec => ReadReturnsTheLines
<1>1. FilesInv /\ [FileToolsNext]_fileVars => [ReadsTheLines]_fileVars
  BY ReadsStep
<1>2. FileToolsSpec => [][ReadsTheLines]_fileVars
  BY FilesInvariant, <1>1, PTL DEF FileToolsSpec
<1>. QED
  BY <1>2 DEF ReadReturnsTheLines, ReadsTheLines

-----------------------------------------------------------------------------
(* The token store                                                         *)

Salted == inodeAt["salt"] # NoInode
TheSalt == content[inodeAt["salt"]]
InUse == {"ready"} \cup Writing

\* Nobody works beside another.
Apart ==
  /\ \A p, q \in Processes : p # q =>
       /\ ~(step[p] \in StartingUp /\ step[q] \in StartingUp)
       /\ ~(step[p] \in Writing /\ step[q] \in Writing)

\* What the files hold between two writes.
FilesHold ==
  /\ Salted => \E p \in Processes : TheSalt = SaltOf(p)
  /\ ~Salted => inodeAt["enc"] = NoInode
  /\ inodeAt["enc"] = NoInode => stored = 0
  /\ inodeAt["enc"] # NoInode => content[inodeAt["enc"]] = Sealed(TheSalt, stored)
  /\ loaded.got = loaded.due

\* What a process knows of the files it works on.
Knows(p) ==
  /\ step[p] # "rereading"
  /\ step[p] \in InUse => Salted /\ salt[p] = TheSalt
  /\ step[p] \in {"creating", "filling", "installing"} => ~Salted
  /\ step[p] \in {"filling", "installing"} => handle[p] = inodeAt["salt.tmp"]
  /\ step[p] = "installing" => content[handle[p]] = SaltOf(p)
  /\ step[p] \in {"writing", "renaming"} => handle[p] = inodeAt["enc.tmp"]
  /\ step[p] = "renaming" => content[handle[p]] = Sealed(salt[p], storing[p])

\* Whatever races: two paths never name one inode, and what was opened as a file
\* of credentials never becomes the salt.
TokenTypes ==
  /\ TokenTypeOK
  /\ \A a, b \in DataFiles : inodeAt[a] = inodeAt[b] /\ inodeAt[a] # NoInode => a = b
  /\ \A f \in {"salt", "salt.tmp"} : inodeAt[f] # NoInode =>
       /\ content[inodeAt[f]] \in Salts \cup {Blank}
       /\ \A p \in Processes : step[p] \in {"writing", "renaming"} => handle[p] # inodeAt[f]
  /\ \A p \in Processes :
       /\ step[p] \in {"filling", "installing", "writing", "renaming"} => handle[p] # NoInode
       /\ step[p] \in {"creating", "filling", "installing"} => tries[p] < SaltTries
       /\ step[p] \in {"down", "probing"} => tries[p] = 0
       /\ step[p] = "rereading" => tries[p] <= SaltTries

TokenInv ==
  /\ TokenTypes
  /\ ~raced => Apart /\ FilesHold /\ \A p \in Processes : Knows(p)

-----------------------------------------------------------------------------

LEMMA TokenInvInit == TokenInit => TokenInv
<1>. SUFFICES ASSUME TokenInit PROVE TokenInv
  OBVIOUS
<1>1. content \in Seq(TokenFiles) /\ DOMAIN content = {}
  BY EmptySeq DEF TokenInit
<1>2. loaded.got = loaded.due /\ DOMAIN loaded = {"got", "due"}
  BY DEF TokenInit
<1>3. inodeAt \in [DataFiles -> DOMAIN content \cup {NoInode}]
      /\ handle \in [Processes -> DOMAIN content \cup {NoInode}]
  BY <1>1 DEF TokenInit
<1>6. /\ salt \in [Processes -> Salts] /\ step \in [Processes -> Steps]
      /\ \A p \in Processes : step[p] = "down"
  BY DEF TokenInit, Salts, Steps
<1>7. tally \in [{"stores", "deletes", "errors"} -> Nat]
  BY DEF TokenInit
<1>8. /\ tries \in [Processes -> 0 .. SaltTries + 1] /\ \A p \in Processes : tries[p] = 0
      /\ storing \in [Processes -> Versions] /\ stored \in Versions
  BY TokenAssumption DEF TokenInit, Versions
<1>9. raced \in BOOLEAN
  BY DEF TokenInit
<1>4. TokenTypes
  BY <1>1, <1>2, <1>3, <1>6, <1>7, <1>8, <1>9 DEF TokenInit, TokenTypes, TokenTypeOK, DataFiles
<1>5. Apart /\ FilesHold /\ \A p \in Processes : Knows(p)
  BY <1>2 DEF TokenInit, Apart, FilesHold, Knows, Salted, InUse, StartingUp, Writing, DataFiles
<1>. QED
  BY <1>4, <1>5 DEF TokenInv

\* Opening for writing leaves every other path and inode as they were.
LEMMA TruncateOpens ==
  ASSUME TokenTypes, NEW p \in Processes, NEW path \in DataFiles, Truncate(p, path)
  PROVE  /\ content' \in Seq(TokenFiles) /\ DOMAIN content \subseteq DOMAIN content'
         /\ inodeAt' \in [DataFiles -> DOMAIN content' \cup {NoInode}]
         /\ handle' = [handle EXCEPT ![p] = inodeAt'[path]]
         /\ inodeAt'[path] # NoInode
         /\ \A f \in DataFiles \ {path} :
              inodeAt'[f] = inodeAt[f] /\ inodeAt'[f] # inodeAt'[path]
         /\ content'[inodeAt'[path]] = Blank
         /\ \A i \in DOMAIN content \ {inodeAt'[path]} : content'[i] = content[i]
         /\ inodeAt'[path] \in DOMAIN content => inodeAt'[path] = inodeAt[path]
<1>1. /\ DOMAIN content = 1..Len(content) /\ Len(content) \in Nat
      /\ content \in Seq(TokenFiles) /\ Blank \in TokenFiles
      /\ inodeAt \in [DataFiles -> DOMAIN content \cup {NoInode}] /\ NoInode = 0
  BY LenProperties DEF TokenTypes, TokenTypeOK, TokenFiles, NoInode
<1>2. CASE inodeAt[path] = NoInode
  <2>1. content' = Append(content, Blank)
    BY <1>2 DEF Truncate
  <2>2. /\ content' \in Seq(TokenFiles) /\ Len(content') = Len(content) + 1
        /\ content'[Len(content) + 1] = Blank
        /\ \A i \in 1..Len(content) : content'[i] = content[i]
    BY <1>1, <2>1, AppendProperties
  <2>3. DOMAIN content' = 1..(Len(content) + 1)
    BY <2>2, LenProperties
  <2>4. /\ inodeAt' = [inodeAt EXCEPT ![path] = Len(content) + 1]
        /\ handle' = [handle EXCEPT ![p] = Len(content) + 1]
    BY <1>2, <2>2 DEF Truncate
  <2>. QED
    BY <1>1, <2>2, <2>3, <2>4
<1>3. CASE inodeAt[path] # NoInode
  <2>1. inodeAt[path] \in 1..Len(content)
    BY <1>1, <1>3
  <2>2. content' = [content EXCEPT ![inodeAt[path]] = Blank] /\ inodeAt' = inodeAt
        /\ handle' = [handle EXCEPT ![p] = inodeAt[path]]
    BY <1>3 DEF Truncate
  <2>3. content' \in Seq(TokenFiles) /\ Len(content') = Len(content)
    BY <1>1, <2>1, <2>2, ExceptSeq
  <2>4. DOMAIN content' = DOMAIN content /\ content'[inodeAt[path]] = Blank
        /\ \A i \in DOMAIN content \ {inodeAt[path]} : content'[i] = content[i]
    BY <1>1, <2>1, <2>2
  <2>. QED
    BY <1>1, <1>3, <2>2, <2>3, <2>4 DEF TokenTypes
<1>. QED
  BY <1>2, <1>3

LEMMA FillWrites ==
  ASSUME TokenTypeOK, NEW p \in Processes, handle[p] # NoInode, NEW bytes \in TokenFiles,
         Fill(p, bytes)
  PROVE  /\ content' \in Seq(TokenFiles) /\ DOMAIN content' = DOMAIN content
         /\ handle[p] \in DOMAIN content /\ content'[handle[p]] = bytes
         /\ \A i \in DOMAIN content \ {handle[p]} : content'[i] = content[i]
<1>1. /\ DOMAIN content = 1..Len(content) /\ content \in Seq(TokenFiles)
      /\ handle[p] \in 1..Len(content)
  BY LenProperties DEF TokenTypeOK
<1>2. content' = [content EXCEPT ![handle[p]] = bytes]
  BY DEF Fill
<1>3. content' \in Seq(TokenFiles)
  BY <1>1, <1>2, ExceptSeq
<1>. QED
  BY <1>1, <1>2, <1>3

LEMMA FilesAreFiles ==
  /\ \A p \in Processes : SaltOf(p) \in Salts
  /\ Salts \subseteq TokenFiles
  /\ \A s \in Salts, v \in Versions : Sealed(s, v) \in TokenFiles
  /\ \A p \in Processes : SaltOf(p) # Blank
  /\ \A s, v : Sealed(s, v) # Blank
<1>1. (\A p \in Processes : SaltOf(p) \in Salts) /\ Salts \subseteq TokenFiles
  BY DEF Salts, TokenFiles
<1>2. \A s \in Salts, v \in Versions : Sealed(s, v) \in TokenFiles
  BY DEF TokenFiles
<1>3. \A p \in Processes : SaltOf(p) # Blank
  BY DEF SaltOf, Blank
<1>4. \A s, v : Sealed(s, v) # Blank
  BY DEF Sealed, Blank
<1>. QED
  BY <1>1, <1>2, <1>3, <1>4

-----------------------------------------------------------------------------
(* Types                                                                   *)

LEMMA TalliesCount ==
  ASSUME tally \in [{"stores", "deletes", "errors"} -> Nat]
  PROVE  /\ [tally EXCEPT !.stores = @ + 1] \in [{"stores", "deletes", "errors"} -> Nat]
         /\ [tally EXCEPT !.deletes = @ + 1] \in [{"stores", "deletes", "errors"} -> Nat]
         /\ [tally EXCEPT !.errors = @ + 1] \in [{"stores", "deletes", "errors"} -> Nat]
  OBVIOUS

\* What a step of p leaves of the types when it writes no file: it moves p alone,
\* and no path comes to name an inode there is not.
LEMMA UnwrittenKeepTypes ==
  ASSUME TokenTypes, NEW p \in Processes,
         \/ Open(p) \/ InstallSalt(p) \/ SaltFails(p)
         \/ BeginStore(p) \/ RenameTemp(p) \/ StoreFails(p) \/ Load(p) \/ Delete(p) \/ Exit(p)
  PROVE  TokenTypes'
<1>. USE TokenAssumption
     DEF TokenTypes, TokenTypeOK, Go, diskVars, ghostVars, Steps, DataFiles, NoInode
<1>1. tally' \in [{"stores", "deletes", "errors"} -> Nat]
  BY TalliesCount
  DEF Open, InstallSalt, SaltFails, BeginStore, RenameTemp, StoreFails, Load, Delete, Exit
<1>2. raced' \in BOOLEAN
  BY DEF Open, InstallSalt, SaltFails, BeginStore, RenameTemp, StoreFails, Load, Delete, Exit
<1>3. CASE Open(p)
  BY <1>1, <1>2, <1>3 DEF Open
<1>4. CASE InstallSalt(p)
  BY <1>1, <1>2, <1>4, FilesAreFiles DEF InstallSalt, RenameOver
<1>5. CASE SaltFails(p)
  <2>1. /\ step[p] \in {"creating", "filling", "installing"}
        /\ step' = [step EXCEPT ![p] = "rereading"]
        /\ UNCHANGED <<inodeAt, content, salt, tries, handle, storing, stored, loaded>>
    BY <1>5 DEF SaltFails
  <2>. QED
    BY <1>1, <1>2, <2>1
<1>6. CASE BeginStore(p)
  <2>1. storing' \in [Processes -> Versions]
    BY <1>6 DEF BeginStore, Versions
  <2>. QED
    BY <1>1, <1>2, <1>6, <2>1 DEF BeginStore
<1>7. CASE RenameTemp(p)
  BY <1>1, <1>2, <1>7 DEF RenameTemp, RenameOver, TempPath
<1>8. CASE StoreFails(p)
  BY <1>1, <1>2, <1>8 DEF StoreFails, Writing
<1>9. CASE Load(p)
  BY <1>1, <1>2, <1>9 DEF Load
<1>10. CASE Delete(p)
  <2>1. /\ inodeAt' = [inodeAt EXCEPT !["enc"] = NoInode]
        /\ UNCHANGED <<content, step, salt, tries, handle, storing, loaded>>
    BY <1>10 DEF Delete
  <2>2. stored' \in Versions
    BY <1>10 DEF Delete, Versions
  <2>. QED
    BY <1>1, <1>2, <2>1, <2>2
<1>11. CASE Exit(p)
  BY <1>1, <1>2, <1>11 DEF Exit
<1>. QED
  BY <1>3, <1>4, <1>5, <1>6, <1>7, <1>8, <1>9, <1>10, <1>11

LEMMA SaltsAreRead ==
  ASSUME TokenTypes, NEW p \in Processes, ReadSalt(p) \/ RereadSalt(p)
  PROVE  TokenTypes'
<1>. USE TokenAssumption DEF TokenTypes, TokenTypeOK, Go, diskVars, ghostVars, Steps, NoInode
<1>1. ContentAt("salt") \in Salts \cup {Blank}
  BY DEF ContentAt
<1>2. CASE ReadSalt(p)
  <2>1. salt' \in [Processes -> Salts]
    BY <1>1, <1>2 DEF ReadSalt, Probe
  <2>2. /\ step' = [step EXCEPT ![p] = step'[p]] /\ step[p] = "probing"
        /\ step'[p] \in {"creating", "ready"}
        /\ UNCHANGED <<inodeAt, content, tries, stored, raced, loaded, handle, storing, tally>>
    BY <1>2 DEF ReadSalt, Probe
  <2>. QED
    BY <2>1, <2>2
<1>3. CASE RereadSalt(p)
  <2>1. salt' \in [Processes -> Salts]
    BY <1>1, <1>3 DEF RereadSalt
  <2>2. /\ tries' = [tries EXCEPT ![p] = @ + 1] /\ tries[p] \in 0..SaltTries
        /\ UNCHANGED <<inodeAt, content, stored, raced, loaded, handle, storing, tally>>
    BY <1>3 DEF RereadSalt
  <2>3. PICK later \in {"ready", "creating", "rereading"} :
          /\ step' = [step EXCEPT ![p] = later]
          /\ later = "creating" => tries[p] + 1 < SaltTries
          /\ later = "rereading" => tries[p] < SaltTries
    BY <1>3 DEF RereadSalt
  <2>. QED
    BY <2>1, <2>2, <2>3
<1>. QED
  BY <1>2, <1>3

LEMMA OpenedKeepTypes ==
  ASSUME TokenTypes, NEW p \in Processes, CreateSalt(p) \/ OpenTemp(p)
  PROVE  TokenTypes'
<1>. USE DEF TokenTypeOK, Go, ghostVars, Steps, DataFiles, NoInode
<1>1. PICK path \in {"salt.tmp", "enc.tmp"} :
        /\ Truncate(p, path)
        /\ path = "salt.tmp" => step[p] = "creating" /\ step' = [step EXCEPT ![p] = "filling"]
        /\ path = "enc.tmp" => step[p] = "opening" /\ step' = [step EXCEPT ![p] = "writing"]
  BY DEF CreateSalt, OpenTemp, TempPath
<1>2. UNCHANGED <<salt, tries, storing, tally, stored, raced, loaded>>
  BY DEF CreateSalt, OpenTemp
<1>3. /\ content' \in Seq(TokenFiles) /\ DOMAIN content \subseteq DOMAIN content'
      /\ inodeAt' \in [DataFiles -> DOMAIN content' \cup {NoInode}]
      /\ handle' = [handle EXCEPT ![p] = inodeAt'[path]]
      /\ inodeAt'[path] # NoInode
      /\ \A f \in DataFiles \ {path} : inodeAt'[f] = inodeAt[f] /\ inodeAt'[f] # inodeAt'[path]
      /\ content'[inodeAt'[path]] = Blank
      /\ \A i \in DOMAIN content \ {inodeAt'[path]} : content'[i] = content[i]
      /\ inodeAt'[path] \in DOMAIN content => inodeAt'[path] = inodeAt[path]
  BY <1>1, TruncateOpens
<1>4. TokenTypeOK'
  BY <1>1, <1>2, <1>3 DEF TokenTypes
<1>5. \A f \in {"salt", "salt.tmp"} : inodeAt'[f] # NoInode =>
         /\ content'[inodeAt'[f]] \in Salts \cup {Blank}
         /\ \A q \in Processes : step'[q] \in {"writing", "renaming"} => handle'[q] # inodeAt'[f]
  BY <1>1, <1>3 DEF TokenTypes
<1>6. \A a, b \in DataFiles : inodeAt'[a] = inodeAt'[b] /\ inodeAt'[a] # NoInode => a = b
  BY <1>1, <1>3 DEF TokenTypes
<1>. QED
  BY <1>1, <1>2, <1>3, <1>4, <1>5, <1>6 DEF TokenTypes

LEMMA FilledKeepTypes ==
  ASSUME TokenTypes, NEW p \in Processes, FillSalt(p) \/ FillTemp(p)
  PROVE  TokenTypes'
<1>. USE DEF TokenTypeOK, Go, ghostVars, Steps, DataFiles, NoInode
<1>1. /\ step[p] = "filling" /\ step' = [step EXCEPT ![p] = "installing"] /\ Fill(p, SaltOf(p))
      \/ /\ step[p] = "writing" /\ step' = [step EXCEPT ![p] = "renaming"]
         /\ Fill(p, Sealed(salt[p], storing[p]))
  BY DEF FillSalt, FillTemp
<1>2. PICK bytes \in TokenFiles : Fill(p, bytes) /\ (step[p] = "filling" => bytes \in Salts)
  BY <1>1, FilesAreFiles DEF TokenTypes
<1>3. /\ content' \in Seq(TokenFiles) /\ DOMAIN content' = DOMAIN content
      /\ content'[handle[p]] = bytes
      /\ \A i \in DOMAIN content \ {handle[p]} : content'[i] = content[i]
  BY <1>1, <1>2, FillWrites DEF TokenTypes
<1>4. UNCHANGED <<inodeAt, handle, salt, tries, storing, tally, stored, raced, loaded>>
  BY DEF FillSalt, FillTemp, Fill
<1>5. TokenTypeOK'
  BY <1>1, <1>3, <1>4 DEF TokenTypes
<1>6. \A f \in {"salt", "salt.tmp"} : inodeAt'[f] # NoInode =>
         /\ content'[inodeAt'[f]] \in Salts \cup {Blank}
         /\ \A q \in Processes : step'[q] \in {"writing", "renaming"} => handle'[q] # inodeAt'[f]
  BY <1>1, <1>2, <1>3, <1>4 DEF TokenTypes
<1>. QED
  BY <1>1, <1>3, <1>4, <1>5, <1>6 DEF TokenTypes

-----------------------------------------------------------------------------
(* What holds while nobody raced                                           *)

Quiet == Apart /\ FilesHold /\ \A p \in Processes : Knows(p)

\* A step that writes no file and renames none.
LEMMA ReadersKeepQuiet ==
  ASSUME TokenTypes, Quiet, NEW p \in Processes, ~raced',
         \/ Open(p) \/ ReadSalt(p) \/ SaltFails(p) \/ RereadSalt(p) \/ BeginStore(p)
         \/ StoreFails(p) \/ Exit(p)
  PROVE  Quiet'
<1>. USE DEF Quiet, Go, diskVars, ghostVars, StartingUp, Writing, InUse
<1>1. UNCHANGED <<inodeAt, content, stored, loaded, handle>>
  BY DEF Open, ReadSalt, SaltFails, RereadSalt, BeginStore, StoreFails, Exit
<1>2. FilesHold'
  BY <1>1 DEF FilesHold, Salted, TheSalt
<1>3. PICK later \in Steps : step' = [step EXCEPT ![p] = later]
  BY DEF Open, ReadSalt, Probe, SaltFails, RereadSalt, BeginStore, StoreFails, Exit, Steps
<1>4. /\ \A q \in Processes \ {p} : /\ step'[q] = step[q] /\ salt'[q] = salt[q]
                                    /\ storing'[q] = storing[q]
      /\ step'[p] = later /\ step[p] # "rereading"
  BY <1>3 DEF TokenTypes, TokenTypeOK, Knows,
     Open, ReadSalt, Probe, SaltFails, RereadSalt, BeginStore, StoreFails, Exit
<1>5. /\ later \in StartingUp => step[p] \in StartingUp \/ ~Others(p, StartingUp)
      /\ later \in Writing => step[p] \in Writing \/ ~Others(p, Writing)
  BY <1>4 DEF Open, ReadSalt, Probe, SaltFails, RereadSalt, BeginStore, StoreFails, Exit,
     TokenTypes, TokenTypeOK
<1>6. Apart'
  BY <1>4, <1>5 DEF Apart, Others
<1>7. Knows(p)'
  <2>1. CASE Open(p) \/ Exit(p)
    BY <1>4, <2>1 DEF Open, Exit, TokenTypes, TokenTypeOK, Knows
  <2>2. CASE ReadSalt(p)
    <3>1. Salted => ContentAt("salt") = TheSalt /\ TheSalt # Blank
      BY FilesAreFiles DEF FilesHold, ContentAt, Salted, TheSalt
    <3>2. ~Salted => ContentAt("salt") = Blank
      BY DEF ContentAt, Salted
    <3>3. \/ ~Salted /\ step'[p] = "creating"
          \/ Salted /\ step'[p] = "ready" /\ salt'[p] = TheSalt
      BY <2>2, <3>1, <3>2 DEF ReadSalt, Probe, TokenTypes, TokenTypeOK
    <3>. QED
      BY <1>1, <3>3 DEF Knows, Salted, TheSalt
  <2>3. CASE SaltFails(p)
    BY <2>3 DEF SaltFails, TokenTypes, Knows
  <2>4. CASE RereadSalt(p)
    BY <1>4, <2>4 DEF RereadSalt
  <2>5. CASE BeginStore(p) \/ StoreFails(p)
    <3>1. step'[p] \in {"opening", "ready"} /\ step[p] \in InUse /\ salt' = salt
      BY <2>5 DEF BeginStore, StoreFails, TokenTypes, TokenTypeOK
    <3>. QED
      BY <1>1, <3>1 DEF Knows, Salted, TheSalt
  <2>. QED
    BY <2>1, <2>2, <2>3, <2>4, <2>5
<1>8. \A q \in Processes \ {p} : Knows(q)'
  BY <1>1, <1>4 DEF Knows, Salted, TheSalt
<1>. QED
  BY <1>2, <1>6, <1>7, <1>8

\* A step that empties, creates or fills a temporary file: the salt and the
\* credentials are other files.
LEMMA TempsKeepQuiet ==
  ASSUME TokenTypes, Quiet, NEW p \in Processes,
         CreateSalt(p) \/ FillSalt(p) \/ OpenTemp(p) \/ FillTemp(p)
  PROVE  Quiet'
<1>. USE DEF Quiet, Go, ghostVars, StartingUp, Writing, InUse, DataFiles
<1>1. PICK path \in {"salt.tmp", "enc.tmp"} :
        /\ inodeAt'[path] # NoInode /\ handle'[p] = inodeAt'[path]
        /\ \A f \in DataFiles \ {path} : inodeAt'[f] = inodeAt[f]
        /\ \A i \in DOMAIN content \ {inodeAt'[path]} : content'[i] = content[i]
        /\ \A q \in Processes \ {p} : handle'[q] = handle[q]
        /\ path = "salt.tmp" => \/ step[p] = "creating" /\ step'[p] = "filling"
                                \/ /\ step[p] = "filling" /\ step'[p] = "installing"
                                   /\ content'[handle'[p]] = SaltOf(p)
        /\ path = "enc.tmp" => \/ step[p] = "opening" /\ step'[p] = "writing"
                               \/ /\ step[p] = "writing" /\ step'[p] = "renaming"
                                  /\ content'[handle'[p]] = Sealed(salt'[p], storing'[p])
  <2>1. CASE CreateSalt(p)
    <3>1. Truncate(p, "salt.tmp") /\ step[p] = "creating" /\ step' = [step EXCEPT ![p] = "filling"]
      BY <2>1 DEF CreateSalt
    <3>. QED
      BY <3>1, TruncateOpens DEF TokenTypes, TokenTypeOK
  <2>2. CASE OpenTemp(p)
    <3>1. Truncate(p, "enc.tmp") /\ step[p] = "opening" /\ step' = [step EXCEPT ![p] = "writing"]
      BY <2>2 DEF OpenTemp, TempPath
    <3>. QED
      BY <3>1, TruncateOpens DEF TokenTypes, TokenTypeOK
  <2>3. CASE FillSalt(p)
    <3>1. /\ Fill(p, SaltOf(p)) /\ step[p] = "filling" /\ step' = [step EXCEPT ![p] = "installing"]
          /\ inodeAt' = inodeAt /\ handle' = handle /\ SaltOf(p) \in TokenFiles /\ handle[p] # NoInode
      BY <2>3, FilesAreFiles DEF FillSalt, Fill, TokenTypes
    <3>2. handle[p] = inodeAt["salt.tmp"]
      BY <3>1 DEF Knows
    <3>. QED
      BY <3>1, <3>2, FillWrites DEF TokenTypes, TokenTypeOK
  <2>4. CASE FillTemp(p)
    <3>1. /\ Fill(p, Sealed(salt[p], storing[p])) /\ step[p] = "writing"
          /\ step' = [step EXCEPT ![p] = "renaming"]
          /\ inodeAt' = inodeAt /\ handle' = handle /\ handle[p] # NoInode
          /\ UNCHANGED <<salt, storing>>
      BY <2>4 DEF FillTemp, Fill, TokenTypes
    <3>2. handle[p] = inodeAt["enc.tmp"] /\ Sealed(salt[p], storing[p]) \in TokenFiles
      BY <3>1, FilesAreFiles DEF Knows, TokenTypes, TokenTypeOK
    <3>. QED
      BY <3>1, <3>2, FillWrites DEF TokenTypes, TokenTypeOK
  <2>. QED
    BY <2>1, <2>2, <2>3, <2>4
<1>2. /\ UNCHANGED <<salt, storing, stored, loaded>>
      /\ \A q \in Processes \ {p} : step'[q] = step[q]
  BY DEF CreateSalt, FillSalt, OpenTemp, FillTemp, TokenTypes, TokenTypeOK
<1>3. \A f \in DataFiles \ {path} : inodeAt'[f] # NoInode =>
         inodeAt'[f] # inodeAt'[path] /\ inodeAt[f] \in DOMAIN content
         /\ content'[inodeAt'[f]] = content[inodeAt[f]]
  <2>1. TokenTypes'
    BY OpenedKeepTypes, FilledKeepTypes
  <2>. QED
    BY <1>1, <2>1 DEF TokenTypes, TokenTypeOK
<1>4. /\ Salted' = Salted /\ (Salted => TheSalt' = TheSalt) /\ inodeAt'["enc"] = inodeAt["enc"]
      /\ inodeAt["enc"] # NoInode => content'[inodeAt["enc"]] = content[inodeAt["enc"]]
  BY <1>1, <1>3 DEF Salted, TheSalt
<1>5. FilesHold'
  BY <1>2, <1>4 DEF FilesHold
<1>6. Apart'
  BY <1>1, <1>2 DEF Apart
<1>7. Knows(p)'
  BY <1>1, <1>2, <1>4 DEF Knows
<1>8. ASSUME NEW q \in Processes \ {p} PROVE Knows(q)'
  <2>1. /\ step'[q] = step[q] /\ salt'[q] = salt[q] /\ storing'[q] = storing[q]
        /\ handle'[q] = handle[q]
    BY <1>1, <1>2
  <2>2. step[q] \in {"filling", "installing"} => path = "enc.tmp"
    BY <1>1 DEF Apart
  <2>3. step[q] \in {"writing", "renaming"} => path = "salt.tmp"
    BY <1>1 DEF Apart
  <2>4. step[q] \in {"filling", "installing"} =>
          /\ handle'[q] = inodeAt'["salt.tmp"] /\ content'[handle'[q]] = content[handle[q]]
    BY <1>1, <1>3, <2>1, <2>2 DEF Knows, TokenTypes
  <2>5. step[q] \in {"writing", "renaming"} =>
          /\ handle'[q] = inodeAt'["enc.tmp"] /\ content'[handle'[q]] = content[handle[q]]
    BY <1>1, <1>3, <2>1, <2>3 DEF Knows, TokenTypes
  <2>. QED
    BY <1>4, <2>1, <2>4, <2>5 DEF Knows
<1>. QED
  BY <1>5, <1>6, <1>7, <1>8

\* The first process that installs its salt finds no other at work.
LEMMA InstallKeepsQuiet ==
  ASSUME TokenTypes, Quiet, NEW p \in Processes, InstallSalt(p)
  PROVE  Quiet'
<1>. USE DEF Quiet, Go, ghostVars, StartingUp, Writing, InUse, DataFiles
<1>1. /\ step[p] = "installing" /\ step' = [step EXCEPT ![p] = "ready"]
      /\ inodeAt' = [inodeAt EXCEPT !["salt"] = inodeAt["salt.tmp"], !["salt.tmp"] = NoInode]
      /\ salt' = [salt EXCEPT ![p] = SaltOf(p)] /\ inodeAt["salt.tmp"] # NoInode
      /\ UNCHANGED <<content, handle, storing, stored, loaded>>
  BY DEF InstallSalt, RenameOver
<1>2. ~Salted /\ handle[p] = inodeAt["salt.tmp"] /\ content[handle[p]] = SaltOf(p)
  BY <1>1 DEF Knows
<1>3. /\ inodeAt'["salt"] = inodeAt["salt.tmp"] /\ inodeAt'["enc"] = inodeAt["enc"]
      /\ inodeAt'["enc.tmp"] = inodeAt["enc.tmp"]
  BY <1>1 DEF TokenTypes, TokenTypeOK
<1>4. Salted' /\ TheSalt' = SaltOf(p)
  BY <1>1, <1>2, <1>3 DEF Salted, TheSalt
<1>5. FilesHold'
  BY <1>1, <1>2, <1>3, <1>4 DEF FilesHold
<1>6. step'[p] = "ready" /\ salt'[p] = SaltOf(p)
      /\ \A q \in Processes \ {p} : step'[q] = step[q] /\ salt'[q] = salt[q]
  BY <1>1 DEF TokenTypes, TokenTypeOK
<1>7. Apart'
  BY <1>1, <1>6 DEF Apart
<1>8. \A q \in Processes \ {p} : step[q] \notin StartingUp \cup InUse
  BY <1>1, <1>2 DEF Apart, Knows
<1>9. \A q \in Processes : Knows(q)'
  BY <1>4, <1>6, <1>8 DEF Knows
<1>. QED
  BY <1>5, <1>7, <1>9

\* The rename puts the credentials just stored where they are read.
LEMMA RenameKeepsQuiet ==
  ASSUME TokenTypes, Quiet, NEW p \in Processes, RenameTemp(p)
  PROVE  Quiet'
<1>. USE DEF Quiet, Go, StartingUp, Writing, InUse, DataFiles
<1>1. /\ step[p] = "renaming" /\ step' = [step EXCEPT ![p] = "ready"]
      /\ inodeAt' = [inodeAt EXCEPT !["enc"] = inodeAt["enc.tmp"], !["enc.tmp"] = NoInode]
      /\ inodeAt["enc.tmp"] # NoInode /\ stored' = storing[p]
      /\ UNCHANGED <<content, salt, handle, storing, loaded>>
  BY DEF RenameTemp, RenameOver, TempPath
<1>2. /\ Salted /\ salt[p] = TheSalt /\ handle[p] = inodeAt["enc.tmp"]
      /\ content[handle[p]] = Sealed(TheSalt, storing[p])
  BY <1>1 DEF Knows
<1>3. /\ inodeAt'["enc"] = inodeAt["enc.tmp"] /\ inodeAt'["salt"] = inodeAt["salt"]
      /\ inodeAt'["salt.tmp"] = inodeAt["salt.tmp"]
  BY <1>1 DEF TokenTypes, TokenTypeOK
<1>4. Salted' /\ TheSalt' = TheSalt
  BY <1>1, <1>2, <1>3 DEF Salted, TheSalt
<1>5. FilesHold'
  BY <1>1, <1>2, <1>3, <1>4 DEF FilesHold
<1>6. step'[p] = "ready" /\ \A q \in Processes \ {p} : step'[q] = step[q]
  BY <1>1 DEF TokenTypes, TokenTypeOK
<1>7. Apart'
  BY <1>1, <1>6 DEF Apart
<1>8. \A q \in Processes \ {p} : step[q] \notin Writing
  BY <1>1 DEF Apart
<1>9. \A q \in Processes : Knows(q)'
  BY <1>1, <1>2, <1>3, <1>4, <1>6, <1>8 DEF Knows
<1>. QED
  BY <1>5, <1>7, <1>9

\* A load opens what is stored with the salt it was sealed with.
LEMMA LoadKeepsQuiet ==
  ASSUME TokenTypes, Quiet, NEW p \in Processes, Load(p)
  PROVE  Quiet'
<1>. USE DEF Quiet, diskVars, InUse
<1>1. /\ step[p] = "ready" /\ loaded' = [got |-> Opened(p, ContentAt("enc")), due |-> stored]
      /\ UNCHANGED <<inodeAt, content, step, salt, handle, storing, stored>>
  BY DEF Load
<1>2. salt[p] = TheSalt
  BY <1>1 DEF Knows
<1>3. Opened(p, ContentAt("enc")) = stored
  <2>1. CASE inodeAt["enc"] = NoInode
    BY <2>1 DEF FilesHold, ContentAt, Opened, Blank
  <2>2. CASE inodeAt["enc"] # NoInode
    <3>1. ContentAt("enc") = Sealed(salt[p], stored)
      BY <1>2, <2>2 DEF FilesHold, ContentAt
    <3>2. ContentAt("enc") # Blank /\ ContentAt("enc").kind = "sealed"
          /\ ContentAt("enc").key = salt[p] /\ ContentAt("enc").version = stored
      BY <3>1, FilesAreFiles DEF Sealed
    <3>. QED
      BY <3>2 DEF Opened
  <2>. QED
    BY <2>1, <2>2
<1>4. loaded'.got = loaded'.due
  BY <1>1, <1>3
<1>5. FilesHold'
  BY <1>1, <1>4 DEF FilesHold, Salted, TheSalt
<1>. QED
  BY <1>1, <1>5 DEF Apart, Knows, Salted, TheSalt

LEMMA DeleteKeepsQuiet ==
  ASSUME TokenTypes, Quiet, NEW p \in Processes, Delete(p)
  PROVE  Quiet'
<1>. USE DEF Quiet, DataFiles
<1>1. /\ inodeAt' = [inodeAt EXCEPT !["enc"] = NoInode] /\ stored' = 0
      /\ UNCHANGED <<content, step, salt, handle, storing, loaded>>
  BY DEF Delete
<1>2. /\ inodeAt'["enc"] = NoInode
      /\ \A f \in DataFiles \ {"enc"} : inodeAt'[f] = inodeAt[f]
  BY <1>1 DEF TokenTypes, TokenTypeOK
<1>3. Salted' = Salted /\ TheSalt' = TheSalt
  BY <1>1, <1>2 DEF Salted, TheSalt
<1>4. FilesHold'
  BY <1>1, <1>2, <1>3 DEF FilesHold
<1>. QED
  BY <1>1, <1>2, <1>3, <1>4 DEF Apart, Knows

\* Whatever processes open the store, write, delete and end, and however the disk
\* fails, until two of them race the files hold what their names promise.
THEOREM TokenInvariant == TokenSpec => []TokenInv
<1>1. TokenInv /\ [TokenNext]_tokenVars => TokenInv'
  <2>. SUFFICES ASSUME TokenInv, [TokenNext]_tokenVars PROVE TokenInv'
    OBVIOUS
  <2>1. CASE UNCHANGED tokenVars
    BY <2>1 DEF tokenVars, TokenInv, TokenTypes, TokenTypeOK, Apart, FilesHold, Knows, Salted, TheSalt
  <2>2. CASE TokenNext
    <3>1. TokenTypes'
      BY <2>2, UnwrittenKeepTypes, SaltsAreRead, OpenedKeepTypes, FilledKeepTypes
      DEF TokenNext, TokenInv
    <3>2. raced => raced'
      BY <2>2 DEF TokenNext, Open, ReadSalt, CreateSalt, FillSalt, InstallSalt, SaltFails, RereadSalt,
         BeginStore, OpenTemp, FillTemp, RenameTemp, StoreFails, Load, Delete, Exit, ghostVars
    <3>3. ~raced' => Quiet'
      BY <2>2, <3>2, ReadersKeepQuiet, TempsKeepQuiet, InstallKeepsQuiet, RenameKeepsQuiet,
         LoadKeepsQuiet, DeleteKeepsQuiet
      DEF TokenNext, TokenInv, Quiet
    <3>. QED
      BY <3>1, <3>3 DEF TokenInv, Quiet
  <2>. QED
    BY <2>1, <2>2
<1>. QED
  BY <1>1, TokenInvInit, PTL DEF TokenSpec

\* The inodes, the salts and the tries of every process stay what they are.
THEOREM TokensStayTyped == TokenSpec => []TokenTypeOK
<1>1. TokenInv => TokenTypeOK
  BY DEF TokenInv, TokenTypes
<1>. QED
  BY <1>1, TokenInvariant, PTL

\* Until two processes race, every load gives what the last store or delete of any
\* process left, whatever process ended in the middle of a write.
THEOREM StoredIsLoaded == TokenSpec => []LoadsReturnWhatWasStored
<1>1. TokenInv => LoadsReturnWhatWasStored
  BY DEF TokenInv, FilesHold, LoadsReturnWhatWasStored
<1>. QED
  BY <1>1, TokenInvariant, PTL

-----------------------------------------------------------------------------
(* All of them together                                                    *)

\* Each part, moved alone or beside the others, goes through steps of its own
\* specification only: what is proved of a part holds of them all together.
THEOREM FilePartsKeepToThemselves ==
  FilesSpec => TranscriptSpec /\ StagingSpec /\ JournalSpec /\ FileToolsSpec /\ TokenSpec
<1>1. FilesInit => TranscriptInit /\ StagingInit /\ JournalInit /\ FileToolsInit /\ TokenInit
  BY DEF FilesInit
<1>2. UNCHANGED filesVars => /\ UNCHANGED transcriptVars /\ UNCHANGED areaVars
                             /\ UNCHANGED journalVars /\ UNCHANGED fileVars /\ UNCHANGED tokenVars
  BY DEF filesVars
<1>3. FilesNext => /\ [TranscriptNext]_transcriptVars /\ [StagingNext]_areaVars
                   /\ [JournalNext]_journalVars /\ [FileToolsNext]_fileVars
                   /\ [TokenNext]_tokenVars
  BY DEF FilesNext
<1>4. [FilesNext]_filesVars =>
        /\ [TranscriptNext]_transcriptVars /\ [StagingNext]_areaVars
        /\ [JournalNext]_journalVars /\ [FileToolsNext]_fileVars /\ [TokenNext]_tokenVars
  BY <1>2, <1>3
<1>. QED
  BY <1>1, <1>4, PTL DEF FilesSpec, TranscriptSpec, StagingSpec, JournalSpec, FileToolsSpec,
     TokenSpec

\* Every variable of every part that keeps files keeps its type.
THEOREM FilesStayTyped == FilesSpec => []FilesTypeOK
<1>1. StagingSpec => []StagingTypeOK
  BY OriginalsAreKept, PTL
<1>. QED
  BY <1>1, FilePartsKeepToThemselves, TranscriptStaysTyped, JournalStaysTyped, ToolsStayTyped,
     TokensStayTyped, PTL
  DEF FilesTypeOK

\* What the five parts promise, they promise side by side.
THEOREM FilesKeepTheirPromises ==
  FilesSpec =>
    /\ [](LossIsBounded /\ ReadersSeeWholeLines /\ SizeLimitHolds)
    /\ [](OnlyFailedRestoresLose /\ ResolvedStaysResolved /\ FilesAreWhole)
    /\ []LoadsReturnWhatWasStored
    /\ FailureRestores /\ LoadIsComplete /\ OkCallIsInstalled /\ ReadReturnsTheLines
<1>1. StagingSpec => []OnlyFailedRestoresLose
  BY OriginalsAreKept, PTL
<1>. QED
  BY <1>1, FilePartsKeepToThemselves, EveryLossIsPaid, ReadersOnlySeeWholeLines,
     TranscriptsStayInTheirLimit, MarkersAreSeen, TargetsAreWhole, StoredIsLoaded,
     FailedCommitRestores, IncompleteAreFound, CallsInstall, ReadsAreExact, PTL

=============================================================================

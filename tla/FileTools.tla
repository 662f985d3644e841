----------------------------- MODULE FileTools -----------------------------
(***************************************************************************)
(* FileEdit, FileWrite and FileRead of kn-code-tools, as the runners of    *)
(* several sessions call them on one working directory.  A write goes to a *)
(* temporary file named by process and UUID and is renamed over its        *)
(* target; an edit reads the file first.  One action per await.            *)
(*                                                                         *)
(* A file is a sequence of tokens: old_string is a token, and a line is    *)
(* one.  The process may end inside any call; commands and editors change  *)
(* the files too.                                                          *)
(***************************************************************************)
EXTENDS Naturals, Sequences, FiniteSets, SequencesExt

CONSTANTS
  Agents,            \* the runners, each in one tool call at a time
  Targets,           \* the paths the calls name
  Outside,           \* those that resolve to a place outside the directory
  Parentless,        \* those in a directory that does not exist
  Tokens,
  FirstTexts,        \* what the files hold at first
  NewStrings,        \* the new_string of an edit
  NewTexts,          \* the content of a FileWrite, and what others leave in a file
  SizeLimit,         \* MAX_FILE_SIZE, in tokens
  UsizeLimit,        \* 2^w of usize
  NoSuchFile, Partial,   \* no file there; a write cut short
  NoJob,
  MaxToolCalls, MaxDiskFaults, MaxShutdowns, MaxChanges   \* bounds

ASSUME FileToolsAssumption ==
  /\ Outside \subseteq Targets /\ Parentless \subseteq Targets
  /\ SizeLimit \in Nat /\ UsizeLimit \in Nat \ {0}
  /\ NoSuchFile # Partial /\ {NoSuchFile, Partial} \cap BoundedSeq(Tokens, SizeLimit + 1) = {}
  /\ FirstTexts \cup NewTexts \subseteq BoundedSeq(Tokens, SizeLimit + 1)
  /\ NewStrings \subseteq Seq(Tokens)

VARIABLES
  tree,      \* the files of the working directory
  temp,      \* the temporary files, by name
  job,       \* the call an agent is in, NoJob outside
  fpc,       \* the await it is at
  basis,     \* an edit: the content it read
  draft,     \* the content to be written
  reply,     \* what the agent's last call returned
  known,     \* what each session last read or wrote of a file, for the properties
  spent      \* how often each bounded thing happened

fileVars == <<tree, temp, job, fpc, basis, draft, reply, known, spent>>

Texts == BoundedSeq(Tokens, SizeLimit + 1)
OnDisk == Texts \cup {NoSuchFile, Partial}

EditJob == [tool : {"edit"}, file : Targets, old : Tokens, new : NewStrings, all : BOOLEAN]
WriteJob == [tool : {"write"}, file : Targets, content : NewTexts]
ReadJob == [tool : {"read"}, file : Targets,
            offset : 0..(UsizeLimit - 1), limit : 0..(UsizeLimit - 1)]

\* Mutant: a name made of the process id alone.
TempName_PerProcess(a) == <<job[a].file, "process">>

\* The temporary file of a call: the UUID in its name makes it the call's own.
TempName(a) == <<job[a].file, a>>
TempNames == Targets \X (Agents \cup {"process"})

Outcomes == {"none", "ok", "refused", "too_large", "not_found", "error", "panic"}

FileToolsTypeOK ==
  /\ tree \in [Targets -> OnDisk] /\ temp \in [TempNames -> OnDisk]
  /\ \A a \in Agents : job[a] = NoJob \/ job[a] \in EditJob \cup WriteJob \cup ReadJob
  /\ fpc \in [Agents -> {"idle", "reading", "writing", "renaming"}]
  /\ basis \in [Agents -> OnDisk] /\ draft \in [Agents -> OnDisk]
  /\ \A a \in Agents : reply[a].outcome \in Outcomes /\ reply[a].lines \in Texts
  /\ known \in [Agents -> [Targets -> OnDisk]]
  /\ spent \in [{"calls", "faults", "shutdowns", "changes"} -> Nat]

----------------------------------------------------------------------------
(* Pure parts *)

\* canonicalize and starts_with: a target outside the directory is refused.
\* For a parent that does not exist, normalize_path makes an absolute path
\* relative, and starts_with fails for it too.
Resolvable(t) == t \notin Outside \cup Parentless

\* str::replace and replace_range of the first match.
Substituted(content, old, new, all) ==
  LET first == SelectInSeq(content, LAMBDA x : x = old)
      here(i) == content[i] = old /\ (all \/ i = first)
  IN FlattenSeq([i \in DOMAIN content |-> IF here(i) THEN new ELSE <<content[i]>>])

FirstLine_FromZero(offset) == offset

\* The lines FileRead selects: offset is counted from 1, the sum wraps.
FirstLine(offset) == IF offset = 0 THEN 0 ELSE offset - 1
PastLine(offset, limit, total) ==
  LET end == (FirstLine(offset) + limit) % UsizeLimit
  IN IF end < total THEN end ELSE total
\* A debug build panics on the overflow, a release build on the slice.
Overflows(offset, limit) == FirstLine(offset) + limit >= UsizeLimit

Reply(outcome) == [outcome |-> outcome, lines |-> <<>>]

FileToolsInit ==
  /\ \E texts \in [Targets \ Parentless -> FirstTexts \cup {NoSuchFile}] :
       tree = [t \in Targets |-> IF t \in Parentless THEN NoSuchFile ELSE texts[t]]
  /\ temp = [n \in TempNames |-> NoSuchFile]
  /\ job = [a \in Agents |-> NoJob] /\ fpc = [a \in Agents |-> "idle"]
  /\ basis = [a \in Agents |-> NoSuchFile] /\ draft = [a \in Agents |-> NoSuchFile]
  /\ reply = [a \in Agents |-> Reply("none")]
  /\ known = [a \in Agents |-> [t \in Targets |-> NoSuchFile]]
  /\ spent = [calls |-> 0, faults |-> 0, shutdowns |-> 0, changes |-> 0]

Spend(what, bound) == spent[what] < bound /\ spent' = [spent EXCEPT ![what] = @ + 1]

\* The call returns.
Return(a, r) ==
  /\ reply' = [reply EXCEPT ![a] = r]
  /\ job' = [job EXCEPT ![a] = NoJob] /\ fpc' = [fpc EXCEPT ![a] = "idle"]
  /\ basis' = [basis EXCEPT ![a] = NoSuchFile] /\ draft' = [draft EXCEPT ![a] = NoSuchFile]

\* The call goes on at await p.
GoOn(a, j, p, old, new) ==
  /\ job' = [job EXCEPT ![a] = j] /\ fpc' = [fpc EXCEPT ![a] = p]
  /\ basis' = [basis EXCEPT ![a] = old] /\ draft' = [draft EXCEPT ![a] = new]
  /\ UNCHANGED reply

Learn(a, t, content) == known' = [known EXCEPT ![a][t] = content]

----------------------------------------------------------------------------
(* FileEdit *)

StartEdit(a, j) ==
  /\ fpc[a] = "idle" /\ Spend("calls", MaxToolCalls)
  /\ IF Resolvable(j.file) THEN GoOn(a, j, "reading", NoSuchFile, NoSuchFile)
                           ELSE Return(a, Reply("refused"))
  /\ UNCHANGED <<tree, temp, known>>

\* read_to_string, the size checks and the replacement.
ReadForEdit(a) ==
  LET j == job[a]
      content == tree[j.file]
      new == Substituted(content, j.old, j.new, j.all)
  IN /\ fpc[a] = "reading" /\ j.tool = "edit"
     /\ \/ content = NoSuchFile /\ Return(a, Reply("error"))
        \/ content # NoSuchFile /\ Len(content) > SizeLimit /\ Return(a, Reply("too_large"))
        \/ /\ content # NoSuchFile /\ Len(content) <= SizeLimit
           /\ \/ ~Contains(content, j.old) /\ Return(a, Reply("not_found"))
              \/ /\ Contains(content, j.old) /\ Len(new) > SizeLimit
                 /\ Return(a, Reply("too_large"))
              \/ /\ Contains(content, j.old) /\ Len(new) <= SizeLimit
                 /\ GoOn(a, j, "writing", content, new)
     /\ IF content = NoSuchFile THEN UNCHANGED known ELSE Learn(a, j.file, content)
     /\ UNCHANGED <<tree, temp, spent>>

----------------------------------------------------------------------------
(* FileWrite; the parent exists whenever the path resolves, so             *)
(* create_dir_all has nothing to create.                                   *)

StartWrite(a, j) ==
  /\ fpc[a] = "idle" /\ Spend("calls", MaxToolCalls)
  /\ \/ Len(j.content) > SizeLimit /\ Return(a, Reply("too_large"))
     \/ Len(j.content) <= SizeLimit /\ ~Resolvable(j.file) /\ Return(a, Reply("refused"))
     \/ /\ Len(j.content) <= SizeLimit /\ Resolvable(j.file)
        /\ GoOn(a, j, "writing", NoSuchFile, j.content)
  /\ UNCHANGED <<tree, temp, known>>

----------------------------------------------------------------------------
(* The temporary file and the rename, alike in both tools *)

TempWritten(a) ==
  /\ temp' = [temp EXCEPT ![TempName(a)] = draft[a]]
  /\ GoOn(a, job[a], "renaming", basis[a], draft[a]) /\ UNCHANGED <<tree, known, spent>>

\* Mutant: the result of the write is not looked at.
TempFailed_Ignored(a) ==
  /\ Spend("faults", MaxDiskFaults)
  /\ temp' = [temp EXCEPT ![TempName(a)] = Partial]
  /\ GoOn(a, job[a], "renaming", basis[a], draft[a]) /\ UNCHANGED <<tree, known>>

\* The write fails half way: the call returns the error.
TempFailed(a) ==
  /\ Spend("faults", MaxDiskFaults)
  /\ temp' = [temp EXCEPT ![TempName(a)] = Partial]
  /\ Return(a, Reply("error")) /\ UNCHANGED <<tree, known>>

WriteTemp(a) == fpc[a] = "writing" /\ (TempWritten(a) \/ TempFailed(a))

Installed(a) ==
  /\ tree' = [tree EXCEPT ![job[a].file] = temp[TempName(a)]]
  /\ Learn(a, job[a].file, temp[TempName(a)])
  /\ Return(a, Reply("ok")) /\ UNCHANGED spent

InstallFailed(a) ==
  /\ Spend("faults", MaxDiskFaults)
  /\ Return(a, Reply("error")) /\ UNCHANGED <<tree, known>>

\* rename; when it fails the temporary file is removed.
Install(a) ==
  /\ fpc[a] = "renaming"
  /\ temp' = [temp EXCEPT ![TempName(a)] = NoSuchFile]
  /\ \/ temp[TempName(a)] # NoSuchFile /\ Installed(a)
     \/ InstallFailed(a)

----------------------------------------------------------------------------
(* FileRead *)

StartRead(a, j) ==
  /\ fpc[a] = "idle" /\ Spend("calls", MaxToolCalls)
  /\ \/ tree[j.file] = NoSuchFile /\ Return(a, Reply("refused"))
     \/ tree[j.file] # NoSuchFile /\ ~Resolvable(j.file) /\ Return(a, Reply("refused"))
     \/ /\ tree[j.file] # NoSuchFile /\ Resolvable(j.file)
        /\ GoOn(a, j, "reading", NoSuchFile, NoSuchFile)
  /\ UNCHANGED <<tree, temp, known>>

Read(a) ==
  LET j == job[a]
      content == tree[j.file]
      lines == SubSeq(content, FirstLine(j.offset) + 1,
                      PastLine(j.offset, j.limit, Len(content)))
  IN /\ fpc[a] = "reading" /\ j.tool = "read"
     /\ \/ content = NoSuchFile /\ Return(a, Reply("error"))
        \/ /\ content # NoSuchFile /\ ~Overflows(j.offset, j.limit)
           /\ Return(a, [outcome |-> "ok", lines |-> lines])
        \/ /\ content # NoSuchFile /\ Overflows(j.offset, j.limit)
           /\ Return(a, Reply("panic"))
        \/ /\ content # NoSuchFile /\ Overflows(j.offset, j.limit)
           /\ FirstLine(j.offset) >= Len(content)
           /\ Return(a, Reply("ok"))
     /\ IF content = NoSuchFile THEN UNCHANGED known ELSE Learn(a, j.file, content)
     /\ UNCHANGED <<tree, temp, spent>>

----------------------------------------------------------------------------
(* Around the tools *)

\* A command or an editor replaces or removes a file.
Change(t, content) ==
  /\ Spend("changes", MaxChanges) /\ t \notin Parentless
  /\ tree' = [tree EXCEPT ![t] = content]
  /\ UNCHANGED <<temp, job, fpc, basis, draft, reply, known>>

\* The process ends: an operation in flight has happened, in part or not at all.
Shutdown ==
  /\ Spend("shutdowns", MaxShutdowns)
  /\ \E done \in SUBSET {a \in Agents : fpc[a] = "renaming"},
        part \in SUBSET {a \in Agents : fpc[a] = "writing"} :
       /\ \A a, b \in done : job[a].file = job[b].file => a = b
       /\ tree' = [t \in Targets |->
            IF \E a \in done : job[a].file = t
            THEN temp[TempName(CHOOSE a \in done : job[a].file = t)] ELSE tree[t]]
       /\ temp' = [n \in TempNames |->
            CASE \E a \in done : TempName(a) = n -> NoSuchFile
              [] \E a \in part : TempName(a) = n -> Partial
              [] OTHER -> temp[n]]
  /\ job' = [a \in Agents |-> NoJob] /\ fpc' = [a \in Agents |-> "idle"]
  /\ basis' = [a \in Agents |-> NoSuchFile] /\ draft' = [a \in Agents |-> NoSuchFile]
  /\ reply' = [a \in Agents |-> Reply("none")]
  /\ known' = [a \in Agents |-> [t \in Targets |-> NoSuchFile]]

FileStep(a) ==
  \/ \E j \in EditJob : StartEdit(a, j)
  \/ \E j \in WriteJob : StartWrite(a, j)
  \/ \E j \in ReadJob : StartRead(a, j)
  \/ ReadForEdit(a) \/ WriteTemp(a) \/ Install(a) \/ Read(a)

FileToolsNext ==
  \/ \E a \in Agents : FileStep(a)
  \/ \E t \in Targets, content \in NewTexts \cup {NoSuchFile} : Change(t, content)
  \/ Shutdown

FileToolsSpec == FileToolsInit /\ [][FileToolsNext]_fileVars

----------------------------------------------------------------------------
(* Properties *)

EndsAs(a, tool, outcome) ==
  job[a] # NoJob /\ job[a].tool = tool /\ job'[a] = NoJob /\ reply'[a].outcome = outcome

\* Whatever fails or ends in between, no target ever holds a part of a write
\* (file_edit.rs and file_write.rs: temporary file, then rename).
FilesAreWhole == \A t \in Targets : tree[t] # Partial

\* A call that returned ok has put into its file its own content: the content
\* given, or the replacement in what this very call read, with other calls on
\* the same file and their temporary files in between.
OkCallIsInstalled ==
  [][\A a \in Agents :
       /\ EndsAs(a, "write", "ok") => tree'[job[a].file] = job[a].content
       /\ EndsAs(a, "edit", "ok") =>
            tree'[job[a].file] =
              Substituted(basis[a], job[a].old, job[a].new, job[a].all)]_fileVars

\* The lines from offset on, limit of them or as many as there are, counted
\* without the width of usize.
LinesOf(content, offset, limit) ==
  LET from == IF offset = 0 THEN 1 ELSE offset
      here == (from..(from + limit - 1)) \cap DOMAIN content
  IN [k \in 1..Cardinality(here) |-> content[from + k - 1]]

\* FileRead returns the lines it was asked for (file_read.rs).
ReadReturnsTheLines ==
  [][\A a \in Agents : EndsAs(a, "read", "ok") =>
       reply'[a].lines = LinesOf(tree[job[a].file], job[a].offset, job[a].limit)]_fileVars

\* specs/003: a file must have been read first and must not have been modified
\* since the session last read it.
WritesReplaceWhatWasRead ==
  [][\A a \in Agents : EndsAs(a, "write", "ok") \/ EndsAs(a, "edit", "ok") =>
       tree[job[a].file] = known[a][job[a].file]]_fileVars
============================================================================

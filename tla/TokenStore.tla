----------------------------- MODULE TokenStore -----------------------------
(***************************************************************************)
(* FileTokenStore of kn-code-auth/src/token_store.rs: the server and every *)
(* kn-code command open it on the same directory, each with a mutex of its *)
(* own, so between processes only the file system orders anything.  One    *)
(* provider is enough, for its files are its own; the salt is shared.      *)
(*                                                                         *)
(* A path names an inode; a write empties or creates the temporary file,   *)
(* then fills whatever that inode is by then.                              *)
(***************************************************************************)
EXTENDS Naturals, Sequences

CONSTANTS
  Processes,     \* each opens the store once
  MaxStores, MaxDeletes, MaxDiskErrors,   \* bounds
  SaltTries      \* attempts to write the salt

ASSUME TokenAssumption ==
  MaxStores \in Nat /\ MaxDeletes \in Nat /\ MaxDiskErrors \in Nat /\ SaltTries \in Nat \ {0}

DataFiles == {"salt", "salt.tmp", "enc", "enc.tmp"}
NoInode == 0

VARIABLES
  inodeAt,     \* the inode of a path, NoInode if the path is missing
  content,     \* of the inodes there ever were
  step,        \* where each process is
  salt,        \* the salt each process keeps
  tries,       \* attempts each process made to write it
  handle,      \* the inode each process writes to
  storing,     \* what each process is about to write
  stored,      \* what the last completed store or delete left, for the properties
  raced,       \* two processes wrote the same path at once, or the disk failed
  loaded,      \* the last load and what it should have given
  tally        \* how often each bounded thing happened

tokenVars == <<inodeAt, content, step, salt, tries, handle, storing, stored,
               raced, loaded, tally>>

Blank == [kind |-> "empty"]
SaltOf(p) == [kind |-> "salt", by |-> p]
Zeroed == [kind |-> "zeroed"]
Sealed(key, version) == [kind |-> "sealed", key |-> key, version |-> version]
Salts == {SaltOf(p) : p \in Processes} \cup {Zeroed}
Versions == 0 .. MaxStores    \* 0: no credentials
TokenFiles == {Blank} \cup Salts \cup {Sealed(s, v) : s \in Salts, v \in Versions}
Unreadable == MaxStores + 1   \* what a load that fails gives

Steps == {"down", "probing", "creating", "filling", "installing", "rereading", "ready",
          "opening", "writing", "renaming", "gone"}

TokenTypeOK ==
  /\ content \in Seq(TokenFiles)
  /\ inodeAt \in [DataFiles -> DOMAIN content \cup {NoInode}]
  /\ step \in [Processes -> Steps]
  /\ salt \in [Processes -> Salts]
  /\ tries \in [Processes -> 0 .. SaltTries + 1]
  /\ handle \in [Processes -> DOMAIN content \cup {NoInode}]
  /\ storing \in [Processes -> Versions]
  /\ stored \in Versions /\ raced \in BOOLEAN
  /\ DOMAIN loaded = {"got", "due"}
  /\ tally \in [{"stores", "deletes", "errors"} -> Nat]

TokenInit ==
  /\ inodeAt = [p \in DataFiles |-> NoInode]
  /\ content = <<>>
  /\ step = [p \in Processes |-> "down"]
  /\ salt = [p \in Processes |-> Zeroed]
  /\ tries = [p \in Processes |-> 0]
  /\ handle = [p \in Processes |-> NoInode]
  /\ storing = [p \in Processes |-> 0]
  /\ stored = 0 /\ raced = FALSE /\ loaded = [got |-> 0, due |-> 0]
  /\ tally = [stores |-> 0, deletes |-> 0, errors |-> 0]

diskVars == <<inodeAt, content>>
ghostVars == <<stored, raced, loaded>>

Go(p, next) == step' = [step EXCEPT ![p] = next]

ContentAt(path) == IF inodeAt[path] = NoInode THEN Blank ELSE content[inodeAt[path]]

\* Opens the file for writing: creates it, or empties what is there.
Truncate(p, path) ==
  IF inodeAt[path] = NoInode
  THEN /\ content' = Append(content, Blank)
       /\ inodeAt' = [inodeAt EXCEPT ![path] = Len(content')]
       /\ handle' = [handle EXCEPT ![p] = Len(content')]
  ELSE /\ content' = [content EXCEPT ![inodeAt[path]] = Blank]
       /\ handle' = [handle EXCEPT ![p] = inodeAt[path]]
       /\ UNCHANGED inodeAt

Fill(p, bytes) ==
  content' = [content EXCEPT ![handle[p]] = bytes] /\ UNCHANGED <<inodeAt, handle>>

\* rename(2): the target now names the inode of the temporary file.
RenameOver(from, to) ==
  /\ inodeAt[from] # NoInode
  /\ inodeAt' = [inodeAt EXCEPT ![to] = inodeAt[from], ![from] = NoInode]
  /\ UNCHANGED content

StartingUp == {"probing", "creating", "filling", "installing", "rereading"}
Writing == {"opening", "writing", "renaming"}

\* Another process is between its first look at a path and its rename.
Others(p, steps) == \E q \in Processes \ {p} : step[q] \in steps

-----------------------------------------------------------------------------
(* Opening the store                                                       *)

\* Mutant: the salt on disk is not looked at.
Probe_Fresh(p) ==
  /\ step[p] = "probing" /\ Go(p, "creating")
  /\ UNCHANGED salt

\* An existing salt is used.
Probe(p) ==
  /\ step[p] = "probing"
  /\ IF ContentAt("salt") = Blank
     THEN Go(p, "creating") /\ UNCHANGED salt
     ELSE salt' = [salt EXCEPT ![p] = ContentAt("salt")] /\ Go(p, "ready")

Open(p) ==
  /\ step[p] = "down" /\ Go(p, "probing")
  /\ raced' = (raced \/ Others(p, StartingUp))
  /\ UNCHANGED diskVars /\ UNCHANGED <<salt, tries, handle, storing, stored, loaded, tally>>

ReadSalt(p) ==
  Probe(p) /\ UNCHANGED diskVars /\ UNCHANGED ghostVars /\ UNCHANGED <<tries, handle, storing, tally>>

\* A new salt, in tokens.tmp.
CreateSalt(p) ==
  /\ step[p] = "creating" /\ Go(p, "filling") /\ Truncate(p, "salt.tmp")
  /\ UNCHANGED ghostVars /\ UNCHANGED <<salt, tries, storing, tally>>

FillSalt(p) ==
  /\ step[p] = "filling" /\ Go(p, "installing") /\ Fill(p, SaltOf(p))
  /\ UNCHANGED ghostVars /\ UNCHANGED <<salt, tries, storing, tally>>

\* The process keeps its own salt, whatever the file holds by then.
InstallSalt(p) ==
  /\ step[p] = "installing" /\ RenameOver("salt.tmp", "salt")
  /\ salt' = [salt EXCEPT ![p] = SaltOf(p)] /\ Go(p, "ready")
  /\ UNCHANGED ghostVars /\ UNCHANGED <<tries, handle, storing, tally>>

\* The write or the rename fails, for the disk or for another's rename.
SaltFails(p) ==
  /\ \/ step[p] \in {"creating", "filling", "installing"} /\ tally.errors < MaxDiskErrors
        /\ tally' = [tally EXCEPT !.errors = @ + 1] /\ raced' = TRUE
     \/ step[p] = "installing" /\ inodeAt["salt.tmp"] = NoInode /\ UNCHANGED <<tally, raced>>
  /\ Go(p, "rereading")
  /\ UNCHANGED diskVars /\ UNCHANGED <<salt, tries, handle, storing, stored, loaded>>

\* Reads what another process may have written, tries again, reads once more
\* after the last try, and without any salt goes on with zeros.
RereadSalt(p) ==
  /\ step[p] = "rereading"
  /\ tries' = [tries EXCEPT ![p] = @ + 1]
  /\ \/ /\ ContentAt("salt") # Blank
        /\ salt' = [salt EXCEPT ![p] = ContentAt("salt")] /\ Go(p, "ready")
     \/ /\ ContentAt("salt") = Blank /\ tries[p] + 1 < SaltTries
        /\ Go(p, "creating") /\ UNCHANGED salt
     \/ /\ ContentAt("salt") = Blank /\ tries[p] + 1 >= SaltTries
        /\ Go(p, IF tries[p] < SaltTries THEN "rereading" ELSE "ready") /\ UNCHANGED salt
  /\ UNCHANGED diskVars /\ UNCHANGED ghostVars /\ UNCHANGED <<handle, storing, tally>>

-----------------------------------------------------------------------------
(* store, load, delete: each under the mutex of its own process            *)

BeginStore(p) ==
  /\ step[p] = "ready" /\ tally.stores < MaxStores
  /\ tally' = [tally EXCEPT !.stores = @ + 1]
  /\ storing' = [storing EXCEPT ![p] = tally.stores + 1]
  /\ Go(p, "opening")
  /\ raced' = (raced \/ Others(p, Writing))
  /\ UNCHANGED diskVars /\ UNCHANGED <<salt, tries, handle, stored, loaded>>

\* Mutant: the credentials are written where they are read.
TempPath_InPlace == "enc"

TempPath == "enc.tmp"

OpenTemp(p) ==
  /\ step[p] = "opening" /\ Go(p, "writing") /\ Truncate(p, TempPath)
  /\ UNCHANGED ghostVars /\ UNCHANGED <<salt, tries, storing, tally>>

FillTemp(p) ==
  /\ step[p] = "writing" /\ Go(p, "renaming") /\ Fill(p, Sealed(salt[p], storing[p]))
  /\ UNCHANGED ghostVars /\ UNCHANGED <<salt, tries, storing, tally>>

RenameTemp(p) ==
  /\ step[p] = "renaming" /\ RenameOver(TempPath, "enc") /\ Go(p, "ready")
  /\ stored' = storing[p]
  /\ UNCHANGED <<salt, tries, handle, storing, raced, loaded, tally>>

\* The disk fails, or set_permissions or rename finds no temporary file.
StoreFails(p) ==
  /\ \/ step[p] \in Writing /\ tally.errors < MaxDiskErrors
        /\ tally' = [tally EXCEPT !.errors = @ + 1]
     \/ step[p] = "renaming" /\ inodeAt[TempPath] = NoInode /\ UNCHANGED tally
  /\ Go(p, "ready")
  /\ UNCHANGED diskVars /\ UNCHANGED ghostVars /\ UNCHANGED <<salt, tries, handle, storing>>

\* What read_provider_file gives: nothing for a missing or empty file, an
\* error for one sealed with another salt.
Opened(p, file) ==
  CASE file = Blank -> 0
    [] file.kind = "sealed" /\ file.key = salt[p] -> file.version
    [] OTHER -> Unreadable

Load(p) ==
  /\ step[p] = "ready"
  /\ loaded' = [got |-> Opened(p, ContentAt("enc")), due |-> stored]
  /\ UNCHANGED diskVars
  /\ UNCHANGED <<step, salt, tries, handle, storing, stored, raced, tally>>

\* delete removes the file, if there is one.
Delete(p) ==
  /\ step[p] = "ready" /\ tally.deletes < MaxDeletes
  /\ tally' = [tally EXCEPT !.deletes = @ + 1]
  /\ inodeAt' = [inodeAt EXCEPT !["enc"] = NoInode]
  /\ stored' = 0
  /\ raced' = (raced \/ Others(p, Writing))
  /\ UNCHANGED <<content, step, salt, tries, handle, storing, loaded>>

\* The process ends or is killed, in the middle of anything.
Exit(p) ==
  /\ step[p] \notin {"down", "gone"} /\ Go(p, "gone")
  /\ UNCHANGED diskVars /\ UNCHANGED ghostVars /\ UNCHANGED <<salt, tries, handle, storing, tally>>

TokenNext ==
  \E p \in Processes :
    \/ Open(p) \/ ReadSalt(p) \/ CreateSalt(p) \/ FillSalt(p) \/ InstallSalt(p)
    \/ SaltFails(p) \/ RereadSalt(p)
    \/ BeginStore(p) \/ OpenTemp(p) \/ FillTemp(p) \/ RenameTemp(p) \/ StoreFails(p)
    \/ Load(p) \/ Delete(p) \/ Exit(p)

TokenSpec == TokenInit /\ [][TokenNext]_tokenVars

-----------------------------------------------------------------------------
(* Properties                                                              *)

\* As long as no two processes wrote at once and the disk held, every process
\* reads back what the last store or delete of any process left, whatever
\* process ended in the middle of a write before.
LoadsReturnWhatWasStored == ~raced => loaded.got = loaded.due

\* The comment on load_or_generate_salt: "Both salts would be valid since we
\* re-read after writing".
OpenStoresShareTheSalt ==
  \A p, q \in Processes : step[p] = "ready" /\ step[q] = "ready" => salt[p] = salt[q]
=============================================================================

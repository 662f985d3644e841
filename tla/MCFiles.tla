------------------------------- MODULE MCFiles -------------------------------
(* Instances for TLC of the parts that keep files: the transcript, the      *)
(* staging area, the journal, the file tools and the token store.  They     *)
(* share no file and no lock, so a behaviour of the program is, for each of *)
(* them, one of its own: a behaviour here moves one part, the others keep   *)
(* one of their initial states.                                             *)
EXTENDS Transcript, MCStagingArea, Journal, MCFileTools, TokenStore

Symmetry == Permutations(Transactions)

VARIABLE part   \* the part that moves

filesVars == <<part, transcriptVars, areaVars, journalVars, fileVars, tokenVars>>

FilesTypeOK ==
  TranscriptTypeOK /\ StagingTypeOK /\ JournalTypeOK /\ FileToolsTypeOK /\ TokenTypeOK

FilesInit ==
  /\ part \in {"transcript", "staging", "journal", "tools", "tokens"}
  /\ TranscriptInit /\ StagingInit /\ JournalInit /\ FileToolsInit /\ TokenInit
  /\ part # "staging" => disk = [p \in Paths |-> NoFile]
  /\ part # "tools" => tree = [t \in Targets |-> NoSuchFile]

FilesNext ==
  /\ UNCHANGED part
  /\ \/ /\ part = "transcript" /\ TranscriptNext
        /\ UNCHANGED <<areaVars, journalVars, fileVars, tokenVars>>
     \/ /\ part = "staging" /\ StagingNext
        /\ UNCHANGED <<transcriptVars, journalVars, fileVars, tokenVars>>
     \/ /\ part = "journal" /\ JournalNext
        /\ UNCHANGED <<transcriptVars, areaVars, fileVars, tokenVars>>
     \/ /\ part = "tools" /\ FileToolsNext
        /\ UNCHANGED <<transcriptVars, areaVars, journalVars, tokenVars>>
     \/ /\ part = "tokens" /\ TokenNext
        /\ UNCHANGED <<transcriptVars, areaVars, journalVars, fileVars>>

FilesSpec == FilesInit /\ [][FilesNext]_filesVars
=============================================================================

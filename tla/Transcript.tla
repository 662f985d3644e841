----------------------------- MODULE Transcript -----------------------------
(***************************************************************************)
(* The operations of kn-code-session/src/store.rs on messages.jsonl:       *)
(* append_message and load_messages, one action per await, under the       *)
(* session's lock (SessionLocks).                                          *)
(*                                                                         *)
(* The file is a sequence of chunks: whole message bodies, newlines, and   *)
(* pieces of bodies.  append_message writes through a BufWriter of 8 KiB:  *)
(* a line that fits is one write(2) of body and newline, a Large one is a  *)
(* write of the body and a later write of the newline.  As in              *)
(* SessionStore, the future of a Droppable task may be dropped at an await *)
(* while a blocking thread finishes its write, the process may crash, and  *)
(* a write may fail half way (disk full).                                  *)
(***************************************************************************)
EXTENDS SessionLocks, Sequences

CONSTANTS
  Messages,          \* message lines; ids are UUIDs, so each is appended once
  Large,             \* the messages longer than the BufWriter's buffer
  TranscriptLimit,   \* MAX_MESSAGES_FILE_SIZE, in chunks
  NL, Piece,         \* a newline; a body cut short
  NoMessage,         \* a task that appends nothing
  Droppable,         \* tasks whose future may be dropped
  MaxFaults          \* bound on drops, crashes and failed writes

ASSUME TranscriptAssumption ==
  /\ Large \subseteq Messages
  /\ TranscriptLimit \in Nat
  /\ NL \notin Messages /\ Piece \notin Messages /\ NL # Piece
  /\ NoMessage \notin Messages
  /\ Droppable \subseteq Tasks

VARIABLES
  created,   \* sessions whose directory exists
  log,       \* <session>/messages.jsonl
  awaiting,  \* the await a task is at
  message,   \* the message a task appends, NoMessage for a reader
  orphans,   \* write jobs whose future is gone
  acked,     \* messages whose append_message returned Ok
  cuts,      \* interrupted appends, per session
  diskFaults

transcriptVars ==
  <<locks, arc, target, owner, created, log, awaiting, message, orphans, acked, cuts, diskFaults>>

Chunk == Messages \cup {NL, Piece}

Orphan == [session : Sessions, bytes : Seq(Chunk)]

TranscriptTypeOK ==
  /\ LocksTypeOK
  /\ created \subseteq Sessions
  /\ log \in [Sessions -> Seq(Chunk)]
  /\ awaiting \in [Tasks -> {"idle", "locking", "checking", "writing", "newline", "reading"}]
  /\ message \in [Tasks -> Messages \cup {NoMessage}]
  /\ orphans \subseteq Orphan
  /\ acked \in [Sessions -> SUBSET Messages]
  /\ cuts \in [Sessions -> Nat]
  /\ diskFaults \in Nat

TranscriptInit ==
  /\ LocksInit
  /\ created = {}
  /\ log = [s \in Sessions |-> <<>>]
  /\ awaiting = [t \in Tasks |-> "idle"]
  /\ message = [t \in Tasks |-> NoMessage]
  /\ orphans = {}
  /\ acked = [s \in Sessions |-> {}]
  /\ cuts = [s \in Sessions |-> 0]
  /\ diskFaults = 0

-----------------------------------------------------------------------------
(* The file                                                                *)

\* What load_messages returns: the lines that are one whole message.  Lines
\* that do not parse are skipped; the last line needs no newline.
Readable(file) ==
  {file[i] : i \in {j \in DOMAIN file :
     /\ file[j] \in Messages
     /\ j > 1 => file[j - 1] = NL
     /\ j < Len(file) => file[j + 1] = NL}}

\* The bytes of the first write(2) of an append.
FirstWrite(m) == IF m \in Large THEN <<m>> ELSE <<m, NL>>

\* Tasks and orphans use messages once.
Fresh(m) ==
  /\ \A t \in Tasks : message[t] # m
  /\ \A s \in Sessions : m \notin acked[s]
  /\ \A s \in Sessions : \A i \in DOMAIN log[s] : log[s][i] # m
  /\ \A o \in orphans : \A i \in DOMAIN o.bytes : o.bytes[i] # m

-----------------------------------------------------------------------------
(* Operations                                                              *)

\* create_session makes the directory before anyone can name the session.
CreateSession(s) ==
  /\ s \notin created
  /\ created' = created \cup {s}
  /\ UNCHANGED <<lockVars, log, awaiting, message, orphans, acked, cuts, diskFaults>>

\* append_message(s, m), or load_messages(s) when m is NoMessage.
Begin(t, s, m) ==
  /\ awaiting[t] = "idle"
  /\ m # NoMessage => Fresh(m)
  /\ GetSessionLock(t, s)
  /\ awaiting' = [awaiting EXCEPT ![t] = "locking"]
  /\ message' = [message EXCEPT ![t] = m]
  /\ UNCHANGED <<created, log, orphans, acked, cuts, diskFaults>>

Inside(t) == IF message[t] = NoMessage THEN "reading" ELSE "checking"

\* Mutant: load_messages reads without waiting for the lock.
Enter_ReadersBarge(t) ==
  /\ awaiting[t] = "locking"
  /\ IF message[t] = NoMessage THEN UNCHANGED lockVars ELSE AcquireGuard(t)
  /\ awaiting' = [awaiting EXCEPT ![t] = Inside(t)]
  /\ UNCHANGED <<created, log, message, orphans, acked, cuts, diskFaults>>

\* Mutant: nobody waits for the lock.
Enter_Unlocked(t) ==
  /\ awaiting[t] = "locking"
  /\ awaiting' = [awaiting EXCEPT ![t] = Inside(t)]
  /\ UNCHANGED <<lockVars, created, log, message, orphans, acked, cuts, diskFaults>>

\* lock.lock().await
Enter(t) ==
  /\ awaiting[t] = "locking"
  /\ AcquireGuard(t)
  /\ awaiting' = [awaiting EXCEPT ![t] = Inside(t)]
  /\ UNCHANGED <<created, log, message, orphans, acked, cuts, diskFaults>>

\* The operation's future ends and drops its guard and its Arc.
Leave(t) ==
  /\ DropFuture(t)
  /\ awaiting' = [awaiting EXCEPT ![t] = "idle"]
  /\ message' = [message EXCEPT ![t] = NoMessage]

\* The transcript has reached its size limit, or the session's directory is
\* missing and the file cannot be opened: an error, and nothing is written.
RefuseAppend(t) ==
  /\ awaiting[t] = "checking"
  /\ target[t] \notin created \/ Len(log[target[t]]) >= TranscriptLimit
  /\ Leave(t)
  /\ UNCHANGED <<created, log, orphans, acked, cuts, diskFaults>>

OpenForAppend(t) ==
  /\ awaiting[t] = "checking"
  /\ target[t] \in created /\ Len(log[target[t]]) < TranscriptLimit
  /\ awaiting' = [awaiting EXCEPT ![t] = "writing"]
  /\ UNCHANGED <<lockVars, created, log, message, orphans, acked, cuts, diskFaults>>

\* The line of a message that fits the buffer goes out whole, and the append
\* returns Ok.
WriteLine(t) ==
  /\ awaiting[t] = "writing"
  /\ FirstWrite(message[t]) = <<message[t], NL>>
  /\ log' = [log EXCEPT ![target[t]] = @ \o FirstWrite(message[t])]
  /\ acked' = [acked EXCEPT ![target[t]] = @ \cup {message[t]}]
  /\ Leave(t)
  /\ UNCHANGED <<created, orphans, cuts, diskFaults>>

\* The body of a longer one goes out alone; its newline waits in the buffer.
WriteBody(t) ==
  /\ awaiting[t] = "writing"
  /\ FirstWrite(message[t]) = <<message[t]>>
  /\ log' = [log EXCEPT ![target[t]] = @ \o FirstWrite(message[t])]
  /\ awaiting' = [awaiting EXCEPT ![t] = "newline"]
  /\ UNCHANGED <<lockVars, created, message, orphans, acked, cuts, diskFaults>>

\* Mutant: the flush of the buffered newline is forgotten.
WriteNewline_NoFlush(t) ==
  /\ awaiting[t] = "newline"
  /\ acked' = [acked EXCEPT ![target[t]] = @ \cup {message[t]}]
  /\ Leave(t)
  /\ UNCHANGED <<created, log, orphans, cuts, diskFaults>>

\* flush().await writes the newline, and the append returns Ok.
WriteNewline(t) ==
  /\ awaiting[t] = "newline"
  /\ log' = [log EXCEPT ![target[t]] = Append(@, NL)]
  /\ acked' = [acked EXCEPT ![target[t]] = @ \cup {message[t]}]
  /\ Leave(t)
  /\ UNCHANGED <<created, orphans, cuts, diskFaults>>

\* load_messages reads the file and returns Readable of it.
ReadLog(t) ==
  /\ awaiting[t] = "reading"
  /\ Leave(t)
  /\ UNCHANGED <<created, log, orphans, acked, cuts, diskFaults>>

-----------------------------------------------------------------------------
(* Faults                                                                  *)

\* The next write job of a task.
NextWrite(t) ==
  CASE awaiting[t] = "writing" -> FirstWrite(message[t])
    [] awaiting[t] = "newline" -> <<NL>>
    [] OTHER             -> <<>>

Fault == diskFaults < MaxFaults /\ diskFaults' = diskFaults + 1

\* The future is dropped.  Its next write may already be in a blocking
\* thread; the rest of the line is lost with the BufWriter.
Drop(t) ==
  /\ Fault
  /\ t \in Droppable /\ awaiting[t] # "idle"
  /\ \E bytes \in {<<>>, NextWrite(t)} :
       /\ orphans' = IF bytes = <<>> THEN orphans
                     ELSE orphans \cup {[session |-> target[t], bytes |-> bytes]}
       /\ cuts' = IF bytes = <<>> /\ awaiting[t] # "newline" THEN cuts
                  ELSE [cuts EXCEPT ![target[t]] = @ + 1]
  /\ Leave(t)
  /\ UNCHANGED <<created, log, acked>>

RunOrphan(o) ==
  /\ o \in orphans
  /\ orphans' = orphans \ {o}
  /\ log' = [log EXCEPT ![o.session] = @ \o o.bytes]
  /\ UNCHANGED <<lockVars, created, awaiting, message, acked, cuts, diskFaults>>

\* A write stops half way and the append returns the error.
WriteFails(t) ==
  /\ Fault
  /\ awaiting[t] \in {"writing", "newline"}
  /\ \E part \in {<<>>, <<Piece>>, <<message[t]>>} :
       log' = [log EXCEPT ![target[t]] = IF awaiting[t] = "writing" THEN @ \o part ELSE @]
  /\ cuts' = [cuts EXCEPT ![target[t]] = @ + 1]
  /\ Leave(t)
  /\ UNCHANGED <<created, orphans, acked>>

\* The tasks of a session between the first and the last byte of an append.
Appending(s) == {t \in Tasks : target[t] = s /\ awaiting[t] \in {"writing", "newline"}}

ServerCrash ==
  /\ Fault
  /\ \E torn \in SUBSET {t \in Tasks : awaiting[t] = "writing"} :
       log' = [s \in Sessions |->
                 IF \E t \in torn : target[t] = s THEN Append(log[s], Piece) ELSE log[s]]
  /\ cuts' = [s \in Sessions |-> cuts[s] + Cardinality(Appending(s))]
  /\ LocksReset
  /\ awaiting' = [t \in Tasks |-> "idle"]
  /\ message' = [t \in Tasks |-> NoMessage]
  /\ orphans' = {}
  /\ UNCHANGED <<created, acked>>

-----------------------------------------------------------------------------
TranscriptNext ==
  \/ \E s \in Sessions : CreateSession(s)
  \/ \E t \in Tasks :
       \/ \E s \in Sessions, m \in Messages \cup {NoMessage} : Begin(t, s, m)
       \/ Enter(t)
       \/ RefuseAppend(t)
       \/ OpenForAppend(t)
       \/ WriteLine(t)
       \/ WriteBody(t)
       \/ WriteNewline(t)
       \/ ReadLog(t)
       \/ Drop(t)
       \/ WriteFails(t)
  \/ \E o \in orphans : RunOrphan(o)
  \/ ServerCrash

TranscriptSpec == TranscriptInit /\ [][TranscriptNext]_transcriptVars

-----------------------------------------------------------------------------
(* Properties                                                              *)

\* Each interrupted append (crash, failed write, dropped future) costs at most
\* one message whose append_message returned Ok: the one whose line it is
\* glued to.
LossIsBounded ==
  \A s \in Sessions : Cardinality(acked[s] \ Readable(log[s])) <= cuts[s]

\* A reader never sees an append half done: while no append of the session was
\* interrupted, the file load_messages reads ends with a complete line.
ReadersSeeWholeLines ==
  \A t \in Tasks :
    awaiting[t] = "reading" /\ cuts[target[t]] = 0
      => log[target[t]] = <<>> \/ log[target[t]][Len(log[target[t]])] = NL

\* The size check and the write belong together: concurrent appends cannot
\* all pass the check, so the file exceeds the limit by less than one line.
SizeLimitHolds ==
  \A s \in Sessions : cuts[s] = 0 => Len(log[s]) <= TranscriptLimit + 1
=============================================================================

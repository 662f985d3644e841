------------------------------ MODULE Telegram ------------------------------
(***************************************************************************)
(* TelegramBot::start_polling of kn-code-server/src/telegram.rs, and the   *)
(* service it polls.  An update is its place in the queue of the service,  *)
(* of which only its kind matters: "text" of an allowed user is answered;  *)
(* "silent" stands for strangers, voice and updates without a message;     *)
(* "malformed" does not deserialize.  How long the bot waits is left out.  *)
(***************************************************************************)
EXTENDS Naturals, Sequences

CONSTANTS MaxUpdates, MaxRestarts   \* bounds

ASSUME TelegramAssumption == MaxUpdates \in Nat /\ MaxRestarts \in Nat

VARIABLES
  updates,      \* what was sent to the bot, oldest first
  confirmed,    \* the service has dropped this many of them
  lastUpdateId, \* last_update_id, kept in memory
  batch,        \* what get_updates returned, without what was taken, a set as ids ascend
  handling,     \* the update handle_message is at, 0 if none
  answers,      \* how often each update was answered, or tried to
  restarts      \* of the bot

telegramVars == <<updates, confirmed, lastUpdateId, batch, handling, answers, restarts>>

TelegramTypeOK ==
  /\ updates \in Seq({"text", "silent", "malformed"})
  /\ confirmed \in 0..Len(updates) /\ lastUpdateId \in 0..Len(updates)
  /\ batch \subseteq DOMAIN updates
  /\ handling \in 0..Len(updates)
  /\ answers \in [DOMAIN updates -> Nat]
  /\ restarts \in 0..MaxRestarts

TelegramInit ==
  /\ updates = <<>> /\ confirmed = 0 /\ answers = <<>>
  /\ lastUpdateId = 0 /\ batch = {} /\ handling = 0 /\ restarts = 0

-----------------------------------------------------------------------------

UpdateArrives(kind) ==
  /\ Len(updates) < MaxUpdates
  /\ updates' = Append(updates, kind) /\ answers' = Append(answers, 0)
  /\ UNCHANGED <<confirmed, lastUpdateId, batch, handling, restarts>>

\* The newest update that the service or the bot knows to be done with.
Newest == IF lastUpdateId > confirmed THEN lastUpdateId ELSE confirmed

\* Mutant: a message is handled by a task of its own.
MayPoll_Detached == batch = {}
MayPoll == batch = {} /\ handling = 0

\* get_updates asks from last_update_id + 1 on, by which the service drops
\* what is older.  It returns the oldest of the rest, of which the bot keeps
\* those it can read; none at all if the answer is an error or is lost.
GetUpdates ==
  /\ MayPoll
  /\ confirmed' = Newest
  /\ \E last \in Newest .. Len(updates) :
       batch' = {u \in Newest + 1 .. last : updates[u] # "malformed"}
  /\ UNCHANGED <<updates, lastUpdateId, handling, answers, restarts>>

\* The id is recorded before the message is handled.  An id that is not newer
\* is skipped, but what get_updates returned is newer.
TakeUpdate ==
  /\ handling = 0
  /\ \E next \in batch :
       /\ \A u \in batch : next <= u
       /\ batch' = batch \ {next}
       /\ lastUpdateId' = IF next > lastUpdateId THEN next ELSE lastUpdateId
       /\ handling' = IF next > lastUpdateId /\ updates[next] = "text" THEN next ELSE 0
  /\ UNCHANGED <<updates, confirmed, answers, restarts>>

\* send_text_response; its failure is ignored.
HandleMessage ==
  /\ handling # 0 /\ handling' = 0
  /\ answers' = [answers EXCEPT ![handling] = @ + 1]
  /\ UNCHANGED <<updates, confirmed, lastUpdateId, batch, restarts>>

Restart ==
  /\ restarts < MaxRestarts /\ restarts' = restarts + 1
  /\ lastUpdateId' = 0 /\ batch' = {} /\ handling' = 0
  /\ UNCHANGED <<updates, confirmed, answers>>

TelegramNext ==
  \/ \E kind \in {"text", "silent", "malformed"} : UpdateArrives(kind)
  \/ GetUpdates \/ TakeUpdate \/ HandleMessage \/ Restart

TelegramSpec == TelegramInit /\ [][TelegramNext]_telegramVars

-----------------------------------------------------------------------------
(* Properties                                                              *)

\* The service drops no text of an allowed user that the bot has not answered,
\* or tried to, although its id is recorded first and the bot restarts
\* anywhere; and an update is answered again only after a restart.
ConfirmedAreHandled ==
  \A u \in DOMAIN updates :
    /\ u <= confirmed /\ updates[u] = "text" => answers[u] > 0
    /\ answers[u] <= 1 + restarts
=============================================================================

--------------------------- MODULE SessionRecords ---------------------------
(***************************************************************************)
(* What kn-code-session/src/store.rs promises about session.json: every    *)
(* session has one record, and each operation changes one part of it in a  *)
(* single step, from the record that is current at that step.              *)
(***************************************************************************)
CONSTANTS
  Sessions,   \* session ids
  States,     \* values of SessionRecord.state
  Turns,      \* values of SessionRecord.turns_completed
  NoRecord    \* the session has not been created

VARIABLE record   \* session -> its record

Record == [state : States, turns : Turns]

NewRecord == [state |-> "active", turns |-> 0]

RecordsInit == record = [s \in Sessions |-> NoRecord]

Create(s) ==
  /\ record[s] = NoRecord
  /\ record' = [record EXCEPT ![s] = NewRecord]

SetState(s, state) ==
  /\ record[s] # NoRecord
  /\ record' = [record EXCEPT ![s].state = state]

SetTurns(s, turns) ==
  /\ record[s] # NoRecord
  /\ record' = [record EXCEPT ![s].turns = turns]

RecordsNext ==
  \E s \in Sessions :
    \/ Create(s)
    \/ \E state \in States : SetState(s, state)
    \/ \E turns \in Turns : SetTurns(s, turns)

RecordsSpec == RecordsInit /\ [][RecordsNext]_record
=============================================================================

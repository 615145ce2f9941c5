--------------------------------- MODULE Vault ---------------------------------
(***************************************************************************)
(* The vault of store/vault.c on the files of plat/plat_files_posix.c: one *)
(* collection, one process, one call at a time.  A save is cut at every    *)
(* call of the platform layer, because the program can die, or the call    *)
(* fail, between any two of them: prepare the directory, open the          *)
(* temporary file, write it, close it, rename it over the record, or       *)
(* remove it.  Text is buffered by stdio until the close.                  *)
(*                                                                         *)
(* An identifier is the second of its creation with a counter that         *)
(* vault_open resets (record_make_id keeps 16 bits of it: SeqMod).         *)
(***************************************************************************)
EXTENDS Integers

CONSTANTS
  Contents,      \* the texts a record can have
  Absent,        \* nothing stored under a name
  Torn,          \* a file that holds less than the text it was to hold
  SeqMod,        \* how many values the counter part of an identifier has
  MaxSecond,     \* bound of the model: the last second of the clock
  FlushMayFail,  \* may the flush in fclose lose text (a full disk)?
  QuickRestart   \* may the program be started again within the same second?

ASSUME VaultAssumption ==
  /\ SeqMod \in Nat \ {0}
  /\ MaxSecond \in Nat
  /\ Absent \notin Contents /\ Torn \notin Contents /\ Absent # Torn
  /\ FlushMayFail \in BOOLEAN /\ QuickRestart \in BOOLEAN

Seconds == 0 .. MaxSecond
Counters == 0 .. SeqMod - 1
Ids == Seconds \X Counters
Calls == [id : Ids, content : Contents]

VARIABLES
  files,    \* identifier -> text under "<id>.gmi"
  temps,    \* identifier -> text under "<id>.gmi.tmp"
  second,   \* time(NULL)
  seq,      \* the vault's counter, as record_make_id uses it
  issued,   \* how many identifiers were made in this second
  known,    \* every identifier ever made
  pc,       \* where the running call is; "down" while no program runs
  call,     \* identifier and text of the running save
  answer    \* what the last call returned

vars == <<files, temps, second, seq, issued, known, pc, call, answer>>
disk == <<files, temps>>
clock == <<second, issued>>

TypeOK ==
  /\ files \in [Ids -> Contents \union {Absent, Torn}]
  /\ temps \in [Ids -> Contents \union {Absent, Torn}]
  /\ second \in Seconds
  /\ seq \in Counters
  /\ issued \in 0 .. SeqMod
  /\ known \subseteq Ids
  /\ pc \in {"down", "ready", "prepare", "open", "write", "close", "close_short",
             "rename", "discard"}
  /\ call \in Calls
  /\ answer \in {"none", "ok", "error"}

Init ==
  /\ files = [id \in Ids |-> Absent]
  /\ temps = [id \in Ids |-> Absent]
  /\ second = 0
  /\ seq = 0
  /\ issued = 0
  /\ known = {}
  /\ pc = "down"
  /\ call \in Calls
  /\ answer = "none"

--------------------------------------------------------------------------------
(* The end of a call and of the program.                                   *)

Return(result) ==
  /\ pc' = "ready"
  /\ answer' = result

\* vault_open.  Without QuickRestart a program starts in a second in which no
\* identifier was made yet.
Open ==
  /\ pc = "down"
  /\ QuickRestart \/ issued = 0
  /\ pc' = "ready"
  /\ seq' = 0
  /\ UNCHANGED <<disk, clock, known, call, answer>>

\* The program ends: vault_close between two calls, a crash inside one.
Die ==
  /\ pc # "down"
  /\ pc' = "down"
  /\ answer' = "none"
  /\ UNCHANGED <<disk, clock, seq, known, call>>

Tick ==
  /\ second < MaxSecond
  /\ second' = second + 1
  /\ issued' = 0
  /\ UNCHANGED <<disk, seq, known, pc, call, answer>>

--------------------------------------------------------------------------------
(* vault_save.                                                             *)

BeginSave(id, c) ==
  /\ pc = "ready"
  /\ pc' = "prepare"
  /\ call' = [id |-> id, content |-> c]
  /\ answer' = "none"
  /\ UNCHANGED <<disk, second>>

\* Mutant: the counter stays.
SaveNewUncounted(c) ==
  /\ issued < SeqMod
  /\ BeginSave(<<second, seq>>, c)
  /\ issued' = issued + 1
  /\ known' = known \union {<<second, seq>>}
  /\ UNCHANGED seq

\* A record without identifier gets one; the counter moves on even if the
\* save fails later.  Bound of the model: at most SeqMod records a second.
SaveNew(c) ==
  /\ issued < SeqMod
  /\ BeginSave(<<second, seq>>, c)
  /\ seq' = (seq + 1) % SeqMod
  /\ issued' = issued + 1
  /\ known' = known \union {<<second, seq>>}

\* A record that carries an identifier keeps it, whether or not its file is
\* still there.
SaveKnown(id, c) ==
  /\ id \in known
  /\ BeginSave(id, c)
  /\ UNCHANGED <<seq, issued, known>>

\* An identifier that record_id_valid refuses ends the call at once.
Reject ==
  /\ pc = "ready"
  /\ Return("error")
  /\ UNCHANGED <<disk, clock, seq, known, call>>

\* The record is composed and the collection's directory made; either may fail.
Prepare ==
  /\ pc = "prepare"
  /\ \/ pc' = "open" /\ UNCHANGED answer
     \/ Return("error")
  /\ UNCHANGED <<disk, clock, seq, known, call>>

\* fopen(..., "wb") truncates what an earlier program left under that name.
OpenTemp ==
  /\ pc = "open"
  /\ \/ /\ pc' = "write"
        /\ temps' = [temps EXCEPT ![call.id] = Torn]
        /\ UNCHANGED answer
     \/ Return("error") /\ UNCHANGED temps
  /\ UNCHANGED <<files, clock, seq, known, call>>

Write ==
  /\ pc = "write"
  /\ pc' \in {"close", "close_short"}
  /\ UNCHANGED <<disk, clock, seq, known, call, answer>>

\* Mutant: a short write is renamed over the record like a complete one.
CloseTempAnyway ==
  /\ pc' = "rename"
  /\ \/ pc = "close_short" /\ UNCHANGED temps
     \/ /\ pc = "close"
        /\ \/ temps' = [temps EXCEPT ![call.id] = call.content]
           \/ FlushMayFail /\ UNCHANGED temps
  /\ UNCHANGED <<files, clock, seq, known, call, answer>>

\* plat_close flushes and drops the result of fclose; only a short write is
\* noticed.
CloseTemp ==
  /\ \/ pc = "close_short" /\ pc' = "discard" /\ UNCHANGED temps
     \/ /\ pc = "close"
        /\ pc' = "rename"
        /\ \/ temps' = [temps EXCEPT ![call.id] = call.content]
           \/ FlushMayFail /\ UNCHANGED temps
  /\ UNCHANGED <<files, clock, seq, known, call, answer>>

\* Mutant: a failed rename is reported as success.
RenameUnchecked ==
  /\ pc = "rename"
  /\ Return("ok")
  /\ \/ /\ files' = [files EXCEPT ![call.id] = temps[call.id]]
        /\ temps' = [temps EXCEPT ![call.id] = Absent]
     \/ UNCHANGED disk
  /\ UNCHANGED <<clock, seq, known, call>>

Rename ==
  /\ pc = "rename"
  /\ \/ /\ files' = [files EXCEPT ![call.id] = temps[call.id]]
        /\ temps' = [temps EXCEPT ![call.id] = Absent]
        /\ Return("ok")
     \/ pc' = "discard" /\ UNCHANGED <<disk, answer>>
  /\ UNCHANGED <<clock, seq, known, call>>

\* plat_remove may fail as well; nobody asks.
Discard ==
  /\ pc = "discard"
  /\ temps' \in {temps, [temps EXCEPT ![call.id] = Absent]}
  /\ Return("error")
  /\ UNCHANGED <<files, clock, seq, known, call>>

\* vault_delete: success also if the file was gone already.
Delete(id) ==
  /\ pc = "ready"
  /\ id \in known
  /\ \/ files' = [files EXCEPT ![id] = Absent] /\ Return("ok")
     \/ Return("error") /\ UNCHANGED files
  /\ UNCHANGED <<temps, clock, seq, known, call>>

Next ==
  \/ Open \/ Die \/ Tick
  \/ \E c \in Contents : SaveNew(c)
  \/ \E id \in Ids, c \in Contents : SaveKnown(id, c)
  \/ Reject \/ Prepare \/ OpenTemp \/ Write \/ CloseTemp \/ Rename \/ Discard
  \/ \E id \in Ids : Delete(id)

Spec == Init /\ [][Next]_vars

--------------------------------------------------------------------------------
(* Properties.                                                             *)

\* No record's file is ever half written, whichever platform call fails and
\* wherever the program dies (vault.c:7-8): the temporary file takes every
\* incomplete state, and only a complete one is renamed.
NeverHalfWritten == \A id \in Ids : files[id] # Torn

\* The identifier given to a new record has never named another record, not
\* even a deleted one: a save of a new record replaces nothing
\* (record_make_id with the counter of struct vault).
NewIdentifierIsFresh ==
  [][pc = "ready" /\ pc' = "prepare" /\ issued' # issued => call'.id \notin known]_vars

Stage == IF pc \in {"down", "ready"} THEN pc ELSE "busy"

Promise == INSTANCE RecordStore WITH records <- files, stage <- Stage

\* The files implement the store of whole records: every path through a save
\* ends in the old version or the new one, and success is answered only for
\* the new one.
KeepsPromise == Promise!Spec
================================================================================

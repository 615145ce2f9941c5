------------------------------ MODULE RecordStore ------------------------------
(***************************************************************************)
(* What the vault (store/vault.h) promises to the browser and to scripts:  *)
(* a store of whole records.  A save takes effect completely or not at     *)
(* all, an answer of success means that it took effect, a program that     *)
(* dies in between leaves every record in the version it had, and the      *)
(* identifier given to a new record has never named another one.           *)
(*                                                                         *)
(* There are no files, temporary names or counters here; module Vault      *)
(* implements this specification.                                          *)
(***************************************************************************)
CONSTANTS
  Ids,       \* the identifiers a record can have
  Contents,  \* the texts a record can have
  Absent     \* not a text: marks an identifier under which nothing is stored

VARIABLES
  records,   \* what a load of each identifier finds
  known,     \* every identifier ever given to a record, deleted ones included
  stage,     \* "down", "ready" for a call, or "busy" with a save
  call,      \* identifier and content of the last save
  answer     \* what the last call returned: "ok", "error", "none" before any

storeVars == <<records, known, stage, call, answer>>

Init ==
  /\ records = [id \in Ids |-> Absent]
  /\ known = {}
  /\ stage = "down"
  /\ call \in [id : Ids, content : Contents]
  /\ answer = "none"

Begin(id, c) ==
  /\ stage = "ready"
  /\ stage' = "busy"
  /\ call' = [id |-> id, content |-> c]
  /\ answer' = "none"
  /\ UNCHANGED records

\* A new record gets an identifier no record, living or deleted, ever had.
Create(id, c) ==
  /\ id \notin known
  /\ Begin(id, c)
  /\ known' = known \union {id}

Update(id, c) ==
  /\ id \in known
  /\ Begin(id, c)
  /\ UNCHANGED known

Commit ==
  /\ stage = "busy"
  /\ records' = [records EXCEPT ![call.id] = call.content]
  /\ stage' = "ready"
  /\ answer' = "ok"
  /\ UNCHANGED <<known, call>>

Refuse ==
  /\ stage \in {"ready", "busy"}
  /\ stage' = "ready"
  /\ answer' = "error"
  /\ UNCHANGED <<records, known, call>>

Delete(id) ==
  /\ stage = "ready"
  /\ records' = [records EXCEPT ![id] = Absent]
  /\ answer' = "ok"
  /\ UNCHANGED <<known, stage, call>>

Die ==
  /\ stage # "down"
  /\ stage' = "down"
  /\ answer' = "none"
  /\ UNCHANGED <<records, known, call>>

Start ==
  /\ stage = "down"
  /\ stage' = "ready"
  /\ UNCHANGED <<records, known, call, answer>>

Next ==
  \/ \E id \in Ids, c \in Contents : Create(id, c) \/ Update(id, c)
  \/ \E id \in Ids : Delete(id)
  \/ Commit \/ Refuse \/ Die \/ Start

Spec == Init /\ [][Next]_storeVars
================================================================================

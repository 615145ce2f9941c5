------------------------------ MODULE VaultProofs ------------------------------
(***************************************************************************)
(* What TLAPS proves of Vault for every set of texts, every counter width  *)
(* and every length of the run: the types, that no record's file is half   *)
(* written, that identifiers are fresh, and that the files implement       *)
(* RecordStore.                                                            *)
(***************************************************************************)
EXTENDS Vault, TLAPS


--------------------------------------------------------------------------------
(* Types.                                                                  *)

\* The counter stays within its width.
LEMMA CounterWraps ==
  ASSUME NEW n \in Counters PROVE (n + 1) % SeqMod \in Counters
  BY VaultAssumption DEF Counters

\* Every step of the vault, on whatever files and at whatever point it dies,
\* keeps the variables in their types.
LEMMA TypeStep == TypeOK /\ [Next]_vars => TypeOK'
  <1> SUFFICES ASSUME TypeOK, [Next]_vars PROVE TypeOK'
    OBVIOUS
  <1> USE VaultAssumption DEF TypeOK, Return, disk, clock
  <1>1. CASE Open
    BY <1>1 DEF Open, Counters
  <1>2. CASE Die
    BY <1>2 DEF Die
  <1>3. CASE Tick
    BY <1>3 DEF Tick, Seconds
  <1>4. ASSUME NEW c \in Contents, SaveNew(c)
        PROVE  TypeOK'
    <2>1. <<second, seq>> \in Ids
      BY DEF Ids
    <2>2. seq' \in Counters
      BY <1>4, CounterWraps DEF SaveNew
    <2>3. call' \in Calls
      BY <1>4, <2>1 DEF SaveNew, BeginSave, Calls
    <2>4. known' \subseteq Ids
      BY <1>4, <2>1 DEF SaveNew
    <2>5. QED
      BY <1>4, <2>2, <2>3, <2>4 DEF SaveNew, BeginSave
  <1>5. ASSUME NEW id \in Ids, NEW c \in Contents, SaveKnown(id, c)
        PROVE  TypeOK'
    BY <1>5 DEF SaveKnown, BeginSave, Calls
  <1>6. CASE Reject
    BY <1>6 DEF Reject
  <1>7. CASE Prepare
    BY <1>7 DEF Prepare
  <1>8. CASE OpenTemp
    BY <1>8 DEF OpenTemp
  <1>9. CASE Write
    BY <1>9 DEF Write
  <1>10. CASE CloseTemp
    BY <1>10 DEF CloseTemp, Calls
  <1>11. CASE Rename
    BY <1>11 DEF Rename, Calls
  <1>12. CASE Discard
    BY <1>12 DEF Discard
  <1>13. ASSUME NEW id \in Ids, Delete(id)
         PROVE  TypeOK'
    BY <1>13 DEF Delete
  <1>14. CASE UNCHANGED vars
    BY <1>14 DEF vars
  <1>15. QED
    BY <1>1, <1>2, <1>3, <1>4, <1>5, <1>6, <1>7, <1>8, <1>9, <1>10, <1>11, <1>12,
       <1>13, <1>14 DEF Next

\* Every value the vault and its files take is one of the declared ones.
THEOREM TypeCorrect == Spec => []TypeOK
  <1>1. Init => TypeOK
    BY VaultAssumption DEF Init, TypeOK, Seconds, Counters
  <1>2. QED
    BY <1>1, TypeStep, PTL DEF Spec

--------------------------------------------------------------------------------
(* Whole files.                                                            *)

\* What makes NeverHalfWritten inductive: only a closed temporary file is
\* renamed, and a close that loses nothing leaves the whole text in it.
WholeInv ==
  /\ NeverHalfWritten
  /\ pc = "rename" => temps[call.id] = call.content

\* No step renames an incomplete temporary file.
LEMMA WholeStep ==
  ASSUME FlushMayFail = FALSE
  PROVE  TypeOK /\ WholeInv /\ [Next]_vars => WholeInv'
  <1> SUFFICES ASSUME TypeOK, WholeInv, [Next]_vars PROVE WholeInv'
    OBVIOUS
  <1> USE VaultAssumption DEF WholeInv, NeverHalfWritten, TypeOK, Return, disk, clock
  <1>1. CASE Open
    BY <1>1 DEF Open
  <1>2. CASE Die
    BY <1>2 DEF Die
  <1>3. CASE Tick
    BY <1>3 DEF Tick
  <1>4. ASSUME NEW c \in Contents, SaveNew(c)
        PROVE  WholeInv'
    BY <1>4 DEF SaveNew, BeginSave
  <1>5. ASSUME NEW id \in Ids, NEW c \in Contents, SaveKnown(id, c)
        PROVE  WholeInv'
    BY <1>5 DEF SaveKnown, BeginSave
  <1>6. CASE Reject
    BY <1>6 DEF Reject
  <1>7. CASE Prepare
    BY <1>7 DEF Prepare
  <1>8. CASE OpenTemp
    BY <1>8 DEF OpenTemp
  <1>9. CASE Write
    BY <1>9 DEF Write
  <1>10. CASE CloseTemp
    BY <1>10 DEF CloseTemp, Calls
  <1>11. CASE Rename
    BY <1>11 DEF Rename, Calls
  <1>12. CASE Discard
    BY <1>12 DEF Discard
  <1>13. ASSUME NEW id \in Ids, Delete(id)
         PROVE  WholeInv'
    BY <1>13 DEF Delete
  <1>14. CASE UNCHANGED vars
    BY <1>14 DEF vars
  <1>15. QED
    BY <1>1, <1>2, <1>3, <1>4, <1>5, <1>6, <1>7, <1>8, <1>9, <1>10, <1>11, <1>12,
       <1>13, <1>14 DEF Next

\* If fclose loses no text, no record's file is ever half written, wherever the
\* program dies and whichever platform call fails.
THEOREM WholeFiles ==
  ASSUME FlushMayFail = FALSE
  PROVE  Spec => []NeverHalfWritten
  <1>1. Init => WholeInv
    BY VaultAssumption DEF Init, WholeInv, NeverHalfWritten
  <1>2. TypeOK /\ WholeInv /\ [Next]_vars => WholeInv'
    BY WholeStep
  <1>3. WholeInv => NeverHalfWritten
    BY DEF WholeInv
  <1>4. QED
    BY <1>1, <1>2, <1>3, TypeCorrect, PTL DEF Spec

--------------------------------------------------------------------------------
(* Fresh identifiers.                                                      *)

\* The counter as it was k identifiers ago.
Back(k) == IF k <= seq THEN seq - k ELSE seq - k + SeqMod

\* No identifier comes from a later second, and those of this second are the
\* last "issued" ones.  The counter, kept modulo SeqMod, does not remember how
\* often it has wrapped; that at most SeqMod identifiers are made in a second
\* keeps them apart.
FreshInv ==
  \A id \in known :
    /\ id[1] <= second
    /\ id[1] = second => \E k \in 1 .. issued : id[2] = Back(k)

\* The identifier about to be made is not among those made before.
LEMMA NextIsFresh ==
  ASSUME TypeOK, FreshInv, issued < SeqMod
  PROVE  <<second, seq>> \notin known
  BY VaultAssumption DEF TypeOK, FreshInv, Back, Counters, Seconds

\* Increment modulo the width, without the division.
LEMMA Increment ==
  ASSUME NEW n \in Counters
  PROVE  (n + 1) % SeqMod = IF n = SeqMod - 1 THEN 0 ELSE n + 1
  BY VaultAssumption DEF Counters

\* Every step keeps the identifiers of the current second apart.
LEMMA FreshStep ==
  ASSUME QuickRestart = FALSE
  PROVE  TypeOK /\ FreshInv /\ [Next]_vars => FreshInv'
  <1> SUFFICES ASSUME TypeOK, FreshInv, [Next]_vars PROVE FreshInv'
    OBVIOUS
  <1>1. CASE Open
    BY <1>1, VaultAssumption DEF Open, FreshInv, clock, disk
  <1>2. CASE Tick
    BY <1>2, VaultAssumption DEF Tick, FreshInv, TypeOK, Seconds, Ids, disk
  <1>3. ASSUME NEW c \in Contents, SaveNew(c)
        PROVE  FreshInv'
    <2>1. seq' = IF seq = SeqMod - 1 THEN 0 ELSE seq + 1
      BY <1>3, Increment DEF SaveNew, TypeOK
    <2>2. ASSUME NEW k \in 1 .. issued
          PROVE  k + 1 \in 1 .. issued' /\ Back(k + 1)' = Back(k)
      BY <1>3, <2>1, VaultAssumption DEF SaveNew, Back, TypeOK, Counters
    <2>3. Back(1)' = seq /\ 1 \in 1 .. issued'
      BY <1>3, <2>1, VaultAssumption DEF SaveNew, Back, TypeOK, Counters
    <2>4. second' = second /\ known' = known \union {<<second, seq>>}
      BY <1>3 DEF SaveNew, BeginSave
    <2>5. ASSUME NEW id \in known
          PROVE  id[1] <= second' /\ (id[1] = second' => \E k \in 1 .. issued' : id[2] = Back(k)')
      BY <2>2, <2>4, <2>5 DEF FreshInv
    <2>6. QED
      BY <2>3, <2>4, <2>5, VaultAssumption DEF FreshInv, TypeOK, Seconds, Counters
  <1>4. ASSUME NEW id \in Ids, NEW c \in Contents, SaveKnown(id, c)
        PROVE  FreshInv'
    BY <1>4 DEF SaveKnown, BeginSave, FreshInv, Back
  <1>5. CASE Die \/ Reject \/ Prepare \/ OpenTemp \/ Write \/ CloseTemp \/ Rename \/ Discard
    BY <1>5 DEF Die, Reject, Prepare, OpenTemp, Write, CloseTemp, Rename, Discard,
                FreshInv, Back, clock
  <1>6. ASSUME NEW id \in Ids, Delete(id)
        PROVE  FreshInv'
    BY <1>6 DEF Delete, FreshInv, Back, clock
  <1>7. CASE UNCHANGED vars
    BY <1>7 DEF vars, FreshInv, Back
  <1>8. QED
    BY <1>1, <1>2, <1>3, <1>4, <1>5, <1>6, <1>7 DEF Next

\* If the program is not started twice in a second in which it makes records,
\* the invariant above holds in every state.
LEMMA FreshAlways ==
  ASSUME QuickRestart = FALSE
  PROVE  Spec => []FreshInv
  <1>1. Init => FreshInv
    BY DEF Init, FreshInv
  <1>2. TypeOK /\ FreshInv /\ [Next]_vars => FreshInv'
    BY FreshStep
  <1>3. QED
    BY <1>1, <1>2, TypeCorrect, PTL DEF Spec

\* If the program is not started twice in a second in which it makes records,
\* a new record gets an identifier no record ever had.
THEOREM FreshIdentifiers ==
  ASSUME QuickRestart = FALSE
  PROVE  Spec => NewIdentifierIsFresh
  <1> DEFINE Fresh == pc = "ready" /\ pc' = "prepare" /\ issued' # issued
                        => call'.id \notin known
  <1>1. ASSUME TypeOK, FreshInv, Next
        PROVE  Fresh
    <2>1. ASSUME NEW c \in Contents, SaveNew(c)
          PROVE  Fresh
      BY <1>1, <2>1, NextIsFresh DEF SaveNew, BeginSave
    <2>2. ASSUME NEW id \in Ids, NEW c \in Contents, SaveKnown(id, c)
          PROVE  Fresh
      BY <2>2 DEF SaveKnown
    <2>3. CASE Open \/ Die \/ Tick \/ Reject \/ Prepare \/ OpenTemp \/ Write \/ CloseTemp
               \/ Rename \/ Discard
      BY <2>3 DEF Open, Die, Tick, Reject, Prepare, OpenTemp, Write, CloseTemp, Rename,
                  Discard, Return, clock
    <2>4. ASSUME NEW id \in Ids, Delete(id)
          PROVE  Fresh
      BY <2>4 DEF Delete, clock
    <2>5. QED
      BY <2>4, <1>1, <2>1, <2>2, <2>3 DEF Next
  <1>2. TypeOK /\ FreshInv /\ [Next]_vars => [Fresh]_vars
    BY <1>1
  <1>3. QED
    BY <1>2, TypeCorrect, FreshAlways, PTL DEF Spec, NewIdentifierIsFresh

--------------------------------------------------------------------------------
(* The files implement the store of whole records.                         *)

\* Every step of the vault is a step of RecordStore or changes nothing there:
\* the rename is the moment a save takes effect.
LEMMA PromiseStep ==
  ASSUME FlushMayFail = FALSE
  PROVE  TypeOK /\ WholeInv /\ FreshInv /\ [Next]_vars
           => [Promise!Next]_(Promise!storeVars)
  <1> SUFFICES ASSUME TypeOK, WholeInv, FreshInv, [Next]_vars
               PROVE  [Promise!Next]_(Promise!storeVars)
    OBVIOUS
  <1> USE DEF Promise!storeVars, Stage, Return, disk, clock
  <1>1. CASE Open
    BY <1>1 DEF Open, Promise!Next, Promise!Start
  <1>2. CASE Die
    BY <1>2 DEF Die, Promise!Next, Promise!Die
  <1>3. CASE Tick
    BY <1>3 DEF Tick
  <1>4. ASSUME NEW c \in Contents, SaveNew(c)
        PROVE  Promise!Next
    <2>1. <<second, seq>> \in Ids \ known
      BY <1>4, NextIsFresh DEF SaveNew, TypeOK, Ids
    <2>2. Promise!Create(<<second, seq>>, c)
      BY <1>4, <2>1 DEF SaveNew, BeginSave, Promise!Create, Promise!Begin
    <2>3. QED
      BY <2>1, <2>2 DEF Promise!Next
  <1>5. ASSUME NEW id \in Ids, NEW c \in Contents, SaveKnown(id, c)
        PROVE  Promise!Next
    BY <1>5 DEF SaveKnown, BeginSave, Promise!Next, Promise!Update, Promise!Begin
  <1>6. CASE Reject
    BY <1>6 DEF Reject, Promise!Next, Promise!Refuse
  <1>7. CASE Prepare
    BY <1>7 DEF Prepare, Promise!Next, Promise!Refuse
  <1>8. CASE OpenTemp
    BY <1>8 DEF OpenTemp, Promise!Next, Promise!Refuse
  <1>9. CASE Write
    BY <1>9 DEF Write
  <1>10. CASE CloseTemp
    BY <1>10 DEF CloseTemp
  <1>11. CASE Rename
    BY <1>11 DEF Rename, WholeInv, Promise!Next, Promise!Commit
  <1>12. CASE Discard
    BY <1>12 DEF Discard, Promise!Next, Promise!Refuse
  <1>13. ASSUME NEW id \in Ids, Delete(id)
         PROVE  Promise!Next
    BY <1>13 DEF Delete, Promise!Next, Promise!Delete, Promise!Refuse
  <1>14. CASE UNCHANGED vars
    BY <1>14 DEF vars
  <1>15. QED
    BY <1>1, <1>2, <1>3, <1>4, <1>5, <1>6, <1>7, <1>8, <1>9, <1>10, <1>11, <1>12,
       <1>13, <1>14 DEF Next

\* With a close that loses no text and no second start within a second, the
\* vault keeps the promise of RecordStore: saves are atomic under every crash
\* and every failing call, success means stored, new identifiers are new.
THEOREM VaultImplementsStore ==
  ASSUME FlushMayFail = FALSE, QuickRestart = FALSE
  PROVE  Spec => KeepsPromise
  <1>1. Init => Promise!Init
    BY DEF Init, Promise!Init, Stage, Calls
  <1>2. Init => WholeInv
    BY VaultAssumption DEF Init, WholeInv, NeverHalfWritten
  <1>3. TypeOK /\ WholeInv /\ [Next]_vars => WholeInv'
    BY WholeStep
  <1>4. TypeOK /\ WholeInv /\ FreshInv /\ [Next]_vars
          => [Promise!Next]_(Promise!storeVars)
    BY PromiseStep
  <1>5. QED
    BY <1>1, <1>2, <1>3, <1>4, TypeCorrect, FreshAlways, PTL
       DEF Spec, KeepsPromise, Promise!Spec
================================================================================

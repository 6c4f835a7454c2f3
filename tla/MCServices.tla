------------------------------ MODULE MCServices ------------------------------
(* Model-checking instances of the services that keep something: recordings, *)
(* alarms and secrets in files, targets and models in memory.  They share no *)
(* state, so one run checks them side by side: which says whose steps a      *)
(* behaviour takes, the others stay in their initial states.                 *)
EXTENDS StorageManager, TLC

CONSTANTS
  Publishers, MaxEvents, MaxRecords, Faults, MaxFaults, MaxLines,   \* AlarmManager
  Processes, Names, MaxKeys,                                        \* KeyStore
  Width, Border, Line, Reach, maximumMissedFrames, dwellTime,       \* Iva
  MaxTargets, MaxFrames

(* AlarmManager::create() refuses a maximumRecords of 0, and a rule about    *)
(* intrusions a dwellTime of 0; the other numbers are as they come.          *)
ASSUME ServicesAssumption ==
  /\ MaxEvents \in Nat /\ MaxRecords \in Nat \ {0} /\ MaxFaults \in Nat /\ MaxLines \in Nat
  /\ Width \in Nat /\ Border \in Int /\ Line \in Int /\ Reach \in Nat
  /\ maximumMissedFrames \in Nat /\ dwellTime \in Nat \ {0}
  /\ MaxTargets \in Nat /\ MaxFrames \in Nat

VARIABLES
  which,
  almNextId, almPublishing, almPosted, almActing, almRecords, almJournal, almMissing,
  almFaults,
  keyMaster, keyEntries, keyTemporaries, keyAt, keyMasterKey, keyName, keyDrawn,
  keyWithdrawn,
  ivaTracks, ivaNextId, ivaStates, ivaNow, ivaFrames,
  infDevice, infLoaded, infContext, infOutputs_held, infContexts, infBuffers

storageVars == vars
alarmVars == <<almNextId, almPublishing, almPosted, almActing, almRecords, almJournal,
               almMissing, almFaults>>
keyVars == <<keyMaster, keyEntries, keyTemporaries, keyAt, keyMasterKey, keyName,
             keyDrawn, keyWithdrawn>>
ivaVars == <<ivaTracks, ivaNextId, ivaStates, ivaNow, ivaFrames>>
engineVars == <<infDevice, infLoaded, infContext, infOutputs_held, infContexts, infBuffers>>
servicesVars == <<which, storageVars, alarmVars, keyVars, ivaVars, engineVars>>

Alarm == INSTANCE AlarmManager WITH
  nextId <- almNextId, publishing <- almPublishing, posted <- almPosted,
  acting <- almActing, records <- almRecords, journal <- almJournal,
  missing <- almMissing, faults <- almFaults

Store == INSTANCE KeyStore WITH
  master <- keyMaster, entries <- keyEntries, temporaries <- keyTemporaries, at <- keyAt,
  masterKey <- keyMasterKey, name <- keyName, drawn <- keyDrawn, withdrawn <- keyWithdrawn

Analysis == INSTANCE Iva WITH
  tracks <- ivaTracks, nextId <- ivaNextId, states <- ivaStates, now <- ivaNow,
  frames <- ivaFrames

Engine == INSTANCE Inference WITH
  device <- infDevice, loaded <- infLoaded, context <- infContext,
  outputs_held <- infOutputs_held, contexts <- infContexts, buffers <- infBuffers

ServicesInit ==
  /\ which \in {"storage", "alarm", "keys", "analysis", "engine"}
  /\ Init /\ Alarm!Init /\ Store!Init /\ Analysis!Init /\ Engine!Init
  /\ which # "keys" => keyName = [p \in Processes |-> CHOOSE n \in Names : TRUE]

ServicesNext ==
  \/ /\ which = "storage" /\ Next
     /\ UNCHANGED <<which, alarmVars, keyVars, ivaVars, engineVars>>
  \/ /\ which = "alarm" /\ Alarm!Next
     /\ UNCHANGED <<which, storageVars, keyVars, ivaVars, engineVars>>
  \/ /\ which = "keys" /\ Store!Next
     /\ UNCHANGED <<which, storageVars, alarmVars, ivaVars, engineVars>>
  \/ /\ which = "analysis" /\ Analysis!Next
     /\ UNCHANGED <<which, storageVars, alarmVars, keyVars, engineVars>>
  \/ /\ which = "engine" /\ Engine!Next
     /\ UNCHANGED <<which, storageVars, alarmVars, keyVars, ivaVars>>

ServicesSpec == ServicesInit /\ [][ServicesNext]_servicesVars

Symmetry == Permutations(Recorders)

-----------------------------------------------------------------------------
(* Correctness: of each service what its module states. *)

(* Recordings and alarms keep their types, and no more alarms are kept than *)
(* were configured.                                                        *)
TypesOK == TypeOK /\ Alarm!TypeOK

(* What was stored can be read: the next process finds every alarm whose    *)
(* lines were written as it was in memory, and every process can load every *)
(* secret, whoever crashed where.                                          *)
StoredIsReadable == Alarm!Recoverable /\ Store!SecretsReadable

(* The analysis takes each target for one and the same as long as it is     *)
(* seen, reports its moves and stays once, and holds the model and its      *)
(* buffers in the vendor's runtime no longer than it uses them.             *)
AnalysisRight ==
  /\ Analysis!OneTargetEach /\ Analysis!IdentityKept
  /\ Analysis!MovesReported /\ Analysis!IntrusionIsAStay
  /\ Engine!OneContext /\ Engine!NoBufferOutlives
=============================================================================

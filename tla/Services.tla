------------------------------ MODULE Services ------------------------------
(***************************************************************************)
(* What works around the books: reconciliations, taxes and reports, which  *)
(* read the ledger; the audit trail, the agents' memory, documents, the    *)
(* connection to the database, encrypted fields and blobs; anomalies,      *)
(* classification, embeddings and dates.  None reads what another writes,  *)
(* so that a behaviour moves one, its mix's part.                          *)
(***************************************************************************)
EXTENDS Reconciliations, Taxes, Statements, AuditTrail, Memories, Documents,
        Connection, Vault, Advice, Embeddings, Calendar

accountingVars == <<reconVars, taxVars, statementVars>>
recordVars == <<auditVars, memoryVars, documentVars>>
storageVars == <<connectionVars, vaultVars>>
adviceVars == <<anomalyVars, classifierVars, embeddingVars, calendarVars>>
vars == <<mix, accountingVars, recordVars, storageVars, adviceVars>>

Init ==
  /\ MixInit
  /\ ReconciliationInit /\ TaxesInit /\ StatementsInit
  /\ AuditInit /\ MemoryInit /\ DocumentInit
  /\ ConnectionInit /\ VaultInit
  /\ AnomalyInit /\ ClassifierInit /\ EmbeddingInit /\ CalendarInit

AccountingNext ==
  /\ \/ ReconciliationNext /\ UNCHANGED <<taxVars, statementVars>>
     \/ TaxesNext /\ UNCHANGED <<reconVars, statementVars>>
     \/ StatementsNext /\ UNCHANGED <<reconVars, taxVars>>
  /\ UNCHANGED <<recordVars, storageVars, adviceVars>>

RecordNext ==
  /\ \/ AuditNext /\ UNCHANGED <<memoryVars, documentVars>>
     \/ MemoryNext /\ UNCHANGED <<auditVars, documentVars>>
     \/ DocumentNext /\ UNCHANGED <<auditVars, memoryVars>>
  /\ UNCHANGED <<accountingVars, storageVars, adviceVars>>

StorageNext ==
  /\ \/ ConnectionNext /\ UNCHANGED vaultVars
     \/ VaultNext /\ UNCHANGED connectionVars
  /\ UNCHANGED <<accountingVars, recordVars, adviceVars>>

AdviceNext ==
  /\ \/ AnomalyNext /\ UNCHANGED <<classifierVars, embeddingVars, calendarVars>>
     \/ ClassifierNext /\ UNCHANGED <<anomalyVars, embeddingVars, calendarVars>>
     \/ EmbeddingNext /\ UNCHANGED <<anomalyVars, classifierVars, calendarVars>>
     \/ CalendarNext /\ UNCHANGED <<anomalyVars, classifierVars, embeddingVars>>
  /\ UNCHANGED <<accountingVars, recordVars, storageVars>>

Next == AccountingNext \/ RecordNext \/ StorageNext \/ AdviceNext

Spec == Init /\ [][Next]_vars

(* Reconciliations match what fits, once, and hide nothing; taxes and       *)
(* reports count everything once, under one sign, and agree.               *)
FiguresSound ==
  /\ ReconciliationTypeOK
  /\ MatchedOnce /\ NothingLeftToMatch /\ NoBetterLeft
  /\ CompletedHidesNothing /\ NotBoth /\ OneADay
  /\ TaxesTypeOK /\ StatementsTypeOK
  /\ CodesAgree /\ EachUnitTaxedOnce /\ PaymentsKept
  /\ SheetsBalance /\ IncomeAgrees /\ CashExplained
  /\ AgingAgrees /\ VarianceCountsOnce

(* What was logged, remembered and stored is kept, linked and found, up to  *)
(* the limits.                                                             *)
RecordsSound ==
  /\ AuditTypeOK /\ MemoryTypeOK /\ DocumentTypeOK
  /\ EntriesLinked /\ RetentionKeeps /\ PurgeCountTrue /\ ActionsApart
  /\ RecentKept /\ LongTermKept /\ TagsFind
  /\ ListedOnce /\ OnlyStubs

(* The version of a database says what its schema has; fields open with    *)
(* the password of the day and no other; a blob that is read is the one     *)
(* that was written.                                                       *)
StorageSound ==
  /\ ConnectionTypeOK /\ VaultTypeOK
  /\ VersionMeansSchema /\ RecordedOnce
  /\ FieldsReadable /\ OthersShut /\ BlobsTrue /\ BlobsReturn

(* What is said of a payment, a text or a paper agrees with the history,   *)
(* the chart of accounts and the table it is said from.                    *)
AdviceSound ==
  /\ AnomalyTypeOK /\ ClassifierTypeOK /\ EmbeddingTypeOK
  /\ DuplicatesFlagged /\ RepeatedIsKnown /\ OutliersOnTop
  /\ FirstIsBest /\ NamesFound /\ DistancesAgree
  /\ CacheInSync /\ MostSimilarFirst /\ OwnLikeFirst

(* Months, quarters, periods and ages agree with the calendar, but for the  *)
(* days on which the code panics or errs.                                  *)
DatesSound ==
  /\ CalendarTypeOK
  /\ MonthsLeadBack /\ AgeCountsBirthdays /\ ValidDaysExist /\ FormatsReadBack
  /\ PeriodsMeet /\ MonthEnds /\ QuarterOfTheDay
=============================================================================

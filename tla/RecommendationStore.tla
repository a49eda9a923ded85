------------------------- MODULE RecommendationStore ------------------------
(***************************************************************************)
(* The file store behind the recommendation graph: one JSON file per id    *)
(* and, while a transaction is being published, one transaction directory  *)
(* with staged replacements, backups and a manifest (taskmaster/store.rs,  *)
(* store/operation.rs).                                                    *)
(*                                                                         *)
(* One operation runs at a time (Owner::claim).  Each starts by recovering *)
(* what an earlier one left, then does its own work step by step.  Between *)
(* any two steps it may end: an I/O error leaves through `?`, or the       *)
(* process dies.  Everything but the program counter is on disk, so both   *)
(* leave the same state.                                                   *)
(***************************************************************************)
EXTENDS RecommendationGraph

CONSTANT Rank    \* the order of the ids in a BTreeMap

ASSUME RankAssumption == Rank \in [Ids -> Nat]

VARIABLES
    files,    \* the graph the record files hold
    tx,       \* the transaction directory
    pc,       \* where the running operation is
    todo,     \* entries its loop has still to handle
    glitch    \* an I/O error made the code give up a committed transaction

vars == <<files, tx, pc, todo, glitch>>

Pcs == {"idle", "scan", "republish", "rollback", "rUnlink", "rSweep", "apply",
        "stage", "commit", "publish", "undo", "unlink", "sweep"}

(* base and next are the contents of the backups and the staged files;     *)
(* staged and backups are the files that exist.                            *)
Directories ==
    [dir: BOOLEAN, manifest: {"none", "draft", "committed"}, base: Graphs, next: Graphs,
     staged: SUBSET Ids, backups: SUBSET Ids]

NoTx == [dir |-> FALSE, manifest |-> "none", base |-> Empty, next |-> Empty,
         staged |-> {}, backups |-> {}]

NewTx(g, h) == [NoTx EXCEPT !.dir = TRUE, !.base = g, !.next = h]

(* The manifest's entries: the records the transaction replaces.           *)
Entries(t) == {i \in Ids : t.base[i] # t.next[i]}

First(i, S) == i \in S /\ \A j \in S : Rank[i] <= Rank[j]

Init ==
    /\ files = Empty /\ tx = NoTx
    /\ pc = "idle" /\ todo = {} /\ glitch = FALSE

Goto(l, S) == pc' = l /\ todo' = S

-----------------------------------------------------------------------------
(* Admission, and the scan of recover_transactions.                        *)

Claim ==
    /\ pc = "idle"
    /\ Goto("scan", {})
    /\ UNCHANGED <<files, tx, glitch>>

(* Mutant: recovery drops a directory without looking for a manifest.      *)
ScanClean_always ==
    /\ pc = "scan"
    /\ tx' = NoTx
    /\ Goto("apply", {})
    /\ UNCHANGED <<files, glitch>>

ScanClean ==
    /\ pc = "scan" /\ tx.manifest = "none"
    /\ tx' = NoTx
    /\ Goto("apply", {})
    /\ UNCHANGED <<files, glitch>>

ScanDraft ==
    /\ pc = "scan" /\ tx.manifest = "draft"
    /\ Goto("rollback", Entries(tx))
    /\ UNCHANGED <<files, tx, glitch>>

(* Mutant: a committed transaction is rolled back like a draft.            *)
ScanCommitted_rollsBack ==
    /\ pc = "scan" /\ tx.manifest = "committed"
    /\ Goto("rollback", Entries(tx))
    /\ UNCHANGED <<files, tx, glitch>>

ScanCommitted ==
    /\ pc = "scan" /\ tx.manifest = "committed"
    /\ Goto("republish", Entries(tx))
    /\ UNCHANGED <<files, tx, glitch>>

-----------------------------------------------------------------------------
(* publish_entry and one turn of rollback_transaction.                     *)

Removes(i) == tx.next[i].status = "absent"

CanPublish(i) == Removes(i) \/ files[i] = tx.next[i] \/ i \in tx.staged

PublishEntry(i) ==
    /\ CanPublish(i)
    /\ files' = [files EXCEPT ![i] = tx.next[i]]
    /\ tx' = IF Removes(i) \/ files[i] = tx.next[i] THEN tx
             ELSE [tx EXCEPT !.staged = @ \ {i}]

CanRestore(i) == tx.base[i].status = "absent" \/ i \in tx.backups

RestoreEntry(i) ==
    /\ CanRestore(i)
    /\ files' = [files EXCEPT ![i] = tx.base[i]]
    /\ UNCHANGED tx

-----------------------------------------------------------------------------
(* recover_transaction.                                                    *)

Republish ==
    /\ pc = "republish"
    /\ \E i \in todo : First(i, todo) /\ PublishEntry(i) /\ Goto("republish", todo \ {i})
    /\ UNCHANGED glitch

(* A staged file is gone, or the republished graph is not valid.           *)
GiveUpRepublish ==
    /\ pc = "republish"
    /\ IF todo = {} THEN ~ValidGraph(files)
       ELSE \E i \in todo : First(i, todo) /\ ~CanPublish(i)
    /\ Goto("rollback", Entries(tx))
    /\ UNCHANGED <<files, tx, glitch>>

(* An I/O error while publishing or reading the graph back does the same.  *)
FailRepublish ==
    /\ pc = "republish"
    /\ Goto("rollback", Entries(tx))
    /\ glitch' = TRUE
    /\ UNCHANGED <<files, tx>>

FinishRepublish ==
    /\ pc = "republish" /\ todo = {} /\ ValidGraph(files)
    /\ Goto("rUnlink", {})
    /\ UNCHANGED <<files, tx, glitch>>

Rollback ==
    /\ pc = "rollback"
    /\ \E i \in todo : First(i, todo) /\ RestoreEntry(i) /\ Goto("rollback", todo \ {i})
    /\ UNCHANGED glitch

FinishRollback ==
    /\ pc = "rollback" /\ todo = {} /\ ValidGraph(files)
    /\ Goto("rUnlink", {})
    /\ UNCHANGED <<files, tx, glitch>>

-----------------------------------------------------------------------------
(* The operation itself.                                                   *)

(* A read, or a request the operation's guards refuse.                     *)
Answer ==
    /\ pc = "apply"
    /\ Goto("idle", {})
    /\ UNCHANGED <<files, tx, glitch>>

(* put_current: a temporary file, then one atomic replacement.             *)
Put ==
    /\ pc = "apply" /\ ValidGraph(files)
    /\ files' \in Puts(files)
    /\ Goto("idle", {})
    /\ UNCHANGED <<tx, glitch>>

(* commit_replacements; without a replacement it makes no directory.       *)
BeginTransaction ==
    /\ pc = "apply" /\ ValidGraph(files)
    /\ \E h \in Transactions(files) :
           /\ h # files
           /\ tx' = NewTx(files, h)
           /\ Goto("stage", Entries(NewTx(files, h)))
    /\ UNCHANGED <<files, glitch>>

(* Mutant: a record that is only deleted gets no backup.                   *)
Stage_replacedOnly ==
    /\ pc = "stage"
    /\ \E i \in todo :
           /\ First(i, todo)
           /\ tx' = [tx EXCEPT !.backups = IF tx.base[i].status = "absent" \/ Removes(i)
                                           THEN @ ELSE @ \cup {i},
                               !.staged = IF Removes(i) THEN @ ELSE @ \cup {i}]
           /\ Goto("stage", todo \ {i})
    /\ UNCHANGED <<files, glitch>>

Stage ==
    /\ pc = "stage"
    /\ \E i \in todo :
           /\ First(i, todo)
           /\ tx' = [tx EXCEPT !.backups = IF tx.base[i].status = "absent" THEN @ ELSE @ \cup {i},
                               !.staged = IF Removes(i) THEN @ ELSE @ \cup {i}]
           /\ Goto("stage", todo \ {i})
    /\ UNCHANGED <<files, glitch>>

WriteDraft ==
    /\ pc = "stage" /\ todo = {}
    /\ tx' = [tx EXCEPT !.manifest = "draft"]
    /\ Goto("commit", {})
    /\ UNCHANGED <<files, glitch>>

WriteCommitted ==
    /\ pc = "commit"
    /\ tx' = [tx EXCEPT !.manifest = "committed"]
    /\ Goto("publish", Entries(tx))
    /\ UNCHANGED <<files, glitch>>

Publish ==
    /\ pc = "publish"
    /\ \E i \in todo : First(i, todo) /\ PublishEntry(i) /\ Goto("publish", todo \ {i})
    /\ UNCHANGED glitch

(* Mutant: publication ends as soon as the graph is valid.                 *)
FinishPublish_early ==
    /\ pc = "publish" /\ ValidGraph(files)
    /\ Goto("unlink", {})
    /\ UNCHANGED <<files, tx, glitch>>

FinishPublish ==
    /\ pc = "publish" /\ todo = {} /\ ValidGraph(files)
    /\ Goto("unlink", {})
    /\ UNCHANGED <<files, tx, glitch>>

(* The published graph is not valid, or cannot be read back.               *)
RefusePublish ==
    /\ pc = "publish" /\ todo = {}
    /\ glitch' = (glitch \/ ValidGraph(files))
    /\ Goto("undo", Entries(tx))
    /\ UNCHANGED <<files, tx>>

Undo ==
    /\ pc = "undo"
    /\ \E i \in todo : First(i, todo) /\ RestoreEntry(i) /\ Goto("undo", todo \ {i})
    /\ UNCHANGED glitch

(* The caller gets the error; the committed manifest stays.                *)
FinishUndo ==
    /\ pc = "undo" /\ todo = {}
    /\ Goto("idle", {})
    /\ UNCHANGED <<files, tx, glitch>>

-----------------------------------------------------------------------------
(* finish_transaction_cleanup, and the same lines of commit_replacements.  *)

Unlink ==
    /\ pc \in {"unlink", "rUnlink"}
    /\ tx' = [tx EXCEPT !.manifest = "none"]
    /\ glitch' = FALSE
    /\ Goto(IF pc = "unlink" THEN "sweep" ELSE "rSweep", {})
    /\ UNCHANGED files

(* Only here does commit_replacements answer Ok.                           *)
Sweep ==
    /\ pc \in {"sweep", "rSweep"}
    /\ tx' = NoTx
    /\ Goto(IF pc = "sweep" THEN "idle" ELSE "apply", {})
    /\ UNCHANGED <<files, glitch>>

-----------------------------------------------------------------------------
(* The operation ends between two steps.                                   *)
Fail ==
    /\ pc # "idle"
    /\ Goto("idle", {})
    /\ UNCHANGED <<files, tx, glitch>>

Next ==
    \/ Claim \/ ScanClean \/ ScanDraft \/ ScanCommitted
    \/ Republish \/ GiveUpRepublish \/ FailRepublish \/ FinishRepublish
    \/ Rollback \/ FinishRollback
    \/ Answer \/ Put \/ BeginTransaction
    \/ Stage \/ WriteDraft \/ WriteCommitted
    \/ Publish \/ FinishPublish \/ RefusePublish \/ Undo \/ FinishUndo
    \/ Unlink \/ Sweep \/ Fail

Spec == Init /\ [][Next]_vars

-----------------------------------------------------------------------------
(* The records, the directory and the program counter keep their types.    *)
TypeOK ==
    /\ files \in Graphs /\ tx \in Directories
    /\ pc \in Pcs /\ todo \in SUBSET Ids /\ glitch \in BOOLEAN

(* What the next reader will be given if recovery goes back: an operation  *)
(* takes effect when its manifest is removed.                              *)
Logical == IF tx.manifest = "none" THEN files ELSE tx.base

Contract == INSTANCE RecommendationContract WITH graph <- Logical

(* Wherever an operation ends and however often recovery is interrupted,   *)
(* callers see one complete graph after another (commit_replacements,      *)
(* recover_transaction).                                                   *)
ImplementsContract == Contract!Spec

(* Outside a transaction the files form a valid graph, although put never  *)
(* validates the graph it writes and deletion validates none in advance.   *)
GraphStaysValid == tx.manifest = "none" => ValidGraph(files)

(* Recovery is never left with neither an old nor a new graph: a backup is *)
(* there whenever it is needed, and what rollback leaves is valid.         *)
RecoveryNeverRefused ==
    pc \in {"undo", "rollback"} =>
        /\ \A i \in todo : CanRestore(i)
        /\ todo = {} => ValidGraph(files)

(* Ok is answered only when every replacement is in place.                 *)
AcknowledgedIsApplied == pc = "sweep" => files = tx.next

(* An accepted or executing rollup parent still owns its members, so one   *)
(* record cannot make orphan recovery refuse the whole batch.              *)
OrphansCanReturn ==
    tx.manifest = "none" =>
        \A h \in RecoverOrphanedExecutions(files) : ValidGraph(h)

(* Unless an I/O error strikes its publication, a committed transaction    *)
(* ends with the new graph, however often it is interrupted.               *)
CommittedCompletes ==
    [][tx.manifest = "committed" /\ tx'.manifest # "committed" /\ ~glitch
          => files' = tx.next]_vars
=============================================================================

------------------------- MODULE RecommendationGraph ------------------------
(***************************************************************************)
(* The recommendation graph of one workspace and what each operation of    *)
(* the store turns it into (taskmaster/store.rs and its callers in         *)
(* session_application.rs, which run under the workspace lock).            *)
(*                                                                         *)
(* A graph maps every id to a record.  A rollup parent's id is a digest of *)
(* its member ids (stable_rollup_id), so Members is a constant; a record   *)
(* keeps its status and, for a rolled-up family, its current parent.       *)
(* Titles, evidence and packets are abstracted: an update of those alone   *)
(* leaves the record as it is here.                                        *)
(***************************************************************************)
EXTENDS Naturals, FiniteSets

CONSTANTS
    Families,   \* ids of exact recommendation families
    Parents,    \* ids of rollup parents
    Cards,      \* ids of cleanup cards
    Members,    \* [Parents -> sets of two or more families]
    None        \* no parent

ASSUME GraphAssumption ==
    /\ Families \cap Parents = {} /\ Families \cap Cards = {} /\ Parents \cap Cards = {}
    /\ Members \in [Parents -> SUBSET Families]
    /\ None \notin Parents

Ids == Families \cup Parents \cup Cards
Improvements == Families \cup Parents

(* RecommendationStatus, with "absent" for no file.                        *)
Statuses ==
    {"absent", "proposed", "executing", "accepted", "completed", "dismissed",
     "superseded", "rolledUp"}
Terminal == {"accepted", "completed", "dismissed", "superseded"}

Records == [status: Statuses, by: Parents \cup {None}]
Graphs == [Ids -> Records]
Bare(s) == [status |-> s, by |-> None]
Empty == [i \in Ids |-> Bare("absent")]

With(g, s) == {i \in Ids : g[i].status \in s}
Present(g) == {i \in Ids : g[i].status # "absent"}
MembersOf(i) == IF i \in Parents THEN Members[i] ELSE {}

(* The graph with every id of S given status s. *)
Set(g, S, s) == [i \in Ids |-> IF i \in S THEN Bare(s) ELSE g[i]]

-----------------------------------------------------------------------------
(* validate_graph_records: members exist, an active parent owns them, and  *)
(* a rolled-up member points at a parent that lists it.                    *)
Owns(g, p) == \A f \in Members[p] : g[f] = [status |-> "rolledUp", by |-> p]

ValidGraph(g) ==
    /\ \A p \in Parents \cap Present(g) : Members[p] \subseteq Present(g)
    /\ \A i \in Ids : g[i].status = "rolledUp" <=> g[i].by # None
    /\ \A p \in Parents : g[p].status \in {"proposed", "executing"} => Owns(g, p)
    /\ \A i \in Ids : g[i].status = "rolledUp" =>
           g[i].by \in Present(g) /\ i \in MembersOf(g[i].by)

-----------------------------------------------------------------------------
(* Operations that write one record with put.                              *)

Dismiss(g) == {Set(g, {i}, "dismissed") : i \in With(g, {"proposed", "executing"})}

BeginExecution(g) ==
    {Set(g, {i}, "executing") : i \in Improvements \cap With(g, {"proposed"})}

CompleteExecution(g) ==
    {Set(g, {i}, "accepted") : i \in Improvements \cap With(g, {"executing"})}

CompleteAccepted(g) ==
    {Set(g, {i}, "completed") : i \in Improvements \cap With(g, {"accepted"})}

CancelExecution(g) ==
    {Set(g, {i}, "proposed") : i \in Improvements \cap With(g, {"executing"})}

(* Mutant: a rolled-up family is fenced like a proposed one.               *)
FenceRecommendation_rolledUp(g) ==
    {Set(g, {i}, "superseded") : i \in Families \cap With(g, {"proposed", "rolledUp"})}

(* An assessment recommendation whose evidence went stale or was redacted. *)
FenceRecommendation(g) ==
    {Set(g, {i}, "superseded") : i \in Families \cap With(g, {"proposed"})}

Puts(g) ==
    Dismiss(g) \cup BeginExecution(g) \cup CompleteExecution(g)
        \cup CompleteAccepted(g) \cup CancelExecution(g) \cup FenceRecommendation(g)

-----------------------------------------------------------------------------
(* Operations that replace a whole graph in one transaction.               *)

(* New evidence creates families that have no record yet.                  *)
RefreshWorkflowRecommendations(g) ==
    {Set(g, S, "proposed") : S \in SUBSET (Families \ Present(g)) \ {{}}}

(* The audit proposes a cleanup card, or retires the one that is proposed. *)
RunRecommendationAudit(g) ==
    IF Cards \cap With(g, {"proposed"}) = {}
    THEN {Set(g, {c}, "proposed") : c \in Cards \ Present(g)}
    ELSE {Set(g, {c}, "superseded") : c \in Cards \cap With(g, {"proposed"})}

(* Accepting a card dismisses the audited records that are still proposed. *)
AcceptCleanup(g) ==
    UNION {{Set(Set(g, S, "dismissed"), {c}, "completed") :
                S \in SUBSET (Improvements \cap With(g, {"proposed"}))} :
            c \in Cards \cap With(g, {"proposed"})}

(* Families a clustering request may name: proposed ones without a parent, *)
(* and members of a proposed parent (rollup_inputs_match_locked).          *)
Clusterable(g) ==
    {f \in Families : \/ g[f].status = "proposed"
                      \/ g[f].status = "rolledUp" /\ g[g[f].by].status = "proposed"}

(* The proposed parents of the supplied families.                          *)
SuppliedParents(g, supplied) ==
    {p \in Parents : \E f \in supplied : g[f].status = "rolledUp" /\ g[f].by = p}

(* A clustering result for the supplied families keeps or creates the      *)
(* chosen parents, supersedes the other supplied ones and releases their   *)
(* unassigned members.                                                     *)
ClusterResult(g, supplied, chosen) ==
    LET assigned == UNION {Members[p] : p \in chosen}
        dropped == SuppliedParents(g, supplied) \ chosen
        parentOf(f) == CHOOSE p \in chosen : f \in Members[p]
    IN  [i \in Ids |->
            IF i \in chosen THEN Bare(IF g[i].status = "executing" THEN "executing" ELSE "proposed")
            ELSE IF i \in dropped THEN Bare("superseded")
            ELSE IF i \in assigned THEN [status |-> "rolledUp", by |-> parentOf(i)]
            ELSE IF g[i].status = "rolledUp" /\ g[i].by \in dropped THEN Bare("proposed")
            ELSE g[i]]

(* The guards of apply_rollup_clusters_locked.                             *)
ClusterAllowed(g, supplied, chosen) ==
    /\ \A p \in chosen : Members[p] \subseteq supplied
    /\ \A p, q \in chosen : p # q => Members[p] \cap Members[q] = {}
    /\ \A p \in chosen : g[p].status \in {"absent", "proposed", "executing"}
    /\ \A p \in chosen :
           Cardinality({q \in Parents \ {p} : g[q].status = "proposed"
                                               /\ Members[q] \cap Members[p] # {}}) <= 1
    /\ \A p \in SuppliedParents(g, supplied) \ chosen :
           g[p].status = "proposed" /\ Members[p] \subseteq supplied

ApplyRollupClusters(g) ==
    {ClusterResult(g, c[1], c[2]) :
        c \in {d \in (SUBSET Clusterable(g)) \X (SUBSET Parents) :
                    ClusterAllowed(g, d[1], d[2])}}

(* A new packet revision withdraws the approval it replaces.               *)
ReplaceCompletionPacket(g) ==
    {Set(g, {i}, "proposed") : i \in Improvements \cap With(g, {"executing", "accepted"})}

(* Every reservation whose target session is gone is proposed again.       *)
RecoverOrphanedExecutions(g) ==
    {Set(g, S, "proposed") :
        S \in SUBSET (Improvements \cap With(g, {"executing", "accepted"})) \ {{}}}

(* deletion_graph_ids: with a record go its parent, its members and every  *)
(* parent that lists it.  A set that grows this way from S is S with some  *)
(* parents and all their members, and the loop stops at the least of them. *)
Closed(g, C) ==
    /\ \A i \in C : g[i].by # None => g[i].by \in C
    /\ \A p \in Parents \cap Present(g) : p \in C => Members[p] \subseteq C
    /\ \A p \in Parents \cap Present(g) : Members[p] \cap C # {} => p \in C

Reach(S, Q) == S \cup Q \cup UNION {Members[p] : p \in Q}

DeletionGraphIds(g, S) ==
    {i \in Present(g) : \A Q \in SUBSET (Parents \cap Present(g)) :
                            Closed(g, Reach(S, Q)) => i \in Reach(S, Q)}

(* Mutant: a deleted record is marked instead of removed.                  *)
DeleteRecords_marked(g) ==
    {Set(g, DeletionGraphIds(g, S), "deleted") : S \in SUBSET Present(g) \ {{}}}

DeleteRecords(g) ==
    {Set(g, DeletionGraphIds(g, S), "absent") : S \in SUBSET Present(g) \ {{}}}

(* apply_recommendation_graph_transaction refuses a graph that changes a   *)
(* terminal record.                                                        *)
KeepsTerminal(g, h) == \A i \in With(g, Terminal) : h[i] = g[i]

(* A graph, a packet and an orphan update are validated before they are    *)
(* published; a deletion is not.                                           *)
Transactions(g) ==
    {h \in RefreshWorkflowRecommendations(g) \cup RunRecommendationAudit(g)
               \cup AcceptCleanup(g) \cup ApplyRollupClusters(g) :
        ValidGraph(h) /\ KeepsTerminal(g, h)}
    \cup {h \in ReplaceCompletionPacket(g) \cup RecoverOrphanedExecutions(g) : ValidGraph(h)}
    \cup DeleteRecords(g)
=============================================================================

---------------------- MODULE RecommendationStoreProofs ---------------------
(***************************************************************************)
(* Proofs about RecommendationStore for any families, rollup parents and   *)
(* cleanup cards: every operation keeps the recommendation graph sound,    *)
(* and wherever operations and recoveries end, callers see one complete,   *)
(* valid graph after another.                                              *)
(***************************************************************************)
EXTENDS RecommendationStore, TLAPS

Open == {"proposed", "executing", "accepted"}

(* A valid graph in which an accepted parent owns its members too: it may  *)
(* be proposed again.                                                      *)
Sound(g) ==
    /\ ValidGraph(g)
    /\ \A p \in Parents : g[p].status \in Open => Owns(g, p)

LEMMA SetIs ==
    ASSUME NEW g \in Graphs, NEW S, NEW s \in Statuses
    PROVE  /\ Set(g, S, s) \in Graphs
           /\ \A i \in Ids : Set(g, S, s)[i] = IF i \in S THEN Bare(s) ELSE g[i]
<1>1. Bare(s) \in Records /\ Bare(s).status = s /\ Bare(s).by = None
  BY DEF Bare, Records
<1>2. QED
  BY <1>1 DEF Set, Graphs

LEMMA ParentsAreIds == Parents \subseteq Ids /\ Families \subseteq Ids /\ Cards \subseteq Ids
BY DEF Ids

LEMMA MembersAreFamilies == \A p \in Parents : Members[p] \subseteq Families
BY GraphAssumption

(* A status that neither creates, removes nor rolls up a record.           *)
LEMMA RestatusSound ==
    ASSUME NEW g \in Graphs, Sound(g),
           NEW S \in SUBSET Ids, NEW s \in Statuses \ {"absent", "rolledUp"},
           \A i \in S : g[i].status \notin {"absent", "rolledUp"},
           \A p \in S \cap Parents : g[p].status \in Open
    PROVE  Set(g, S, s) \in Graphs /\ Sound(Set(g, S, s))
<1> DEFINE h == Set(g, S, s)
<1>1. h \in Graphs /\ \A i \in Ids : h[i] = IF i \in S THEN Bare(s) ELSE g[i]
  BY SetIs
<1>2. Bare(s).status = s /\ Bare(s).by = None
  BY DEF Bare
<1> HIDE DEF h
<1>3. Present(h) = Present(g)
  BY <1>1, <1>2 DEF Present
<1>4. \A i \in Ids : g[i].status = "rolledUp" => h[i] = g[i]
  BY <1>1
<1>5. \A i \in Ids : h[i].status = "rolledUp" => g[i].status = "rolledUp"
  BY <1>1, <1>2
<1>6. \A p \in Parents : Owns(g, p) => Owns(h, p)
  BY <1>4, MembersAreFamilies, ParentsAreIds DEF Owns
<1>7. \A p \in Parents : h[p].status \in Open => Owns(h, p)
  BY <1>1, <1>6, ParentsAreIds DEF Sound
<1>8. ValidGraph(h)
  <2>1. \A p \in Parents \cap Present(h) : Members[p] \subseteq Present(h)
    BY <1>3 DEF Sound, ValidGraph
  <2>2. \A i \in Ids : h[i].status = "rolledUp" <=> h[i].by # None
    BY <1>1, <1>2 DEF Sound, ValidGraph
  <2>3. \A p \in Parents : h[p].status \in {"proposed", "executing"} => Owns(h, p)
    BY <1>7 DEF Open
  <2>4. \A i \in Ids : h[i].status = "rolledUp" =>
            h[i].by \in Present(h) /\ i \in MembersOf(h[i].by)
    BY <1>3, <1>4, <1>5 DEF Sound, ValidGraph
  <2>5. QED
    BY <2>1, <2>2, <2>3, <2>4 DEF ValidGraph
<1>9. QED
  BY <1>1, <1>7, <1>8 DEF Sound, h

(* New families and cards join no rollup.                                  *)
LEMMA CreateSound ==
    ASSUME NEW g \in Graphs, Sound(g),
           NEW S \in SUBSET (Families \cup Cards),
           \A i \in S : g[i].status = "absent"
    PROVE  Set(g, S, "proposed") \in Graphs /\ Sound(Set(g, S, "proposed"))
<1> DEFINE h == Set(g, S, "proposed")
<1>1. h \in Graphs /\ \A i \in Ids : h[i] = IF i \in S THEN Bare("proposed") ELSE g[i]
  BY SetIs DEF Statuses
<1>2. Bare("proposed").status = "proposed" /\ Bare("proposed").by = None
  BY DEF Bare
<1> HIDE DEF h
<1>3. \A p \in Parents : h[p] = g[p]
  BY <1>1, GraphAssumption, ParentsAreIds
<1>4. Present(g) \subseteq Present(h)
  BY <1>1, <1>2 DEF Present
<1>5. \A i \in Ids : g[i].status = "rolledUp" => h[i] = g[i]
  BY <1>1
<1>6. \A i \in Ids : h[i].status = "rolledUp" => g[i].status = "rolledUp"
  BY <1>1, <1>2
<1>7. \A p \in Parents : Owns(g, p) => Owns(h, p)
  BY <1>5, MembersAreFamilies, ParentsAreIds DEF Owns
<1>8. \A p \in Parents : h[p].status \in Open => Owns(h, p)
  BY <1>3, <1>7 DEF Sound
<1>9. ValidGraph(h)
  <2>1. \A p \in Parents \cap Present(h) : Members[p] \subseteq Present(h)
    BY <1>3, <1>4 DEF Sound, ValidGraph, Present
  <2>2. \A i \in Ids : h[i].status = "rolledUp" <=> h[i].by # None
    BY <1>1, <1>2 DEF Sound, ValidGraph
  <2>3. \A p \in Parents : h[p].status \in {"proposed", "executing"} => Owns(h, p)
    BY <1>8 DEF Open
  <2>4. \A i \in Ids : h[i].status = "rolledUp" =>
            h[i].by \in Present(h) /\ i \in MembersOf(h[i].by)
    BY <1>4, <1>5, <1>6 DEF Sound, ValidGraph
  <2>5. QED
    BY <2>1, <2>2, <2>3, <2>4 DEF ValidGraph
<1>10. QED
  BY <1>1, <1>8, <1>9 DEF Sound, h

(* Only the members of a proposed parent can be given to another one, so   *)
(* an accepted parent keeps its members through a clustering.              *)
LEMMA ClusterSound ==
    ASSUME NEW g \in Graphs, Sound(g),
           NEW h \in ApplyRollupClusters(g), ValidGraph(h)
    PROVE  h \in Graphs /\ Sound(h)
<1>1. PICK supplied \in SUBSET Clusterable(g), chosen \in SUBSET Parents :
          ClusterAllowed(g, supplied, chosen) /\ h = ClusterResult(g, supplied, chosen)
  BY DEF ApplyRollupClusters
<1> DEFINE assigned == UNION {Members[p] : p \in chosen}
           dropped == SuppliedParents(g, supplied) \ chosen
           parentOf(f) == CHOOSE p \in chosen : f \in Members[p]
           new(i) == IF i \in chosen
                     THEN Bare(IF g[i].status = "executing" THEN "executing" ELSE "proposed")
                     ELSE IF i \in dropped THEN Bare("superseded")
                     ELSE IF i \in assigned THEN [status |-> "rolledUp", by |-> parentOf(i)]
                     ELSE IF g[i].status = "rolledUp" /\ g[i].by \in dropped
                     THEN Bare("proposed")
                     ELSE g[i]
<1>2. h = [i \in Ids |-> new(i)]
  BY <1>1 DEF ClusterResult
<1>3. \A i \in assigned : parentOf(i) \in Parents
  BY <1>1
<1>4. \A i \in assigned : [status |-> "rolledUp", by |-> parentOf(i)] \in Records
  BY <1>3 DEF Records, Statuses
<1>5. \A s \in Statuses : Bare(s) \in Records /\ Bare(s).status = s
  BY DEF Bare, Records
<1>6. {"executing", "proposed", "superseded"} \subseteq Statuses
  BY DEF Statuses
<1>7. \A i \in Ids : g[i] \in Records
  BY DEF Graphs
<1> HIDE DEF assigned, dropped, parentOf
<1>8. \A i \in Ids : new(i) \in Records
  BY <1>4, <1>5, <1>6, <1>7
<1>9. h \in Graphs
  BY <1>2, <1>8 DEF Graphs
<1>10. ASSUME NEW p \in Parents, h[p].status = "accepted" PROVE Owns(h, p)
  <2>1. h[p] = new(p) /\ p \notin Families
    BY <1>2, ParentsAreIds, GraphAssumption
  <2>2. p \notin chosen
    BY <1>5, <1>6, <1>10, <2>1
  <2>3. p \notin dropped
    BY <1>5, <1>6, <1>10, <2>1, <2>2
  <2>4. p \notin assigned
    BY <2>1, MembersAreFamilies, <1>1 DEF assigned
  <2>5. g[p].status = "accepted"
    BY <1>5, <1>6, <1>10, <2>1, <2>2, <2>3, <2>4
  <2>6. Owns(g, p)
    BY <2>5 DEF Sound, Open
  <2>7. ASSUME NEW f \in Members[p] PROVE h[f] = [status |-> "rolledUp", by |-> p]
    <3>1. f \in Families /\ f \in Ids /\ g[f] = [status |-> "rolledUp", by |-> p]
      BY <2>6, MembersAreFamilies, ParentsAreIds DEF Owns
    <3>2. f \notin Clusterable(g)
      BY <2>5, <3>1 DEF Clusterable
    <3>3. f \notin assigned
      BY <1>1, <3>2 DEF assigned, ClusterAllowed
    <3>4. f \notin Parents /\ f \notin chosen /\ f \notin dropped
      BY <1>1, <3>1, GraphAssumption DEF dropped, SuppliedParents
    <3>5. h[f] = g[f]
      BY <1>2, <2>3, <3>1, <3>3, <3>4
    <3>6. QED
      BY <3>1, <3>5
  <2>8. QED
    BY <2>7 DEF Owns
<1>11. \A p \in Parents : h[p].status \in Open => Owns(h, p)
  BY <1>10 DEF ValidGraph, Open
<1>12. QED
  BY <1>9, <1>11 DEF Sound

(* What a deletion removes is closed under parents and members.            *)
LEMMA DeletionIsClosed ==
    ASSUME NEW g \in Graphs, Sound(g), NEW S \in SUBSET Present(g)
    PROVE  Closed(g, DeletionGraphIds(g, S))
<1> DEFINE D == DeletionGraphIds(g, S)
           Qs == {Q \in SUBSET (Parents \cap Present(g)) : Closed(g, Reach(S, Q))}
<1>1. D \subseteq Present(g) /\ Present(g) \subseteq Ids
  BY DEF DeletionGraphIds, Present
<1>2. \A i \in Present(g) : i \in D <=> \A Q \in Qs : i \in Reach(S, Q)
  BY DEF DeletionGraphIds
<1>3. \A Q \in Qs : Closed(g, Reach(S, Q))
  OBVIOUS
<1> HIDE DEF D, Qs
<1>4. ASSUME NEW i \in D, g[i].by # None PROVE g[i].by \in D
  <2>1. g[i].by \in Present(g)
    BY <1>1, <1>4 DEF Sound, ValidGraph
  <2>2. \A Q \in Qs : g[i].by \in Reach(S, Q)
    BY <1>1, <1>2, <1>3, <1>4 DEF Closed
  <2>3. QED
    BY <1>2, <2>1, <2>2
<1>5. ASSUME NEW p \in Parents \cap Present(g), p \in D PROVE Members[p] \subseteq D
  <2>1. Members[p] \subseteq Present(g)
    BY DEF Sound, ValidGraph
  <2>2. \A Q \in Qs : Members[p] \subseteq Reach(S, Q)
    BY <1>2, <1>3, <1>5 DEF Closed
  <2>3. QED
    BY <1>2, <2>1, <2>2
<1>6. ASSUME NEW p \in Parents \cap Present(g), Members[p] \cap D # {} PROVE p \in D
  <2>1. PICK f \in Members[p] : f \in D
    BY <1>6
  <2>2. \A Q \in Qs : f \in Reach(S, Q)
    BY <1>1, <1>2, <2>1
  <2>3. \A Q \in Qs : p \in Reach(S, Q)
    BY <1>3, <2>1, <2>2 DEF Closed
  <2>4. QED
    BY <1>2, <2>3
<1>7. QED
  BY <1>4, <1>5, <1>6 DEF Closed, D

LEMMA DeleteSound ==
    ASSUME NEW g \in Graphs, Sound(g), NEW h \in DeleteRecords(g)
    PROVE  h \in Graphs /\ Sound(h)
<1>1. PICK S \in SUBSET Present(g) : h = Set(g, DeletionGraphIds(g, S), "absent")
  BY DEF DeleteRecords
<1> DEFINE D == DeletionGraphIds(g, S)
<1>2. Closed(g, D)
  BY DeletionIsClosed
<1> HIDE DEF D
<1>3. h \in Graphs /\ \A i \in Ids : h[i] = IF i \in D THEN Bare("absent") ELSE g[i]
  BY <1>1, SetIs DEF Statuses, D
<1>4. Bare("absent").status = "absent" /\ Bare("absent").by = None
  BY DEF Bare
<1>5. \A i \in Ids : i \in Present(h) <=> i \in Present(g) /\ i \notin D
  BY <1>3, <1>4 DEF Present
<1>6. \A p \in Parents \cap Present(h) : \A f \in Members[p] : f \notin D /\ h[f] = g[f]
  <2>1. ASSUME NEW p \in Parents \cap Present(h), NEW f \in Members[p]
        PROVE  f \notin D /\ h[f] = g[f]
    <3>1. p \in Ids /\ f \in Ids
      BY MembersAreFamilies, ParentsAreIds
    <3>2. f \notin D
      BY <1>2, <1>5, <3>1 DEF Closed
    <3>3. QED
      BY <1>3, <3>1, <3>2
  <2>2. QED
    BY <2>1
<1>7. \A p \in Parents : h[p].status \in Open => p \in Present(h) /\ h[p] = g[p]
  BY <1>3, <1>4, ParentsAreIds DEF Open, Present
<1>8. \A p \in Parents : h[p].status \in Open => Owns(h, p)
  BY <1>6, <1>7 DEF Sound, Owns
<1>9. ValidGraph(h)
  <2>1. \A p \in Parents \cap Present(h) : Members[p] \subseteq Present(h)
    <3>1. ASSUME NEW p \in Parents \cap Present(h), NEW f \in Members[p] PROVE f \in Present(h)
      <4>1. p \in Present(g) /\ f \in Ids
        BY <1>5, MembersAreFamilies, ParentsAreIds
      <4>2. f \in Present(g)
        BY <4>1 DEF Sound, ValidGraph
      <4>3. QED
        BY <1>5, <1>6, <4>1, <4>2
    <3>2. QED
      BY <3>1
  <2>2. \A i \in Ids : h[i].status = "rolledUp" <=> h[i].by # None
    BY <1>3, <1>4 DEF Sound, ValidGraph
  <2>3. \A p \in Parents : h[p].status \in {"proposed", "executing"} => Owns(h, p)
    BY <1>8 DEF Open
  <2>4. ASSUME NEW i \in Ids, h[i].status = "rolledUp"
        PROVE  h[i].by \in Present(h) /\ i \in MembersOf(h[i].by)
    <3>1. i \notin D /\ h[i] = g[i]
      BY <1>3, <1>4, <2>4
    <3>2. g[i].by \in Present(g) /\ i \in MembersOf(g[i].by)
      BY <2>4, <3>1 DEF Sound, ValidGraph
    <3>3. g[i].by \in Parents /\ i \in Members[g[i].by]
      BY <3>2 DEF MembersOf
    <3>4. g[i].by \notin D
      BY <1>2, <3>1, <3>2, <3>3 DEF Closed
    <3>5. QED
      BY <1>5, <3>1, <3>2, <3>4 DEF Present
  <2>5. QED
    BY <2>1, <2>2, <2>3, <2>4 DEF ValidGraph
<1>10. QED
  BY <1>3, <1>8, <1>9 DEF Sound

(* A put of one record never breaks the graph, although put_current does   *)
(* not validate it.                                                        *)
THEOREM PutsSound ==
    ASSUME NEW g \in Graphs, Sound(g), NEW h \in Puts(g)
    PROVE  h \in Graphs /\ Sound(h)
<1> DEFINE New == {"dismissed", "executing", "accepted", "completed", "proposed", "superseded"}
           Old == {"proposed", "executing", "accepted"}
<1>1. \E i \in Ids, s \in New :
          /\ h = Set(g, {i}, s)
          /\ g[i].status \in Old
  <2>1. CASE h \in Dismiss(g)
    BY <2>1 DEF Dismiss, With
  <2>2. CASE h \in BeginExecution(g)
    BY <2>2 DEF BeginExecution, With
  <2>3. CASE h \in CompleteExecution(g)
    BY <2>3 DEF CompleteExecution, With
  <2>4. CASE h \in CompleteAccepted(g)
    BY <2>4 DEF CompleteAccepted, With
  <2>5. CASE h \in CancelExecution(g)
    BY <2>5 DEF CancelExecution, With
  <2>6. CASE h \in FenceRecommendation(g)
    BY <2>6 DEF FenceRecommendation, With
  <2>7. QED
    BY <2>1, <2>2, <2>3, <2>4, <2>5, <2>6 DEF Puts
<1>2. PICK i \in Ids, s \in New : h = Set(g, {i}, s) /\ g[i].status \in Old
  BY <1>1
<1>3. s \in Statuses \ {"absent", "rolledUp"} /\ {i} \in SUBSET Ids
  BY DEF Statuses
<1>4. \A j \in {i} : g[j].status \notin {"absent", "rolledUp"} /\ g[j].status \in Open
  BY <1>2 DEF Open
<1>5. QED
  BY <1>2, <1>3, <1>4, RestatusSound

(* Proposing reservations again never breaks the graph: recovery of        *)
(* orphaned executions and packet replacement are never refused.           *)
THEOREM ReopenSound ==
    ASSUME NEW g \in Graphs, Sound(g),
           NEW h \in ReplaceCompletionPacket(g) \cup RecoverOrphanedExecutions(g)
    PROVE  h \in Graphs /\ Sound(h)
<1>1. \E S \in SUBSET Ids :
          /\ h = Set(g, S, "proposed")
          /\ \A i \in S : g[i].status \in {"executing", "accepted"}
  <2>1. CASE h \in ReplaceCompletionPacket(g)
    <3>1. PICK i \in Improvements \cap With(g, {"executing", "accepted"}) :
              h = Set(g, {i}, "proposed")
      BY <2>1 DEF ReplaceCompletionPacket
    <3>2. {i} \in SUBSET Ids /\ \A j \in {i} : g[j].status \in {"executing", "accepted"}
      BY DEF With
    <3>3. QED
      BY <3>1, <3>2
  <2>2. CASE h \in RecoverOrphanedExecutions(g)
    BY <2>2 DEF RecoverOrphanedExecutions, With
  <2>3. QED
    BY <2>1, <2>2
<1>2. PICK S \in SUBSET Ids :
          /\ h = Set(g, S, "proposed")
          /\ \A i \in S : g[i].status \in {"executing", "accepted"}
  BY <1>1
<1>3. "proposed" \in Statuses \ {"absent", "rolledUp"}
  BY DEF Statuses
<1>4. \A i \in S : g[i].status \notin {"absent", "rolledUp"} /\ g[i].status \in Open
  BY <1>2 DEF Open
<1>5. QED
  BY <1>2, <1>3, <1>4, RestatusSound

LEMMA AcceptCleanupSound ==
    ASSUME NEW g \in Graphs, Sound(g), NEW h \in AcceptCleanup(g)
    PROVE  h \in Graphs /\ Sound(h)
<1>1. PICK S \in SUBSET (Improvements \cap With(g, {"proposed"})),
           c \in Cards \cap With(g, {"proposed"}) :
          h = Set(Set(g, S, "dismissed"), {c}, "completed")
  BY DEF AcceptCleanup
<1> DEFINE m == Set(g, S, "dismissed")
<1>2. /\ S \in SUBSET Ids /\ \A i \in S : g[i].status = "proposed"
      /\ c \in Ids /\ g[c].status = "proposed" /\ c \notin Parents /\ c \notin S
  BY <1>1, GraphAssumption, ParentsAreIds DEF With, Improvements
<1>3. {"dismissed", "completed"} \subseteq Statuses \ {"absent", "rolledUp"}
  BY DEF Statuses
<1>4. \A i \in S : g[i].status \notin {"absent", "rolledUp"} /\ g[i].status \in Open
  BY <1>2 DEF Open
<1>5. m \in Graphs /\ Sound(m)
  BY <1>2, <1>3, <1>4, RestatusSound
<1>6. m[c] = g[c]
  BY <1>2, <1>3, SetIs
<1> HIDE DEF m
<1>7. {c} \in SUBSET Ids /\ \A i \in {c} : m[i].status \notin {"absent", "rolledUp"}
  BY <1>2, <1>6
<1>8. \A p \in {c} \cap Parents : m[p].status \in Open
  BY <1>2
<1>9. Set(m, {c}, "completed") \in Graphs /\ Sound(Set(m, {c}, "completed"))
  BY <1>3, <1>5, <1>7, <1>8, RestatusSound
<1>10. QED
  BY <1>1, <1>9 DEF m

LEMMA AuditSound ==
    ASSUME NEW g \in Graphs, Sound(g), NEW h \in RunRecommendationAudit(g)
    PROVE  h \in Graphs /\ Sound(h)
<1>1. CASE Cards \cap With(g, {"proposed"}) = {}
  <2>1. PICK c \in Cards \ Present(g) : h = Set(g, {c}, "proposed")
    BY <1>1 DEF RunRecommendationAudit
  <2>2. {c} \in SUBSET (Families \cup Cards) /\ \A i \in {c} : g[i].status = "absent"
    BY ParentsAreIds DEF Present
  <2>3. QED
    BY <2>1, <2>2, CreateSound
<1>2. CASE Cards \cap With(g, {"proposed"}) # {}
  <2>1. PICK c \in Cards \cap With(g, {"proposed"}) : h = Set(g, {c}, "superseded")
    BY <1>2 DEF RunRecommendationAudit
  <2>2. /\ {c} \in SUBSET Ids /\ "superseded" \in Statuses \ {"absent", "rolledUp"}
        /\ \A i \in {c} : g[i].status \notin {"absent", "rolledUp"}
        /\ \A i \in {c} \cap Parents : g[i].status \in Open
    BY ParentsAreIds DEF With, Statuses, Open
  <2>3. QED
    BY <2>1, <2>2, RestatusSound
<1>3. QED
  BY <1>1, <1>2

(* A transaction, a deletion included, publishes a sound graph: the check  *)
(* commit_replacements makes after publication only fails on an I/O error. *)
THEOREM TransactionsSound ==
    ASSUME NEW g \in Graphs, Sound(g), NEW h \in Transactions(g)
    PROVE  h \in Graphs /\ Sound(h)
<1>1. CASE h \in RefreshWorkflowRecommendations(g)
  <2>1. PICK S \in SUBSET (Families \ Present(g)) : h = Set(g, S, "proposed")
    BY <1>1 DEF RefreshWorkflowRecommendations
  <2>2. S \in SUBSET (Families \cup Cards) /\ \A i \in S : g[i].status = "absent"
    BY ParentsAreIds DEF Present
  <2>3. QED
    BY <2>1, <2>2, CreateSound
<1>2. CASE h \in RunRecommendationAudit(g)
  BY <1>2, AuditSound
<1>3. CASE h \in AcceptCleanup(g)
  BY <1>3, AcceptCleanupSound
<1>4. CASE h \in ApplyRollupClusters(g) /\ ValidGraph(h)
  BY <1>4, ClusterSound
<1>5. CASE h \in ReplaceCompletionPacket(g) \cup RecoverOrphanedExecutions(g)
  BY <1>5, ReopenSound
<1>6. CASE h \in DeleteRecords(g)
  BY <1>6, DeleteSound
<1>7. QED
  BY <1>1, <1>2, <1>3, <1>4, <1>5, <1>6 DEF Transactions

-----------------------------------------------------------------------------
(* The inductive invariant.  A journal names a sound graph and a legal     *)
(* successor of it, with a backup of whatever it replaces, and the files   *)
(* are a mixture of the two.                                               *)
Sourced == Sound(tx.base) /\ Sound(tx.next) /\ tx.next \in Transactions(tx.base)

Backed(S) == \A i \in S : CanRestore(i)
Forward(S) == \A i \in S : CanPublish(i)
New(S) == \A i \in S : files[i] = tx.next[i]
Old(S) == \A i \in S : files[i] = tx.base[i]

Journal ==
    /\ tx.manifest = "none" => Sound(files)
    /\ tx.manifest # "none" => /\ Sourced /\ Backed(Entries(tx))
                               /\ \A i \in Ids : files[i] \in {tx.base[i], tx.next[i]}
    /\ tx.manifest = "draft" => files = tx.base /\ Forward(Entries(tx))
    /\ tx.manifest = "committed" /\ ~glitch => Forward(Entries(tx))

(* What each program point knows.  Code gives up a committed transaction   *)
(* only after an I/O error.                                                *)
Point ==
    LET done == Entries(tx) \ todo
    IN  /\ todo \subseteq Entries(tx)
        /\ pc \in {"apply", "sweep", "rSweep", "stage"} => tx.manifest = "none"
        /\ pc = "stage" => /\ Sourced /\ files = tx.base
                           /\ Backed(done) /\ Forward(done)
        /\ pc = "commit" => tx.manifest = "draft"
        /\ pc \in {"publish", "republish"} => tx.manifest = "committed" /\ New(done)
        /\ pc = "undo" => tx.manifest = "committed" /\ glitch /\ Old(done)
        /\ pc = "rollback" => /\ tx.manifest # "none" /\ Old(done)
                              /\ tx.manifest = "committed" => glitch
        /\ pc = "unlink" => tx.manifest = "committed" /\ files = tx.next
        /\ pc = "rUnlink" => /\ tx.manifest # "none" /\ files \in {tx.base, tx.next}
                             /\ tx.manifest = "committed" /\ ~glitch => files = tx.next
        /\ pc = "sweep" => files = tx.next

Inv == TypeOK /\ Journal /\ Point

-----------------------------------------------------------------------------
LEMMA EmptySound == Empty \in Graphs /\ Sound(Empty) /\ NoTx \in Directories
<1>1. Empty \in Graphs /\ \A i \in Ids : Empty[i].status = "absent" /\ Empty[i].by = None
  BY DEF Empty, Graphs, Records, Bare, Statuses
<1>2. Sound(Empty)
  BY <1>1, ParentsAreIds DEF Sound, ValidGraph, Present, Open
<1>3. QED
  BY <1>1, <1>2 DEF NoTx, Directories

LEMMA InitInv == Init => Inv
<1> SUFFICES ASSUME Init PROVE Inv
  OBVIOUS
<1>1. TypeOK
  BY EmptySound DEF Init, TypeOK, Pcs
<1>2. tx.manifest = "none" /\ Entries(tx) = {}
  BY DEF Init, NoTx, Entries
<1>3. QED
  BY <1>1, <1>2, EmptySound DEF Init, Inv, Journal, Point

LEMMA Replaced ==
    ASSUME NEW t \in Directories
    PROVE  \A m \in {"none", "draft", "committed"} :
                  /\ [t EXCEPT !.manifest = m] \in Directories
                  /\ [t EXCEPT !.manifest = m].manifest = m
                  /\ [t EXCEPT !.manifest = m].base = t.base
                  /\ [t EXCEPT !.manifest = m].next = t.next
                  /\ [t EXCEPT !.manifest = m].staged = t.staged
                  /\ [t EXCEPT !.manifest = m].backups = t.backups
BY DEF Directories

LEMMA NewTxIs ==
    ASSUME NEW g \in Graphs, NEW h \in Graphs
    PROVE  /\ NewTx(g, h) \in Directories /\ NewTx(g, h).manifest = "none"
           /\ NewTx(g, h).base = g /\ NewTx(g, h).next = h
           /\ NewTx(g, h).staged = {} /\ NewTx(g, h).backups = {}
BY EmptySound DEF NewTx, NoTx, Directories

LEMMA NoTxIs == NoTx.manifest = "none" /\ Entries(NoTx) = {}
BY DEF NoTx, Entries

(* Publishing one more entry. *)
LEMMA PublishStep ==
    ASSUME Inv, tx.manifest = "committed",
           NEW i \in todo, PublishEntry(i), todo' = todo \ {i}, UNCHANGED glitch,
           New(Entries(tx) \ todo)
    PROVE  /\ files' \in Graphs /\ tx' \in Directories
           /\ tx'.manifest = tx.manifest /\ tx'.base = tx.base /\ tx'.next = tx.next
           /\ Journal' /\ New(Entries(tx) \ todo)' /\ todo' \subseteq Entries(tx')
<1>0. i \in Ids /\ i \in Entries(tx) /\ files \in Graphs /\ tx \in Directories
  BY DEF Inv, TypeOK, Point
<1>1. tx.next[i] \in Records /\ tx.next \in Graphs /\ tx.base \in Graphs
  BY <1>0 DEF Directories, Graphs
<1>2. files' \in Graphs /\ files'[i] = tx.next[i] /\ \A j \in Ids \ {i} : files'[j] = files[j]
  BY <1>0, <1>1 DEF PublishEntry, Graphs
<1>3. /\ tx' \in Directories /\ tx'.manifest = tx.manifest /\ tx'.base = tx.base
      /\ tx'.next = tx.next /\ tx'.backups = tx.backups
      /\ \A j \in Ids \ {i} : j \in tx.staged => j \in tx'.staged
  <2>1. CASE Removes(i) \/ files[i] = tx.next[i]
    BY <1>0, <2>1 DEF PublishEntry
  <2>2. CASE ~(Removes(i) \/ files[i] = tx.next[i])
    <3>1. tx' = [tx EXCEPT !.staged = tx.staged \ {i}] /\ tx.staged \ {i} \in SUBSET Ids
      BY <1>0, <2>2 DEF PublishEntry, Directories
    <3>2. /\ tx' \in Directories /\ tx'.manifest = tx.manifest /\ tx'.base = tx.base
          /\ tx'.next = tx.next /\ tx'.backups = tx.backups /\ tx'.staged = tx.staged \ {i}
      BY <1>0, <3>1 DEF Directories
    <3>3. QED
      BY <3>2
  <2>3. QED
    BY <2>1, <2>2
<1>4. Entries(tx') = Entries(tx)
  BY <1>3 DEF Entries
<1>5. Journal'
  <2>1. Sourced' <=> Sourced
    BY <1>3 DEF Sourced
  <2>2. \A j \in Ids : CanRestore(j)' <=> CanRestore(j)
    BY <1>3 DEF CanRestore
  <2>3. Backed(Entries(tx))'
    BY <1>4, <2>2 DEF Inv, Journal, Backed, Entries
  <2>4. \A j \in Ids : files'[j] \in {tx'.base[j], tx'.next[j]}
    BY <1>2, <1>3 DEF Inv, Journal
  <2>5. \A j \in Ids : CanPublish(j) => CanPublish(j)'
    BY <1>2, <1>3 DEF CanPublish, Removes
  <2>6. ~glitch' => Forward(Entries(tx))'
    BY <1>4, <2>5 DEF Inv, Journal, Forward, Entries
  <2>7. QED
    BY <1>3, <2>1, <2>3, <2>4, <2>6 DEF Inv, Journal
<1>6. New(Entries(tx) \ todo)'
  BY <1>2, <1>3, <1>4 DEF New, Entries
<1>7. todo' \subseteq Entries(tx')
  BY <1>4 DEF Inv, Point
<1>8. QED
  BY <1>2, <1>3, <1>5, <1>6, <1>7

(* Restoring one more entry, once the code has given up going forward.     *)
LEMMA RestoreStep ==
    ASSUME Inv, tx.manifest # "none", tx.manifest = "committed" => glitch,
           NEW i \in todo, RestoreEntry(i), todo' = todo \ {i}, UNCHANGED glitch,
           Old(Entries(tx) \ todo)
    PROVE  /\ files' \in Graphs /\ tx' = tx
           /\ Journal' /\ Old(Entries(tx) \ todo)' /\ todo' \subseteq Entries(tx')
<1>0. i \in Ids /\ i \in Entries(tx) /\ files \in Graphs /\ tx \in Directories
  BY DEF Inv, TypeOK, Point
<1>1. tx.base[i] \in Records /\ tx.base \in Graphs
  BY <1>0 DEF Directories, Graphs
<1>2. files' \in Graphs /\ files'[i] = tx.base[i] /\ \A j \in Ids \ {i} : files'[j] = files[j]
  BY <1>0, <1>1 DEF RestoreEntry, Graphs
<1>3. tx' = tx
  BY DEF RestoreEntry
<1>4. Journal'
  <2>1. Sourced' /\ Backed(Entries(tx))'
    BY <1>3 DEF Inv, Journal, Sourced, Backed, CanRestore, Entries
  <2>2. \A j \in Ids : files'[j] \in {tx'.base[j], tx'.next[j]}
    BY <1>2, <1>3 DEF Inv, Journal
  <2>3. ASSUME tx.manifest = "draft" PROVE files' = tx'.base /\ Forward(Entries(tx))'
    <3>1. files = tx.base /\ Forward(Entries(tx))
      BY <2>3 DEF Inv, Journal
    <3>2. files' = files
      BY <3>1, <1>0 DEF RestoreEntry, Graphs
    <3>3. QED
      BY <1>3, <3>1, <3>2 DEF Forward, CanPublish, Removes, Entries
  <2>4. QED
    BY <1>3, <2>1, <2>2, <2>3 DEF Inv, Journal
<1>5. Old(Entries(tx) \ todo)'
  BY <1>2, <1>3 DEF Old, Entries
<1>6. QED
  BY <1>2, <1>3, <1>4, <1>5 DEF Inv, Point

(* When every entry is new the files are the new graph, and likewise old.  *)
LEMMA Settled ==
    ASSUME Inv, tx.manifest # "none"
    PROVE  /\ New(Entries(tx)) => files = tx.next
           /\ Old(Entries(tx)) => files = tx.base
<1>1. files \in Graphs /\ tx.base \in Graphs /\ tx.next \in Graphs
  BY DEF Inv, TypeOK, Directories
<1>2. \A i \in Ids \ Entries(tx) : files[i] = tx.base[i] /\ files[i] = tx.next[i]
  BY DEF Inv, Journal, Entries
<1>3. QED
  BY <1>1, <1>2 DEF New, Old, Graphs

(* An action that only moves the program counter keeps the journal.        *)
LEMMA JournalKept ==
    ASSUME Inv, UNCHANGED <<files, tx, glitch>>
    PROVE  Journal' /\ Entries(tx)' = Entries(tx) /\ (Sourced' <=> Sourced)
           /\ files' \in Graphs /\ tx' \in Directories /\ glitch' \in BOOLEAN
BY DEF Inv, TypeOK, Journal, Sourced, Backed, Forward, CanRestore, CanPublish, Removes, Entries

LEMMA ControlStep ==
    ASSUME Inv,
           Claim \/ ScanDraft \/ ScanCommitted \/ Answer \/ FinishUndo \/ Fail
    PROVE  Inv'
<1>1. UNCHANGED <<files, tx, glitch>>
  BY DEF Claim, ScanDraft, ScanCommitted, Answer, FinishUndo, Fail
<1>2. /\ Journal' /\ Entries(tx)' = Entries(tx)
      /\ files' \in Graphs /\ tx' \in Directories /\ glitch' \in BOOLEAN
  BY <1>1, JournalKept
<1>3. CASE pc' \in {"idle", "scan"} /\ todo' = {}
  BY <1>2, <1>3 DEF Inv, TypeOK, Point, Pcs
<1>4. CASE ScanDraft
  <2>1. tx'.manifest = "draft" /\ pc' = "rollback" /\ todo' = Entries(tx)
    BY <1>1, <1>4 DEF ScanDraft, Goto
  <2>2. QED
    BY <1>2, <2>1 DEF Inv, TypeOK, Point, Pcs, Old, Entries
<1>5. CASE ScanCommitted
  <2>1. tx'.manifest = "committed" /\ pc' = "republish" /\ todo' = Entries(tx)
    BY <1>1, <1>5 DEF ScanCommitted, Goto
  <2>2. QED
    BY <1>2, <2>1 DEF Inv, TypeOK, Point, Pcs, New, Entries
<1>6. QED
  BY <1>3, <1>4, <1>5 DEF Claim, Answer, FinishUndo, Fail, Goto

(* The end of a loop: the graph it leaves is complete.                     *)
LEMMA FinishStep ==
    ASSUME Inv, FinishRepublish \/ FinishRollback \/ FinishPublish
    PROVE  Inv'
<1>1. UNCHANGED <<files, tx, glitch>> /\ todo = {} /\ todo' = {}
  BY DEF FinishRepublish, FinishRollback, FinishPublish, Goto
<1>2. /\ Journal' /\ Entries(tx)' = Entries(tx)
      /\ files' \in Graphs /\ tx' \in Directories /\ glitch' \in BOOLEAN
  BY <1>1, JournalKept
<1>3. Entries(tx) \ todo = Entries(tx)
  BY <1>1
<1>4. CASE FinishRepublish \/ FinishPublish
  <2>1. tx.manifest = "committed" /\ New(Entries(tx)) /\ pc' \in {"unlink", "rUnlink"}
    BY <1>3, <1>4 DEF FinishRepublish, FinishPublish, Inv, Point, Goto
  <2>2. files = tx.next
    BY <2>1, Settled
  <2>3. QED
    BY <1>1, <1>2, <2>1, <2>2 DEF Inv, TypeOK, Point, Pcs
<1>5. CASE FinishRollback
  <2>1. /\ tx.manifest # "none" /\ Old(Entries(tx)) /\ pc' = "rUnlink"
        /\ tx.manifest = "committed" => glitch
    BY <1>3, <1>5 DEF FinishRollback, Inv, Point, Goto
  <2>2. files = tx.base
    BY <2>1, Settled
  <2>3. QED
    BY <1>1, <1>2, <2>1, <2>2 DEF Inv, TypeOK, Point, Pcs
<1>6. QED
  BY <1>4, <1>5

(* The code turns back only after an I/O error: until one, every entry can *)
(* be published and the published graph is valid.                          *)
LEMMA TurnBackStep ==
    ASSUME Inv, GiveUpRepublish \/ FailRepublish \/ RefusePublish
    PROVE  Inv'
<1>1. /\ UNCHANGED <<files, tx>> /\ tx.manifest = "committed" /\ todo' = Entries(tx)
      /\ pc' \in {"undo", "rollback"}
  BY DEF GiveUpRepublish, FailRepublish, RefusePublish, Inv, Point, Goto
<1>2. ASSUME todo = {}, New(Entries(tx) \ todo) PROVE ValidGraph(files)
  <2>1. Entries(tx) \ todo = Entries(tx)
    BY <1>2
  <2>2. files = tx.next
    BY <1>1, <1>2, <2>1, Settled
  <2>3. QED
    BY <1>1, <2>2 DEF Inv, Journal, Sourced, Sound
<1>3. glitch' = TRUE
  <2>1. CASE FailRepublish
    BY <2>1 DEF FailRepublish
  <2>2. CASE RefusePublish
    <3>1. ValidGraph(files)
      BY <2>2, <1>2 DEF RefusePublish, Inv, Point
    <3>2. QED
      BY <2>2, <3>1 DEF RefusePublish
  <2>3. CASE GiveUpRepublish
    <3>1. UNCHANGED glitch /\ pc = "republish" /\ New(Entries(tx) \ todo) /\ todo \subseteq Entries(tx)
      BY <2>3 DEF GiveUpRepublish, Inv, Point
    <3>2. CASE todo = {}
      BY <2>3, <3>1, <3>2, <1>2 DEF GiveUpRepublish
    <3>3. CASE todo # {}
      <4>1. \E i \in Entries(tx) : ~CanPublish(i)
        BY <2>3, <3>1, <3>3 DEF GiveUpRepublish
      <4>2. glitch \in BOOLEAN /\ (~glitch => Forward(Entries(tx)))
        BY <1>1 DEF Inv, TypeOK, Journal
      <4>3. QED
        BY <3>1, <4>1, <4>2 DEF Forward
    <3>4. QED
      BY <3>2, <3>3
  <2>4. QED
    BY <2>1, <2>2, <2>3
<1>4. Entries(tx)' = Entries(tx)
  BY <1>1 DEF Entries
<1>5. Journal'
  BY <1>1, <1>3, <1>4 DEF Inv, Journal, Sourced, Backed, CanRestore
<1>6. Point'
  BY <1>1, <1>3, <1>4 DEF Inv, Point, Old
<1>7. TypeOK'
  BY <1>1, <1>3 DEF Inv, TypeOK, Pcs, Entries
<1>8. QED
  BY <1>5, <1>6, <1>7 DEF Inv

(* The directory goes away when no manifest needs it.                      *)
LEMMA ClearStep ==
    ASSUME Inv, ScanClean \/ Sweep
    PROVE  Inv'
<1>1. /\ tx.manifest = "none" /\ tx' = NoTx /\ UNCHANGED <<files, glitch>>
      /\ todo' = {} /\ pc' \in {"idle", "apply"}
  BY DEF ScanClean, Sweep, Goto, Inv, Point
<1>2. Journal'
  BY <1>1, NoTxIs DEF Inv, Journal
<1>3. QED
  BY <1>1, <1>2, NoTxIs, EmptySound DEF Inv, TypeOK, Point, Pcs

(* Removing the manifest decides the transaction: the files are one of its *)
(* two graphs.                                                             *)
LEMMA UnlinkStep ==
    ASSUME Inv, Unlink
    PROVE  /\ Inv' /\ files \in {tx.base, tx.next}
           /\ tx.manifest # "none" /\ tx'.manifest = "none" /\ UNCHANGED files
           /\ tx.manifest = "committed" /\ ~glitch => files = tx.next
<1>1. /\ tx.manifest # "none" /\ files \in {tx.base, tx.next}
      /\ tx.manifest = "committed" /\ ~glitch => files = tx.next
      /\ pc = "unlink" => files = tx.next
  BY DEF Unlink, Inv, Point
<1>2. /\ tx' \in Directories /\ tx'.manifest = "none" /\ tx'.base = tx.base /\ tx'.next = tx.next
      /\ UNCHANGED files /\ glitch' = FALSE /\ todo' = {}
      /\ pc' = IF pc = "unlink" THEN "sweep" ELSE "rSweep"
  BY Replaced DEF Unlink, Goto, Inv, TypeOK
<1>3. Journal'
  <2>1. Sound(files)
    BY <1>1 DEF Inv, Journal, Sourced
  <2>2. QED
    BY <1>2, <2>1 DEF Journal
<1>4. Point'
  BY <1>1, <1>2 DEF Point
<1>5. TypeOK'
  BY <1>2 DEF Inv, TypeOK, Pcs
<1>6. QED
  BY <1>1, <1>2, <1>3, <1>4, <1>5 DEF Inv

LEMMA PutStep ==
    ASSUME Inv, Put
    PROVE  Inv' /\ tx.manifest = "none" /\ UNCHANGED tx
<1>1. /\ tx.manifest = "none" /\ files' \in Puts(files) /\ UNCHANGED <<tx, glitch>>
      /\ pc' = "idle" /\ todo' = {}
  BY DEF Put, Goto, Inv, Point
<1>2. Sound(files) /\ files \in Graphs
  BY <1>1 DEF Inv, Journal, TypeOK
<1>3. files' \in Graphs /\ Sound(files')
  BY <1>1, <1>2, PutsSound
<1>4. Journal'
  BY <1>1, <1>3 DEF Journal
<1>5. QED
  BY <1>1, <1>3, <1>4 DEF Inv, TypeOK, Point, Pcs

LEMMA BeginStep ==
    ASSUME Inv, BeginTransaction
    PROVE  Inv' /\ tx.manifest = "none" /\ tx'.manifest = "none" /\ UNCHANGED files
<1>1. PICK h \in Transactions(files) :
          tx' = NewTx(files, h) /\ Goto("stage", Entries(NewTx(files, h)))
  BY DEF BeginTransaction
<1>2. tx.manifest = "none" /\ UNCHANGED <<files, glitch>>
  BY DEF BeginTransaction, Inv, Point
<1>3. files \in Graphs /\ Sound(files)
  BY <1>2 DEF Inv, TypeOK, Journal
<1>4. h \in Graphs /\ Sound(h)
  BY <1>3, TransactionsSound
<1>5. /\ tx' \in Directories /\ tx'.manifest = "none" /\ tx'.base = files /\ tx'.next = h
      /\ pc' = "stage" /\ todo' = Entries(tx')
  BY <1>1, <1>3, <1>4, NewTxIs DEF Goto
<1>6. Journal'
  BY <1>2, <1>3, <1>5 DEF Journal
<1>7. Sourced' /\ Backed(Entries(tx) \ todo)' /\ Forward(Entries(tx) \ todo)'
  BY <1>2, <1>3, <1>4, <1>5 DEF Sourced, Backed, Forward
<1>8. Point'
  BY <1>2, <1>5, <1>7 DEF Point
<1>9. TypeOK'
  BY <1>2, <1>5 DEF Inv, TypeOK, Pcs, Entries
<1>10. QED
  BY <1>2, <1>5, <1>6, <1>8, <1>9 DEF Inv

LEMMA StageStep ==
    ASSUME Inv, Stage
    PROVE  Inv' /\ tx.manifest = "none" /\ tx'.manifest = "none" /\ UNCHANGED files
<1>1. PICK i \in todo :
          /\ tx' = [tx EXCEPT !.backups = IF tx.base[i].status = "absent" THEN @ ELSE @ \cup {i},
                              !.staged = IF Removes(i) THEN @ ELSE @ \cup {i}]
          /\ Goto("stage", todo \ {i})
  BY DEF Stage
<1> DEFINE B == IF tx.base[i].status = "absent" THEN tx.backups ELSE tx.backups \cup {i}
           S == IF Removes(i) THEN tx.staged ELSE tx.staged \cup {i}
<1>2. /\ tx \in Directories /\ i \in Ids /\ i \in Entries(tx) /\ UNCHANGED <<files, glitch>>
      /\ tx.manifest = "none" /\ pc = "stage" /\ files = tx.base /\ Sourced
      /\ Backed(Entries(tx) \ todo) /\ Forward(Entries(tx) \ todo) /\ todo \subseteq Entries(tx)
  BY DEF Stage, Inv, TypeOK, Point
<1>3. S \in SUBSET Ids /\ B \in SUBSET Ids
  BY <1>2 DEF Directories
<1>4. tx' = [tx EXCEPT !.backups = B, !.staged = S]
  BY <1>1
<1>5. /\ tx' \in Directories /\ tx'.manifest = tx.manifest /\ tx'.base = tx.base
      /\ tx'.next = tx.next /\ tx'.staged = S /\ tx'.backups = B
  <2> HIDE DEF S, B
  <2> DEFINE t == [tx EXCEPT !.backups = B, !.staged = S]
  <2>1. /\ t \in Directories /\ t.manifest = tx.manifest /\ t.base = tx.base
        /\ t.next = tx.next /\ t.staged = S /\ t.backups = B
    BY <1>2, <1>3 DEF Directories
  <2> HIDE DEF t
  <2>2. tx' = t
    BY <1>4 DEF t
  <2>3. QED
    BY <2>1, <2>2
<1>6. Entries(tx') = Entries(tx) /\ (Sourced' <=> Sourced)
  BY <1>5 DEF Entries, Sourced
<1>7. pc' = "stage" /\ todo' = todo \ {i}
  BY <1>1 DEF Goto
<1>8. \A j \in Entries(tx) \ todo : CanRestore(j)' /\ CanPublish(j)'
  BY <1>2, <1>5 DEF Backed, Forward, CanRestore, CanPublish, Removes
<1>9. CanRestore(i)' /\ CanPublish(i)'
  BY <1>5 DEF CanRestore, CanPublish, Removes
<1>10. Backed(Entries(tx) \ todo)' /\ Forward(Entries(tx) \ todo)'
  BY <1>6, <1>7, <1>8, <1>9 DEF Backed, Forward
<1>11. Journal'
  BY <1>2, <1>5 DEF Inv, Journal
<1>12. Point'
  BY <1>2, <1>5, <1>6, <1>7, <1>10 DEF Point
<1>13. TypeOK'
  BY <1>2, <1>5, <1>7 DEF Inv, TypeOK, Pcs
<1>14. QED
  BY <1>2, <1>5, <1>11, <1>12, <1>13 DEF Inv

LEMMA ManifestStep ==
    ASSUME Inv, WriteDraft \/ WriteCommitted
    PROVE  Inv' /\ UNCHANGED files /\ files = tx.base /\ tx'.manifest # "none" /\ tx'.base = tx.base
<1> DEFINE m == IF pc = "stage" THEN "draft" ELSE "committed"
<1>1. /\ tx' = [tx EXCEPT !.manifest = m] /\ UNCHANGED <<files, glitch>>
      /\ m \in {"none", "draft", "committed"} /\ m # "none"
      /\ tx \in Directories /\ files = tx.base /\ Sourced
  BY DEF WriteDraft, WriteCommitted, Inv, TypeOK, Journal, Point
<1>2. Backed(Entries(tx)) /\ Forward(Entries(tx))
  <2>1. CASE WriteDraft
    BY <2>1 DEF WriteDraft, Inv, Point, Backed, Forward
  <2>2. CASE WriteCommitted
    BY <2>2 DEF WriteCommitted, Inv, Point, Journal
  <2>3. QED
    BY <2>1, <2>2
<1>3. /\ pc' = IF m = "draft" THEN "commit" ELSE "publish"
      /\ todo' = IF m = "draft" THEN {} ELSE Entries(tx)
  BY DEF WriteDraft, WriteCommitted, Goto
<1> HIDE DEF m
<1>4. /\ tx' \in Directories /\ tx'.manifest = m /\ tx'.base = tx.base /\ tx'.next = tx.next
      /\ tx'.staged = tx.staged /\ tx'.backups = tx.backups
  BY <1>1, Replaced
<1>5. Entries(tx') = Entries(tx) /\ (Sourced' <=> Sourced)
  BY <1>4 DEF Entries, Sourced
<1>6. Backed(Entries(tx))' /\ Forward(Entries(tx))'
  BY <1>1, <1>2, <1>4, <1>5 DEF Backed, Forward, CanRestore, CanPublish, Removes
<1>7. Journal'
  BY <1>1, <1>4, <1>5, <1>6 DEF Journal
<1>8. Point'
  BY <1>1, <1>3, <1>4, <1>5 DEF Point, New
<1>9. TypeOK'
  <2>1. todo' \in SUBSET Ids /\ pc' \in Pcs
    BY <1>3 DEF Entries, Pcs
  <2>2. QED
    BY <1>1, <1>4, <2>1 DEF Inv, TypeOK
<1>10. QED
  BY <1>1, <1>4, <1>7, <1>8, <1>9 DEF Inv

(* One turn of a loop, forward or back.                                    *)
LEMMA ForwardStep ==
    ASSUME Inv, Republish \/ Publish
    PROVE  Inv' /\ tx'.base = tx.base /\ tx'.manifest = "committed" /\ tx.manifest = "committed"
<1>1. PICK i \in todo : PublishEntry(i) /\ todo' = todo \ {i} /\ pc' = pc
  BY DEF Republish, Publish, Goto
<1>2. /\ pc \in {"publish", "republish"} /\ UNCHANGED glitch
      /\ tx.manifest = "committed" /\ New(Entries(tx) \ todo)
  BY DEF Republish, Publish, Inv, Point
<1>3. /\ files' \in Graphs /\ tx' \in Directories
      /\ tx'.manifest = tx.manifest /\ tx'.base = tx.base
      /\ Journal' /\ New(Entries(tx) \ todo)' /\ todo' \subseteq Entries(tx')
  BY <1>1, <1>2, PublishStep
<1>4. Point'
  BY <1>1, <1>2, <1>3 DEF Point
<1>5. TypeOK'
  BY <1>1, <1>2, <1>3 DEF Inv, TypeOK
<1>6. QED
  BY <1>2, <1>3, <1>4, <1>5 DEF Inv

LEMMA BackwardStep ==
    ASSUME Inv, Rollback \/ Undo
    PROVE  Inv' /\ UNCHANGED tx /\ tx.manifest # "none"
<1>1. PICK i \in todo : RestoreEntry(i) /\ todo' = todo \ {i} /\ pc' = pc
  BY DEF Rollback, Undo, Goto
<1>2. /\ pc \in {"rollback", "undo"} /\ UNCHANGED glitch
      /\ tx.manifest # "none" /\ Old(Entries(tx) \ todo)
      /\ tx.manifest = "committed" => glitch
      /\ pc = "undo" => tx.manifest = "committed" /\ glitch
  BY DEF Rollback, Undo, Inv, Point
<1>3. /\ files' \in Graphs /\ tx' = tx
      /\ Journal' /\ Old(Entries(tx) \ todo)' /\ todo' \subseteq Entries(tx')
  BY <1>1, <1>2, RestoreStep
<1>4. Point'
  BY <1>1, <1>2, <1>3 DEF Point
<1>5. TypeOK'
  BY <1>1, <1>2, <1>3 DEF Inv, TypeOK
<1>6. QED
  BY <1>2, <1>3, <1>4, <1>5 DEF Inv

LEMMA StutterStep ==
    ASSUME Inv, UNCHANGED vars
    PROVE  Inv'
<1>1. Journal' /\ Entries(tx)' = Entries(tx) /\ (Sourced' <=> Sourced)
  BY JournalKept DEF vars
<1>2. Point'
  BY <1>1 DEF vars, Inv, Point, New, Old, Backed, Forward, CanRestore, CanPublish, Removes, Entries
<1>3. QED
  BY <1>1, <1>2 DEF vars, Inv, TypeOK

-----------------------------------------------------------------------------
LEMMA NextInv == Inv /\ [Next]_vars => Inv'
<1> SUFFICES ASSUME Inv, [Next]_vars PROVE Inv'
  OBVIOUS
<1>1. CASE Claim \/ ScanDraft \/ ScanCommitted \/ Answer \/ FinishUndo \/ Fail
  BY <1>1, ControlStep
<1>2. CASE FinishRepublish \/ FinishRollback \/ FinishPublish
  BY <1>2, FinishStep
<1>3. CASE GiveUpRepublish \/ FailRepublish \/ RefusePublish
  BY <1>3, TurnBackStep
<1>4. CASE ScanClean \/ Sweep
  BY <1>4, ClearStep
<1>5. CASE Unlink
  BY <1>5, UnlinkStep
<1>6. CASE Put \/ BeginTransaction \/ Stage
  BY <1>6, PutStep, BeginStep, StageStep
<1>7. CASE WriteDraft \/ WriteCommitted
  BY <1>7, ManifestStep
<1>8. CASE Republish \/ Publish \/ Rollback \/ Undo
  BY <1>8, ForwardStep, BackwardStep
<1>9. CASE UNCHANGED vars
  BY <1>9, StutterStep
<1>10. QED
  BY <1>1, <1>2, <1>3, <1>4, <1>5, <1>6, <1>7, <1>8, <1>9 DEF Next

LEMMA StoreInvariant == Spec => []Inv
BY InitInv, NextInv, PTL DEF Spec

(* A record, the directory and the program counter keep their types in     *)
(* every operation of the store, interrupted or not.                       *)
THEOREM StoreTypeOK == Spec => []TypeOK
<1>1. Inv => TypeOK
  BY DEF Inv
<1>2. QED
  BY <1>1, StoreInvariant, PTL

(* Whenever no manifest is on disk the record files form a valid graph,    *)
(* for any families, rollup parents and cleanup cards (validate_graph).    *)
THEOREM GraphAlwaysValid == Spec => []GraphStaysValid
<1>1. Inv => GraphStaysValid
  BY DEF Inv, Journal, Sound, GraphStaysValid
<1>2. QED
  BY <1>1, StoreInvariant, PTL

(* Recovery never refuses a graph for want of a backup or of validity      *)
(* (rollback_transaction).                                                 *)
THEOREM RecoverySucceeds == Spec => []RecoveryNeverRefused
<1>1. Inv => RecoveryNeverRefused
  <2> SUFFICES ASSUME Inv, pc \in {"undo", "rollback"}
               PROVE  (\A i \in todo : CanRestore(i)) /\ (todo = {} => ValidGraph(files))
    BY DEF RecoveryNeverRefused
  <2>1. tx.manifest # "none" /\ Old(Entries(tx) \ todo) /\ todo \subseteq Entries(tx)
    BY DEF Inv, Point
  <2>2. \A i \in todo : CanRestore(i)
    BY <2>1 DEF Inv, Journal, Backed
  <2>3. ASSUME todo = {} PROVE ValidGraph(files)
    <3>1. Entries(tx) \ todo = Entries(tx)
      BY <2>3
    <3>2. files = tx.base
      BY <2>1, <3>1, Settled
    <3>3. QED
      BY <2>1, <3>2 DEF Inv, Journal, Sourced, Sound
  <2>4. QED
    BY <2>2, <2>3
<1>2. QED
  BY <1>1, StoreInvariant, PTL

(* commit_replacements answers Ok only over the whole new graph.           *)
THEOREM OkMeansApplied == Spec => []AcknowledgedIsApplied
<1>1. Inv => AcknowledgedIsApplied
  BY DEF Inv, Point, AcknowledgedIsApplied
<1>2. QED
  BY <1>1, StoreInvariant, PTL

(* recover_orphaned_executions can always return every orphan at once: the *)
(* graph it asks for passes validation.                                    *)
THEOREM OrphanRecoveryAccepted == Spec => []OrphansCanReturn
<1>1. Inv => OrphansCanReturn
  <2> SUFFICES ASSUME Inv, tx.manifest = "none", NEW h \in RecoverOrphanedExecutions(files)
               PROVE  ValidGraph(h)
    BY DEF OrphansCanReturn
  <2>1. files \in Graphs /\ Sound(files)
    BY DEF Inv, TypeOK, Journal
  <2>2. Sound(h)
    BY <2>1, ReopenSound
  <2>3. QED
    BY <2>2 DEF Sound
<1>2. QED
  BY <1>1, StoreInvariant, PTL

(* Which steps touch the journal, seen from outside.                       *)
LEMMA LogicalStep ==
    ASSUME Inv, [Next]_vars
    PROVE  \/ UNCHANGED Logical
           \/ Put /\ Logical' \in Puts(Logical)
           \/ Unlink /\ Logical' \in Transactions(Logical)
<1>1. CASE UNCHANGED <<files, tx>>
  BY <1>1 DEF Logical
<1>2. CASE ScanClean \/ Sweep
  <2>1. tx.manifest = "none" /\ tx' = NoTx /\ UNCHANGED files
    BY <1>2 DEF ScanClean, Sweep, Inv, Point
  <2>2. QED
    BY <2>1, NoTxIs DEF Logical
<1>3. CASE Put
  <2>1. tx.manifest = "none" /\ UNCHANGED tx /\ files' \in Puts(files)
    BY <1>3, PutStep DEF Put
  <2>2. QED
    BY <1>3, <2>1 DEF Logical
<1>4. CASE BeginTransaction \/ Stage
  <2>1. tx.manifest = "none" /\ tx'.manifest = "none" /\ UNCHANGED files
    BY <1>4, BeginStep, StageStep
  <2>2. QED
    BY <2>1 DEF Logical
<1>5. CASE WriteDraft \/ WriteCommitted
  <2>1. UNCHANGED files /\ files = tx.base /\ tx'.manifest # "none" /\ tx'.base = tx.base
    BY <1>5, ManifestStep
  <2>2. QED
    BY <2>1 DEF Logical
<1>6. CASE Republish \/ Publish
  <2>1. tx'.base = tx.base /\ tx'.manifest = "committed" /\ tx.manifest = "committed"
    BY <1>6, ForwardStep
  <2>2. QED
    BY <2>1 DEF Logical
<1>7. CASE Rollback \/ Undo
  <2>1. UNCHANGED tx /\ tx.manifest # "none"
    BY <1>7, BackwardStep
  <2>2. QED
    BY <2>1 DEF Logical
<1>8. CASE Unlink
  <2>1. /\ files \in {tx.base, tx.next} /\ UNCHANGED files
        /\ tx.manifest # "none" /\ tx'.manifest = "none"
    BY <1>8, UnlinkStep
  <2>2. Logical = tx.base /\ Logical' = files /\ tx.next \in Transactions(tx.base)
    BY <2>1 DEF Logical, Inv, Journal, Sourced
  <2>3. QED
    BY <1>8, <2>1, <2>2
<1>9. QED
  BY <1>1, <1>2, <1>3, <1>4, <1>5, <1>6, <1>7, <1>8
     DEF Next, vars, Claim, ScanDraft, ScanCommitted, GiveUpRepublish, FailRepublish,
         FinishRepublish, FinishRollback, Answer, FinishPublish, RefusePublish, FinishUndo, Fail

(* The file store, with all its partial states, failures and repeated      *)
(* recoveries, implements an atomic store of whole graphs                  *)
(* (commit_replacements, recover_transaction).                             *)
THEOREM StoreIsAtomic == Spec => ImplementsContract
<1>1. Init => Contract!Init
  BY DEF Init, Contract!Init, Logical, NoTx
<1>2. Inv /\ [Next]_vars => [Contract!Next]_Logical
  BY LogicalStep DEF Contract!Next, Contract!Refuse, Contract!Write, Contract!Replace
<1>3. QED
  BY <1>1, <1>2, StoreInvariant, PTL DEF Spec, ImplementsContract, Contract!Spec

(* A committed transaction ends as the new graph unless publishing it met  *)
(* an I/O error (recover_transaction).                                     *)
THEOREM CommitIsFinal == Spec => CommittedCompletes
<1>1. Inv /\ [Next]_vars =>
          [tx.manifest = "committed" /\ tx'.manifest # "committed" /\ ~glitch
              => files' = tx.next]_vars
  <2> SUFFICES ASSUME Inv, [Next]_vars, tx.manifest = "committed",
                      tx'.manifest # "committed", ~glitch
               PROVE  files' = tx.next
    OBVIOUS
  <2>1. CASE Unlink
    BY <2>1, UnlinkStep
  <2>2. CASE UNCHANGED tx
    BY <2>2
  <2>3. CASE ScanClean \/ Sweep \/ BeginTransaction \/ Stage \/ WriteDraft
    BY <2>3 DEF ScanClean, Sweep, BeginTransaction, Stage, WriteDraft, Inv, Point
  <2>4. CASE WriteCommitted
    BY <2>4 DEF WriteCommitted, Inv, Point
  <2>5. CASE Republish \/ Publish
    BY <2>5, ForwardStep
  <2>6. QED
    BY <2>1, <2>2, <2>3, <2>4, <2>5
       DEF Next, vars, Claim, ScanDraft, ScanCommitted, GiveUpRepublish, FailRepublish,
           FinishRepublish, Rollback, FinishRollback, Answer, Put, FinishPublish,
           RefusePublish, Undo, FinishUndo, Fail, RestoreEntry
<1>2. QED
  BY <1>1, StoreInvariant, PTL DEF Spec, CommittedCompletes

=============================================================================

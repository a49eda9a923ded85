---------------------- MODULE TerminalAttachmentProofs ----------------------
(***************************************************************************)
(* Proofs about TerminalAttachment for any sockets, runtimes, inputs,      *)
(* queue cap and slots.                                                    *)
(***************************************************************************)
EXTENDS TerminalAttachment, FiniteSetTheorems, TLAPS

(* The inductive invariant.  What a client types is numbered, so the order *)
(* of everything a socket has delivered, has in flight and has queued is   *)
(* an order of numbers.                                                    *)
Rising(d) == \A i, j \in DOMAIN d : i < j => d[i] < d[j]
Before(d, e) == \A i \in DOMAIN d, j \in DOMAIN e : d[i] < e[j]
Upto(d, n) == \A i \in DOMAIN d : d[i] <= n

(* A queue is counted and in order; D is the data of its items. *)
DataOf(q) == [i \in 1 .. Len(q.items) |-> q.items[i].data]
Places(D) == UNION {{i} \X DOMAIN D[i] : i \in DOMAIN D}
Ordered(D) ==
    /\ \A i \in DOMAIN D : Rising(D[i])
    /\ \A i, j \in DOMAIN D : i < j => Before(D[i], D[j])
Ahead(d, D) == \A i \in DOMAIN D : Before(d, D[i])
Within(D, n) == \A i \in DOMAIN D : Upto(D[i], n)
QueueOK(q) ==
    /\ IsFiniteSet(Places(DataOf(q))) /\ q.bytes = Cardinality(Places(DataOf(q)))
    /\ Ordered(DataOf(q))

(* A command in flight: an input that has passed the identity check goes   *)
(* to the runtime it comes from; d is what its socket has delivered, n the *)
(* last input typed.                                                       *)
CommandOK(c, d, n) ==
    /\ c.at # "none" /\ c.kind # "noop"
    /\ c.from \in Runs /\ c.sock \in Sockets
    /\ c.kind = "input" => c.to \in {0, c.from}
    /\ c.at = "owner" => c.kind = "input"
    /\ c.at = "sent" => c.kind # "kill" /\ c.to \in Runs
    /\ c.kind = "input" /\ c.at # "spawned" => c.to = c.from
    /\ Rising(c.data) /\ Before(d, c.data) /\ Upto(c.data, n)

(* A socket k: commands only while it is open, a queue only behind a       *)
(* command, and the queue behind the command.                              *)
SocketOK(s, k, d, n) ==
    /\ k.at \in {"replay", "open"} => k.run \in Runs /\ k.token > 0
    /\ k.at # "open" => k.cmd = NoCommand
    /\ k.cmd.at = "none" => k.cmd = NoCommand /\ k.queue.items = <<>>
    /\ k.cmd # NoCommand => k.cmd.sock = s /\ CommandOK(k.cmd, d, n)
    /\ QueueOK(k.queue)
    /\ Ahead(d, DataOf(k.queue)) /\ Ahead(k.cmd.data, DataOf(k.queue))
    /\ Within(DataOf(k.queue), n)

SocketsOK ==
    \A s \in Sockets :
        /\ SocketOK(s, sock[s], delivered[s], typed)
        /\ Rising(delivered[s]) /\ Upto(delivered[s], typed)

(* A socket leaves at most one command behind, and is closed then. *)
DetachedOK ==
    /\ \A c \in detached :
        /\ CommandOK(c, delivered[c.sock], typed)
        /\ sock[c.sock].at = "closed"
    /\ \A c, d \in detached : c.sock = d.sock => c = d

(* Before the first resume every claim is on the one runtime, and the      *)
(* attached socket holds the current token until the runtime is ending.    *)
FirstRunOK ==
    run = 1 =>
        /\ SingleAttachment
        /\ \A s \in Sockets : Attached(s) =>
            /\ sock[s].run = 1
            /\ phase \notin {"ending", "ended"} => sock[s].token = held

IInv ==
    /\ TypeOK /\ SocketsOK /\ DetachedOK
    /\ HeldBySocket /\ CommandsStayHome /\ FirstRunOK

-----------------------------------------------------------------------------
(* The queue. *)

(* What is pushed: an input in typing order, or a command without data. *)
Action(a) ==
    /\ a \in [kind : {"input", "resize", "kill"}, data : Seq(Inputs)]
    /\ a.kind # "input" => a.data = <<>>
    /\ Rising(a.data)

LEMMA InputsAreNumbers == Inputs \subseteq Nat
  BY AttachmentAssumption DEF Inputs

(* Places by coordinates. *)
LEMMA PlacesIff ==
    ASSUME NEW D
    PROVE  /\ \A i, j : <<i, j>> \in Places(D) <=> i \in DOMAIN D /\ j \in DOMAIN D[i]
           /\ \A p \in Places(D) : \E i, j : p = <<i, j>>
<1>1. \A p : p \in Places(D) <=> \E i \in DOMAIN D : p \in {i} \X DOMAIN D[i]
  BY DEF Places
<1> QED BY <1>1

(* A block of k places behind l others of item m has k members. *)
Block(m, l, k) == {m} \X ((l + 1) .. (l + k))

LEMMA BlockSize ==
    ASSUME NEW m, NEW l \in Nat, NEW k \in Nat
    PROVE  IsFiniteSet(Block(m, l, k)) /\ Cardinality(Block(m, l, k)) = k
<1> DEFINE I == (l + 1) .. (l + k)
<1>1. IsFiniteSet(I) /\ Cardinality(I) = k
  BY FS_Interval
<1>2. IsFiniteSet({m}) /\ Cardinality({m}) = 1
  BY FS_Singleton, Zenon
<1>3. IsFiniteSet({m} \X I) /\ Cardinality({m} \X I) = 1 * k
  <2> HIDE DEF I
  <2> QED BY <1>1, <1>2, FS_Product
<1> QED BY <1>3 DEF Block

LEMMA DisjointUnion ==
    ASSUME NEW S, NEW T, IsFiniteSet(S), IsFiniteSet(T), S \cap T = {}
    PROVE  /\ IsFiniteSet(S \cup T)
           /\ Cardinality(S \cup T) = Cardinality(S) + Cardinality(T)
<1>1. Cardinality(S) \in Nat /\ Cardinality(T) \in Nat
  BY FS_CardinalityType
<1>2. Cardinality(S \cap T) = 0
  BY FS_EmptySet
<1>3. /\ IsFiniteSet(S \cup T)
      /\ Cardinality(S \cup T) = Cardinality(S) + Cardinality(T) - Cardinality(S \cap T)
  BY FS_Union
<1> QED BY <1>1, <1>2, <1>3

(* Adding such a block to a set of places counts k more. *)
LEMMA GrowBy ==
    ASSUME NEW S, NEW m, NEW l \in Nat, NEW k \in Nat, IsFiniteSet(S),
           S \cap Block(m, l, k) = {}
    PROVE  /\ IsFiniteSet(S \cup Block(m, l, k))
           /\ Cardinality(S \cup Block(m, l, k)) = Cardinality(S) + k
  BY BlockSize, DisjointUnion

(* E has the places of D and a block of others. *)
Gains(E, D, m, l, k) ==
    /\ \A i, j : (i \in DOMAIN E /\ j \in DOMAIN E[i]) <=>
                \/ i \in DOMAIN D /\ j \in DOMAIN D[i]
                \/ i = m /\ j \in (l + 1) .. (l + k)
    /\ m \in DOMAIN D => DOMAIN D[m] \cap ((l + 1) .. (l + k)) = {}

LEMMA PlacesGrow ==
    ASSUME NEW D, NEW E, NEW m, NEW l \in Nat, NEW k \in Nat, IsFiniteSet(Places(D)),
           Gains(E, D, m, l, k)
    PROVE  /\ IsFiniteSet(Places(E))
           /\ Cardinality(Places(E)) = Cardinality(Places(D)) + k
<1>1. /\ \A i, j : <<i, j>> \in Block(m, l, k) <=> i = m /\ j \in (l + 1) .. (l + k)
      /\ \A p \in Block(m, l, k) : \E i, j : p = <<i, j>>
  BY DEF Block
<1>2. \A i, j : <<i, j>> \in Places(E) <=> <<i, j>> \in Places(D) \/ <<i, j>> \in Block(m, l, k)
  BY <1>1, PlacesIff, Zenon DEF Gains
<1>3. Places(E) = Places(D) \cup Block(m, l, k)
  <2>1. ASSUME NEW p \in Places(E) PROVE p \in Places(D) \cup Block(m, l, k)
    BY <1>2, PlacesIff
  <2>2. ASSUME NEW p \in Places(D) PROVE p \in Places(E)
    BY <1>2, PlacesIff
  <2>3. ASSUME NEW p \in Block(m, l, k) PROVE p \in Places(E)
    BY <1>1, <1>2
  <2> QED BY <2>1, <2>2, <2>3
<1>4. Places(D) \cap Block(m, l, k) = {}
  <2> SUFFICES ASSUME NEW p \in Places(D), p \in Block(m, l, k) PROVE FALSE
    OBVIOUS
  <2>1. PICK i, j : p = <<i, j>>
    BY <1>1
  <2> QED BY <1>1, <2>1, PlacesIff DEF Gains
<1> HIDE DEF Block
<1> QED BY <1>3, <1>4, GrowBy

(* Order and concatenation. *)
LEMMA ConcatOrder ==
    ASSUME NEW d \in Seq(Inputs), NEW e \in Seq(Inputs)
    PROVE  /\ d \o e \in Seq(Inputs)
           /\ Rising(d) /\ Rising(e) /\ Before(d, e) => Rising(d \o e)
           /\ \A c : Before(c, d) /\ Before(c, e) => Before(c, d \o e)
           /\ \A c : Before(d, c) /\ Before(e, c) => Before(d \o e, c)
           /\ \A n : Upto(d, n) /\ Upto(e, n) => Upto(d \o e, n)
<1>1. /\ d \o e \in Seq(Inputs) /\ Len(d \o e) = Len(d) + Len(e)
      /\ \A i \in 1 .. Len(d \o e) :
            (d \o e)[i] = IF i <= Len(d) THEN d[i] ELSE e[i - Len(d)]
  OBVIOUS
<1>2. /\ DOMAIN d = 1 .. Len(d) /\ DOMAIN e = 1 .. Len(e)
      /\ DOMAIN (d \o e) = 1 .. Len(d \o e)
      /\ Len(d) \in Nat /\ Len(e) \in Nat
  BY <1>1
<1> DEFINE f == d \o e
<1>3. \A i \in DOMAIN f : i \in Nat /\ \/ i \in DOMAIN d /\ f[i] = d[i]
                                       \/ i > Len(d) /\ i - Len(d) \in DOMAIN e /\ f[i] = e[i - Len(d)]
  BY <1>1, <1>2
<1> HIDE DEF f
<1>4. Rising(d) /\ Rising(e) /\ Before(d, e) => Rising(f)
  <2> SUFFICES ASSUME Rising(d), Rising(e), Before(d, e),
                      NEW i \in DOMAIN f, NEW j \in DOMAIN f, i < j
               PROVE  f[i] < f[j]
    BY DEF Rising
  <2>1. CASE i \in DOMAIN d /\ f[i] = d[i]
    BY <1>2, <1>3, <2>1 DEF Rising, Before
  <2>2. CASE i > Len(d) /\ i - Len(d) \in DOMAIN e /\ f[i] = e[i - Len(d)]
    <3>1. j > Len(d) /\ j - Len(d) \in DOMAIN e /\ f[j] = e[j - Len(d)]
      BY <1>2, <1>3, <2>2
    <3> QED BY <1>2, <1>3, <2>2, <3>1 DEF Rising
  <2> QED BY <1>3, <2>1, <2>2
<1>5. \A c : Before(c, d) /\ Before(c, e) => Before(c, f)
  BY <1>3 DEF Before
<1>6. \A c : Before(d, c) /\ Before(e, c) => Before(f, c)
  BY <1>3 DEF Before
<1>7. \A n : Upto(d, n) /\ Upto(e, n) => Upto(f, n)
  BY <1>3 DEF Upto
<1> QED BY <1>1, <1>4, <1>5, <1>6, <1>7 DEF f

(* The items after a push that neither overflows nor is a kill: the last   *)
(* one has grown, or there is one more.                                    *)
Joins(q, a) == Len(q.items) > 0 /\ q.items[Len(q.items)].kind = a.kind
Grown(i, a) == [kind |-> a.kind, data |-> i.data \o a.data]

LEMMA PushItems ==
    ASSUME NEW q \in Queues, NEW a, Action(a), a.kind # "kill", ~Overflows(q, a)
    PROVE  LET p == Push(q, a)
               n == Len(q.items)
           IN  /\ p \in Queues
               /\ p.bytes = q.bytes + Len(a.data)
               /\ Joins(q, a) =>
                    /\ n > 0 /\ Len(p.items) = n
                    /\ \A i \in 1 .. n : p.items[i] =
                            IF i = n THEN Grown(q.items[n], a) ELSE q.items[i]
               /\ ~Joins(q, a) =>
                    /\ Len(p.items) = n + 1
                    /\ \A i \in 1 .. (n + 1) : p.items[i] =
                            IF i = n + 1 THEN a ELSE q.items[i]
<1> DEFINE n == Len(q.items)
           p == Push(q, a)
<1>1. /\ q.items \in Seq(Items) /\ q.bytes \in 0 .. QueueCap /\ n \in Nat
      /\ a \in Items /\ Len(a.data) \in Nat /\ a.data \in Seq(Inputs)
  BY DEF Queues, Action, Items
<1> DEFINE joined == [a EXCEPT !.data = q.items[n].data \o @]
<1>2. p = [q EXCEPT !.items = IF Joins(q, a) THEN [q.items EXCEPT ![n] = joined]
                                             ELSE Append(q.items, a),
                    !.bytes = @ + Len(a.data)]
  BY DEF Push, Joins
<1>3. /\ p.items = IF Joins(q, a) THEN [q.items EXCEPT ![n] = joined]
                                  ELSE Append(q.items, a)
      /\ p.bytes = q.bytes + Len(a.data) /\ p.kill = q.kill
  BY <1>2 DEF Queues
<1>4. q.bytes + Len(a.data) \in 0 .. QueueCap
  BY <1>1, AttachmentAssumption DEF Overflows, Action
<1>5. CASE Joins(q, a)
  <2>1. n > 0 /\ n \in 1 .. n /\ q.items[n] \in Items /\ q.items[n].kind = a.kind
    BY <1>1, <1>5 DEF Joins
  <2>2. joined = Grown(q.items[n], a) /\ Grown(q.items[n], a) \in Items
    <3>1. q.items[n].data \o a.data \in Seq(Inputs)
      BY <1>1, <2>1 DEF Items
    <3> DEFINE w == q.items[n].data \o a.data
    <3>0. joined = [a EXCEPT !.data = w]
      OBVIOUS
    <3>2. joined = Grown(q.items[n], a)
      <4> HIDE DEF w, joined
      <4> QED BY <1>1, <3>0, Zenon DEF Grown, Items, w
    <3> QED BY <1>1, <3>1, <3>2 DEF Grown, Items
  <2>3. p.items = [q.items EXCEPT ![n] = Grown(q.items[n], a)]
    BY <1>3, <1>5, <2>2
  <2>4. /\ p.items \in Seq(Items) /\ Len(p.items) = n
        /\ \A i \in 1 .. n : p.items[i] = IF i = n THEN Grown(q.items[n], a) ELSE q.items[i]
    <3> HIDE DEF p
    <3> QED BY <1>1, <2>1, <2>2, <2>3
  <2> QED BY <1>2, <1>3, <1>4, <1>5, <2>1, <2>4, Zenon DEF Queues
<1>6. CASE ~Joins(q, a)
  <2>1. /\ p.items \in Seq(Items) /\ Len(p.items) = n + 1
        /\ \A i \in 1 .. (n + 1) : p.items[i] = IF i = n + 1 THEN a ELSE q.items[i]
    BY <1>1, <1>3, <1>6
  <2> QED BY <1>2, <1>3, <1>4, <1>6, <2>1, Zenon DEF Queues
<1> QED BY <1>5, <1>6

(* Growing the last item, and adding one, keep the order. *)
LEMMA GrowLast ==
    ASSUME NEW n \in Nat \ {0}, NEW D \in [1 .. n -> Seq(Inputs)],
           NEW E \in [1 .. n -> Seq(Inputs)], NEW e \in Seq(Inputs),
           \A i \in 1 .. n : E[i] = IF i = n THEN D[n] \o e ELSE D[i],
           Ordered(D), Rising(e), \A i \in 1 .. n : Before(D[i], e),
           IsFiniteSet(Places(D))
    PROVE  /\ Ordered(E)
           /\ \A d : Before(d, e) /\ Ahead(d, D) => Ahead(d, E)
           /\ \A m : Upto(e, m) /\ Within(D, m) => Within(E, m)
           /\ IsFiniteSet(Places(E))
           /\ Cardinality(Places(E)) = Cardinality(Places(D)) + Len(e)
<1>0. /\ DOMAIN D = 1 .. n /\ DOMAIN E = 1 .. n /\ n \in 1 .. n
      /\ D[n] \in Seq(Inputs) /\ E[n] = D[n] \o e
      /\ \A i \in 1 .. n : i # n => E[i] = D[i]
  OBVIOUS
<1>1. /\ Rising(E[n])
      /\ \A c : Before(c, D[n]) /\ Before(c, e) => Before(c, E[n])
      /\ \A m : Upto(D[n], m) /\ Upto(e, m) => Upto(E[n], m)
  BY <1>0, ConcatOrder DEF Ordered
<1>2. ASSUME NEW i \in 1 .. n, NEW j \in 1 .. n, i < j PROVE Before(E[i], E[j])
  <2>1. i # n /\ E[i] = D[i] /\ Before(D[i], D[j])
    BY <1>0, <1>2 DEF Ordered
  <2>2. CASE j = n
    BY <1>1, <2>1, <2>2
  <2>3. CASE j # n
    BY <1>0, <2>1, <2>3
  <2> QED BY <2>2, <2>3
<1>3. Ordered(E)
  BY <1>0, <1>1, <1>2, Zenon DEF Ordered
<1>4. \A d : Before(d, e) /\ Ahead(d, D) => Ahead(d, E)
  BY <1>0, <1>1, Zenon DEF Ahead
<1>5. \A m : Upto(e, m) /\ Within(D, m) => Within(E, m)
  BY <1>0, <1>1, Zenon DEF Within
<1> DEFINE l == Len(D[n])
           k == Len(e)
<1>6. /\ l \in Nat /\ k \in Nat /\ DOMAIN D[n] = 1 .. l /\ DOMAIN E[n] = 1 .. (l + k)
      /\ DOMAIN D[n] \cap ((l + 1) .. (l + k)) = {}
  BY <1>0
<1> HIDE DEF l
<1>7. Gains(E, D, n, l, k)
  <2> HIDE DEF k
  <2>1. \A j : j \in DOMAIN E[n] <=> j \in DOMAIN D[n] \/ j \in (l + 1) .. (l + k)
    BY <1>6
  <2> QED BY <1>0, <1>6, <2>1, Zenon DEF Gains
<1>8. IsFiniteSet(Places(E)) /\ Cardinality(Places(E)) = Cardinality(Places(D)) + k
  BY <1>6, <1>7, PlacesGrow
<1> QED BY <1>3, <1>4, <1>5, <1>8

LEMMA AddLast ==
    ASSUME NEW n \in Nat, NEW D \in [1 .. n -> Seq(Inputs)],
           NEW E \in [1 .. (n + 1) -> Seq(Inputs)], NEW e \in Seq(Inputs),
           \A i \in 1 .. (n + 1) : E[i] = IF i = n + 1 THEN e ELSE D[i],
           Ordered(D), Rising(e), \A i \in 1 .. n : Before(D[i], e),
           IsFiniteSet(Places(D))
    PROVE  /\ Ordered(E)
           /\ \A d : Before(d, e) /\ Ahead(d, D) => Ahead(d, E)
           /\ \A m : Upto(e, m) /\ Within(D, m) => Within(E, m)
           /\ IsFiniteSet(Places(E))
           /\ Cardinality(Places(E)) = Cardinality(Places(D)) + Len(e)
<1>0. /\ DOMAIN D = 1 .. n /\ DOMAIN E = 1 .. (n + 1)
      /\ E[n + 1] = e /\ \A i \in 1 .. n : i \in DOMAIN E /\ E[i] = D[i]
      /\ \A i \in DOMAIN E : i = n + 1 \/ i \in 1 .. n
      /\ n + 1 \in DOMAIN E /\ n + 1 \notin DOMAIN D
  OBVIOUS
<1>2. \A i, j \in DOMAIN E : i < j => Before(E[i], E[j])
  BY <1>0 DEF Ordered
<1>3. Ordered(E)
  BY <1>0, <1>2 DEF Ordered
<1>4. \A d : Before(d, e) /\ Ahead(d, D) => Ahead(d, E)
  BY <1>0 DEF Ahead
<1>5. \A m : Upto(e, m) /\ Within(D, m) => Within(E, m)
  BY <1>0 DEF Within
<1> DEFINE k == Len(e)
<1>6. k \in Nat /\ DOMAIN e = (0 + 1) .. (0 + k)
  OBVIOUS
<1> HIDE DEF k
<1>7. Gains(E, D, n + 1, 0, k)
  BY <1>0, <1>6 DEF Gains
<1>8. IsFiniteSet(Places(E)) /\ Cardinality(Places(E)) = Cardinality(Places(D)) + k
  BY <1>0, <1>6, <1>7, PlacesGrow
<1> QED BY <1>3, <1>4, <1>5, <1>8 DEF k

(* Dropping the first item uncounts its bytes and keeps the order; the     *)
(* item is ahead of the rest.                                              *)
LEMMA DropFirst ==
    ASSUME NEW n \in Nat \ {0}, NEW D \in [1 .. n -> Seq(Inputs)],
           NEW E \in [1 .. (n - 1) -> Seq(Inputs)],
           \A i \in 1 .. (n - 1) : E[i] = D[i + 1],
           Ordered(D), IsFiniteSet(Places(D))
    PROVE  /\ Ordered(E) /\ Rising(D[1]) /\ Ahead(D[1], E)
           /\ \A d : Ahead(d, D) => Ahead(d, E) /\ Before(d, D[1])
           /\ \A m : Within(D, m) => Within(E, m) /\ Upto(D[1], m)
           /\ IsFiniteSet(Places(E))
           /\ Cardinality(Places(E)) = Cardinality(Places(D)) - Len(D[1])
           /\ Cardinality(Places(E)) \in Nat
<1>0. /\ DOMAIN D = 1 .. n /\ DOMAIN E = 1 .. (n - 1) /\ 1 \in 1 .. n
      /\ \A i \in DOMAIN E : i \in Nat /\ i + 1 \in DOMAIN D /\ 1 < i + 1
      /\ D[1] \in Seq(Inputs) /\ Len(D[1]) \in Nat
  OBVIOUS
<1>1. Ordered(E)
  BY <1>0 DEF Ordered
<1>2. Rising(D[1]) /\ Ahead(D[1], E)
  BY <1>0 DEF Ordered, Ahead
<1>3. \A d : Ahead(d, D) => Ahead(d, E) /\ Before(d, D[1])
  BY <1>0 DEF Ahead
<1>4. \A m : Within(D, m) => Within(E, m) /\ Upto(D[1], m)
  BY <1>0 DEF Within
<1> DEFINE F == [i \in 2 .. n |-> D[i]]
           k == Len(D[1])
<1>5. /\ IsFiniteSet(Places(F))
      /\ Cardinality(Places(D)) = Cardinality(Places(F)) + k
  <2>1. Places(F) \subseteq Places(D)
    <3>1. \A i \in DOMAIN F : i \in DOMAIN D /\ F[i] = D[i]
      BY <1>0
    <3> HIDE DEF F
    <3>2. ASSUME NEW p \in Places(F) PROVE p \in Places(D)
      <4>1. PICK i, j : p = <<i, j>>
        BY PlacesIff
      <4> QED BY <3>1, <4>1, PlacesIff, Zenon
    <3> QED BY <3>2
  <2>2. IsFiniteSet(Places(F))
    BY <2>1, FS_Subset
  <2>3. Gains(D, F, 1, 0, k)
    BY <1>0 DEF Gains
  <2> HIDE DEF F
  <2> QED BY <1>0, <2>2, <2>3, PlacesGrow
<1>6. IsFiniteSet(Places(E)) /\ Cardinality(Places(E)) = Cardinality(Places(F))
  <2> DEFINE h == [p \in Places(F) |-> <<p[1] - 1, p[2]>>]
  <2>0. /\ DOMAIN F = 2 .. n /\ \A i \in 2 .. n : i - 1 \in DOMAIN E /\ F[i] = E[i - 1]
        /\ \A i \in DOMAIN E : i + 1 \in 2 .. n /\ (i + 1) - 1 = i
    BY <1>0
  <2> HIDE DEF F
  <2>1. \A p \in Places(F) : p = <<p[1], p[2]>> /\ p[1] \in 2 .. n /\ p[2] \in DOMAIN F[p[1]]
    BY <2>0, PlacesIff
  <2>2. \A p \in Places(F) : h[p] = <<p[1] - 1, p[2]>> /\ h[p] \in Places(E)
    BY <2>0, <2>1, PlacesIff, Zenon
  <2>3. h \in [Places(F) -> Places(E)]
    BY <2>2
  <2>4. \A p, q \in Places(F) : h[p] = h[q] => p = q
    BY <2>1, <2>2
  <2>5. \A p \in Places(E) : \E q \in Places(F) : h[q] = p
    <3> SUFFICES ASSUME NEW p \in Places(E) PROVE \E q \in Places(F) : h[q] = p
      OBVIOUS
    <3>1. PICK i, j : p = <<i, j>> /\ i \in DOMAIN E /\ j \in DOMAIN E[i]
      BY PlacesIff
    <3>2. <<i + 1, j>> \in Places(F)
      BY <2>0, <3>1, PlacesIff, Zenon
    <3>3. h[<<i + 1, j>>] = <<i, j>>
      BY <2>0, <2>2, <3>1, <3>2
    <3> QED BY <3>1, <3>2, <3>3
  <2> HIDE DEF h
  <2>6. h \in Bijection(Places(F), Places(E))
    BY <2>3, <2>4, <2>5 DEF Bijection, Injection, Surjection, IsInjective
  <2>7. ExistsBijection(Places(F), Places(E))
    BY <2>6 DEF ExistsBijection
  <2> QED BY <1>5, <2>7, FS_Bijection
<1>7. Cardinality(Places(E)) \in Nat
  BY <1>6, FS_CardinalityType
<1>8. Cardinality(Places(E)) = Cardinality(Places(D)) - k
  BY <1>0, <1>5, <1>6, <1>7
<1> QED BY <1>1, <1>2, <1>3, <1>4, <1>6, <1>7, <1>8

LEMMA DataType ==
    ASSUME NEW q, q.items \in Seq(Items)
    PROVE  /\ Len(q.items) \in Nat
           /\ \A i \in 1 .. Len(q.items) : q.items[i] \in Items
           /\ DataOf(q) = [i \in 1 .. Len(q.items) |-> q.items[i].data]
           /\ DataOf(q) \in [1 .. Len(q.items) -> Seq(Inputs)]
<1>1. Len(q.items) \in Nat /\ \A i \in 1 .. Len(q.items) : q.items[i] \in Items
  OBVIOUS
<1>2. \A i \in 1 .. Len(q.items) : q.items[i].data \in Seq(Inputs)
  BY <1>1 DEF Items
<1> QED BY <1>1, <1>2 DEF DataOf

(* A queue stays counted and in order under push, and what was ahead of it *)
(* and before the action stays ahead of it.                                *)
LEMMA PushOK ==
    ASSUME NEW q \in Queues, NEW a, Action(a), QueueOK(q),
           \A i \in DOMAIN DataOf(q) : Before(DataOf(q)[i], a.data)
    PROVE  LET p == Push(q, a)
           IN  /\ p \in Queues /\ QueueOK(p)
               /\ \A d : Before(d, a.data) /\ Ahead(d, DataOf(q)) => Ahead(d, DataOf(p))
               /\ \A m : Upto(a.data, m) /\ Within(DataOf(q), m) => Within(DataOf(p), m)
<1> DEFINE p == Push(q, a)
           n == Len(q.items)
           D == DataOf(q)
           E == DataOf(p)
           e == a.data
<1>0. /\ n \in Nat /\ e \in Seq(Inputs) /\ Rising(e)
      /\ D \in [1 .. n -> Seq(Inputs)] /\ D = [i \in 1 .. n |-> q.items[i].data]
      /\ Ordered(D) /\ IsFiniteSet(Places(D)) /\ q.bytes = Cardinality(Places(D))
  <2>1. q.items \in Seq(Items)
    BY DEF Queues
  <2> QED BY <2>1, DataType DEF Action, QueueOK
<1>1. CASE Overflows(q, a)
  BY <1>1 DEF Push
<1>2. CASE ~Overflows(q, a) /\ a.kind = "kill"
  <2>1. p = [q EXCEPT !.kill = "yes"]
    BY <1>2 DEF Push
  <2>2. p.items = q.items /\ p.bytes = q.bytes /\ p \in Queues
    BY <2>1 DEF Queues
  <2>3. E = D
    BY <2>2 DEF DataOf
  <2>4. QueueOK(p)
    BY <2>2, <2>3 DEF QueueOK
  <2> QED BY <2>2, <2>3, <2>4
<1>3. CASE ~Overflows(q, a) /\ a.kind # "kill" /\ Joins(q, a)
  <2>1. /\ p \in Queues /\ p.bytes = q.bytes + Len(e)
        /\ n > 0 /\ Len(p.items) = n
        /\ \A i \in 1 .. n : p.items[i] =
                IF i = n THEN Grown(q.items[n], a) ELSE q.items[i]
    BY <1>3, PushItems
  <2>2. E = [i \in 1 .. n |-> p.items[i].data]
    BY <2>1 DEF DataOf
  <2>3. E \in [1 .. n -> Seq(Inputs)]
    BY <2>1, DataType DEF Queues
  <2>4. \A i \in 1 .. n : E[i] = IF i = n THEN D[n] \o e ELSE D[i]
    <3>1. \A i \in 1 .. n : E[i] = p.items[i].data /\ D[i] = q.items[i].data
      BY <1>0, <2>2
    <3>2. Grown(q.items[n], a).data = q.items[n].data \o e
      BY Zenon DEF Grown
    <3> HIDE DEF E, D, p, e
    <3> QED BY <1>0, <2>1, <3>1, <3>2, Zenon
  <2>5. \A i \in 1 .. n : Before(D[i], e)
    BY <1>0, Zenon
  <2> HIDE DEF D, E, e, n
  <2>6. /\ Ordered(E)
        /\ \A d : Before(d, e) /\ Ahead(d, D) => Ahead(d, E)
        /\ \A m : Upto(e, m) /\ Within(D, m) => Within(E, m)
        /\ IsFiniteSet(Places(E))
        /\ Cardinality(Places(E)) = Cardinality(Places(D)) + Len(e)
    <3>1. n \in Nat \ {0}
      BY <1>0, <2>1
    <3> QED BY <1>0, <3>1, <2>3, <2>4, <2>5, GrowLast, ZenonT(30)
  <2> QED BY <1>0, <2>1, <2>6 DEF D, E, e, QueueOK
<1>4. CASE ~Overflows(q, a) /\ a.kind # "kill" /\ ~Joins(q, a)
  <2>1. /\ p \in Queues /\ p.bytes = q.bytes + Len(e)
        /\ Len(p.items) = n + 1
        /\ \A i \in 1 .. (n + 1) : p.items[i] = IF i = n + 1 THEN a ELSE q.items[i]
    BY <1>4, PushItems
  <2>2. E = [i \in 1 .. (n + 1) |-> p.items[i].data]
    BY <2>1 DEF DataOf
  <2>3. E \in [1 .. (n + 1) -> Seq(Inputs)]
    BY <2>1, DataType DEF Queues
  <2>4. \A i \in 1 .. (n + 1) : E[i] = IF i = n + 1 THEN e ELSE D[i]
    BY <1>0, <2>1, <2>2
  <2>5. \A i \in 1 .. n : Before(D[i], e)
    BY <1>0, Zenon
  <2> HIDE DEF D, E, e, n
  <2>6. /\ Ordered(E)
        /\ \A d : Before(d, e) /\ Ahead(d, D) => Ahead(d, E)
        /\ \A m : Upto(e, m) /\ Within(D, m) => Within(E, m)
        /\ IsFiniteSet(Places(E))
        /\ Cardinality(Places(E)) = Cardinality(Places(D)) + Len(e)
    BY <1>0, <2>3, <2>4, <2>5, AddLast, Zenon
  <2> QED BY <1>0, <2>1, <2>6 DEF D, E, e, QueueOK
<1> QED BY <1>1, <1>2, <1>3, <1>4

(* Taking the next action leaves a counted queue in order behind it. *)
LEMMA TakeOK ==
    ASSUME NEW q \in Queues, QueueOK(q), HasNext(q)
    PROVE  LET p == TakeNext(q)
               a == NextAction(q)
           IN  /\ p \in Queues /\ QueueOK(p)
               /\ a \in [kind : {"input", "resize", "kill"}, data : Seq(Inputs)]
               /\ Rising(a.data) /\ Ahead(a.data, DataOf(p))
               /\ \A d : Ahead(d, DataOf(q)) => Ahead(d, DataOf(p)) /\ Before(d, a.data)
               /\ \A m : Within(DataOf(q), m) => Within(DataOf(p), m) /\ Upto(a.data, m)
<1> DEFINE p == TakeNext(q)
           n == Len(q.items)
           D == DataOf(q)
           E == DataOf(p)
           a == NextAction(q)
<1>0. /\ q.items \in Seq(Items) /\ n \in Nat
      /\ D \in [1 .. n -> Seq(Inputs)] /\ D = [i \in 1 .. n |-> q.items[i].data]
      /\ Ordered(D) /\ IsFiniteSet(Places(D)) /\ q.bytes = Cardinality(Places(D))
      /\ q.bytes \in 0 .. QueueCap
  <2>1. q.items \in Seq(Items) /\ q.bytes \in 0 .. QueueCap
    BY DEF Queues
  <2> QED BY <2>1, DataType DEF QueueOK
<1>1. CASE q.items = <<>>
  <2>1. p = [q EXCEPT !.kill = "no"] /\ a = Kill
    BY <1>1 DEF TakeNext, NextAction
  <2>2. p.items = q.items /\ p.bytes = q.bytes /\ p \in Queues
    BY <2>1 DEF Queues
  <2>3. E = D /\ a.data = <<>> /\ a \in [kind : {"input", "resize", "kill"}, data : Seq(Inputs)]
    BY <2>1, <2>2 DEF DataOf, Kill
  <2>4. QueueOK(p)
    BY <2>2, <2>3 DEF QueueOK
  <2>5. Rising(a.data) /\ Ahead(a.data, E) /\ (\A d : Before(d, a.data)) /\ (\A m : Upto(a.data, m))
    BY <2>3 DEF Rising, Ahead, Before, Upto
  <2> QED BY <2>2, <2>3, <2>4, <2>5
<1>2. CASE q.items # <<>>
  <2>1. /\ p = [q EXCEPT !.items = Tail(@), !.bytes = @ - Len(Head(q.items).data)]
        /\ a = Head(q.items)
    BY <1>2 DEF TakeNext, NextAction
  <2>2. /\ n > 0 /\ a = q.items[1] /\ a \in Items /\ a.data = D[1]
        /\ p.items = Tail(q.items) /\ p.bytes = q.bytes - Len(D[1]) /\ p.kill = q.kill
    BY <1>0, <1>2, <2>1 DEF Queues
  <2>3. /\ p.items \in Seq(Items) /\ Len(p.items) = n - 1
        /\ \A i \in 1 .. (n - 1) : p.items[i] = q.items[i + 1]
    BY <1>0, <2>2
  <2>4. E = [i \in 1 .. (n - 1) |-> p.items[i].data]
    BY <2>3 DEF DataOf
  <2>5. E \in [1 .. (n - 1) -> Seq(Inputs)]
    BY <2>3, DataType
  <2>6. \A i \in 1 .. (n - 1) : E[i] = D[i + 1]
    BY <1>0, <2>3, <2>4
  <2>7. n \in Nat \ {0}
    BY <1>0, <2>2
  <2>8. D[1] \in Seq(Inputs) /\ Len(D[1]) \in Nat
    BY <1>0, <2>7
  <2> HIDE DEF D, E, n
  <2>9. /\ Ordered(E) /\ Rising(D[1]) /\ Ahead(D[1], E)
        /\ \A d : Ahead(d, D) => Ahead(d, E) /\ Before(d, D[1])
        /\ \A m : Within(D, m) => Within(E, m) /\ Upto(D[1], m)
        /\ IsFiniteSet(Places(E))
        /\ Cardinality(Places(E)) = Cardinality(Places(D)) - Len(D[1])
        /\ Cardinality(Places(E)) \in Nat
    BY <1>0, <2>5, <2>6, <2>7, DropFirst, Zenon
  <2>10. p.bytes \in 0 .. QueueCap
    <3>1. p.bytes = Cardinality(Places(E)) /\ p.bytes = q.bytes - Len(D[1])
      BY <1>0, <2>2, <2>9
    <3>2. QueueCap \in Nat /\ q.bytes \in 0 .. QueueCap
      BY <1>0, AttachmentAssumption
    <3>3. p.bytes \in Nat
      BY <2>9, <3>1
    <3> QED BY <2>8, <3>1, <3>2, <3>3
  <2>11. p \in Queues
    BY <2>1, <2>2, <2>3, <2>10, Zenon DEF Queues
  <2>12. QueueOK(p)
    BY <1>0, <2>2, <2>9 DEF E, QueueOK
  <2>13. a \in [kind : {"input", "resize", "kill"}, data : Seq(Inputs)]
    BY <2>2 DEF Items
  <2> QED BY <2>2, <2>9, <2>11, <2>12, <2>13 DEF D, E
<1> QED BY <1>1, <1>2

LEMMA EmptyOK ==
    /\ EmptyQueue \in Queues /\ QueueOK(EmptyQueue)
    /\ \A d : Ahead(d, DataOf(EmptyQueue))
    /\ \A m : Within(DataOf(EmptyQueue), m)
<1>1. EmptyQueue.items = <<>> /\ EmptyQueue.bytes = 0 /\ EmptyQueue \in Queues
  BY AttachmentAssumption DEF EmptyQueue, Queues
<1>2. DOMAIN DataOf(EmptyQueue) = {}
  BY <1>1 DEF DataOf
<1>3. Places(DataOf(EmptyQueue)) = {}
  BY <1>2 DEF Places
<1>4. QueueOK(EmptyQueue)
  BY <1>1, <1>2, <1>3, FS_EmptySet DEF QueueOK, Ordered
<1> QED BY <1>1, <1>2, <1>4 DEF Ahead, Within

-----------------------------------------------------------------------------
(* One socket. *)

SocketType ==
    [at : {"new", "replay", "open", "closed"}, run : 0 .. MaxRun, token : Nat,
     cmd : Commands, queue : Queues, draining : {"no", "yes"}]

LEMMA NoCommandOK ==
    /\ NoCommand \in Commands /\ NoCommand.at = "none" /\ NoCommand.data = <<>>
    /\ \A D : Ahead(NoCommand.data, D)
<1>1. NoCommand \in Commands /\ NoCommand.at = "none" /\ NoCommand.data = <<>>
  BY AttachmentAssumption DEF NoCommand, Commands
<1> QED BY <1>1 DEF Ahead, Before

(* A command the socket submits. *)
LEMMA SpawnedOK ==
    ASSUME NEW s \in Sockets, run \in Runs, sock[s].run \in Runs, NEW d, NEW n, NEW a,
           a \in [kind : {"input", "resize", "kill"}, data : Seq(Inputs)],
           Rising(a.data), Before(d, a.data), Upto(a.data, n)
    PROVE  LET c == Spawned(s, a)
           IN  /\ c \in Commands /\ CommandOK(c, d, n) /\ c # NoCommand
               /\ c.sock = s /\ c.at = "spawned" /\ c.data = a.data
<1> DEFINE c == Spawned(s, a)
<1>1. /\ c.at = "spawned" /\ c.kind = a.kind /\ c.data = a.data /\ c.from = sock[s].run
      /\ c.sock = s /\ c.to = IF a.kind = "input" /\ run = sock[s].run THEN run ELSE 0
      /\ c = [at |-> c.at, kind |-> c.kind, data |-> c.data, from |-> c.from,
              to |-> c.to, sock |-> c.sock]
  BY DEF Spawned
<1>2. c \in Commands
  <2>1. c.from \in 0 .. MaxRun /\ c.to \in 0 .. MaxRun
    BY <1>1, AttachmentAssumption DEF Runs
  <2> HIDE DEF c
  <2> QED BY <1>1, <2>1 DEF Commands
<1>3. CommandOK(c, d, n)
  <2> HIDE DEF c
  <2> QED BY <1>1 DEF CommandOK
<1>4. c # NoCommand
  BY <1>1, NoCommandOK
<1> QED BY <1>1, <1>2, <1>3, <1>4

(* An action that may go out behind what was delivered, and its command. *)
Sendable(a, d, n) ==
    /\ a \in [kind : {"input", "resize", "kill"}, data : Seq(Inputs)]
    /\ Rising(a.data) /\ Before(d, a.data) /\ Upto(a.data, n)

LEMMA SendableOK ==
    ASSUME NEW s \in Sockets, run \in Runs, sock[s].run \in Runs, NEW d, NEW n, NEW a,
           Sendable(a, d, n), NEW b, b = Spawned(s, a)
    PROVE  /\ b \in Commands /\ CommandOK(b, d, n) /\ b # NoCommand
           /\ b.sock = s /\ b.at = "spawned" /\ b.data = a.data
  BY SpawnedOK DEF Sendable

(* A later input leaves what is bounded by an earlier one bounded. *)
LEMMA UptoMono ==
    ASSUME NEW n \in Nat, NEW m \in Nat, n <= m
    PROVE  /\ \A d \in Seq(Inputs) : Upto(d, n) => Upto(d, m)
           /\ \A q \in Queues : Within(DataOf(q), n) => Within(DataOf(q), m)
<1>1. ASSUME NEW d \in Seq(Inputs), Upto(d, n) PROVE Upto(d, m)
  <2>1. \A i \in DOMAIN d : d[i] \in Nat
    <3>1. d \in [1 .. Len(d) -> Inputs]
      OBVIOUS
    <3> QED BY <3>1, InputsAreNumbers, Zenon
  <2> QED BY <1>1, <2>1 DEF Upto
<1>2. ASSUME NEW q \in Queues, Within(DataOf(q), n) PROVE Within(DataOf(q), m)
  <2>1. DataOf(q) \in [1 .. Len(q.items) -> Seq(Inputs)]
    BY DataType DEF Queues
  <2> HIDE DEF Queues
  <2> QED BY <1>1, <1>2, <2>1 DEF Within
<1> QED BY <1>1, <1>2

LEMMA SocketMono ==
    ASSUME NEW n \in Nat, NEW m \in Nat, n <= m,
           NEW s, NEW k \in SocketType, NEW d, SocketOK(s, k, d, n)
    PROVE  SocketOK(s, k, d, m)
<1>1. k.cmd.data \in Seq(Inputs) /\ k.queue \in Queues
  BY DEF SocketType, Commands
<1>2. /\ Upto(k.cmd.data, n) => Upto(k.cmd.data, m)
      /\ Within(DataOf(k.queue), n) => Within(DataOf(k.queue), m)
  BY <1>1, UptoMono
<1>3. CommandOK(k.cmd, d, n) => CommandOK(k.cmd, d, m)
  BY <1>2 DEF CommandOK
<1> QED BY <1>2, <1>3 DEF SocketOK

(* The socket s becomes k, more may have been typed, and what it has       *)
(* delivered is in order; what other sockets have delivered stays.         *)
StepOf(s, k) ==
    /\ sock' = [sock EXCEPT ![s] = k]
    /\ typed' \in Nat /\ typed <= typed'
    /\ \A t \in Sockets : t # s => delivered'[t] = delivered[t]
    /\ Rising(delivered'[s]) /\ Upto(delivered'[s], typed')

(* A step of the socket s, which was not closed, keeps sockets and         *)
(* detached commands in order.                                             *)
LEMMA SocketStepOK ==
    ASSUME TypeOK, SocketsOK, DetachedOK,
           NEW s \in Sockets, NEW k \in SocketType, StepOf(s, k),
           sock[s].at # "closed",
           SocketOK(s, k, delivered'[s], typed'),
           \A c \in detached' \ detached :
                /\ c = sock[s].cmd /\ c # NoCommand
                /\ k.at = "closed" /\ delivered'[s] = delivered[s]
    PROVE  /\ sock' \in [Sockets -> SocketType] /\ detached' \subseteq Commands
           /\ SocketsOK' /\ DetachedOK'
<1>0. /\ sock \in [Sockets -> SocketType] /\ detached \subseteq Commands
      /\ typed \in Nat /\ delivered \in [Sockets -> Seq(Inputs)]
  BY AttachmentAssumption DEF TypeOK, SocketType
<1>1. sock' \in [Sockets -> SocketType] /\ sock'[s] = k
      /\ \A t \in Sockets : t # s => sock'[t] = sock[t]
  BY <1>0 DEF StepOf
<1>2. SocketsOK'
  <2> SUFFICES ASSUME NEW t \in Sockets
               PROVE  /\ SocketOK(t, sock'[t], delivered'[t], typed')
                      /\ Rising(delivered'[t]) /\ Upto(delivered'[t], typed')
    BY DEF SocketsOK
  <2>1. CASE t = s
    BY <1>1, <2>1 DEF StepOf
  <2>2. CASE t # s
    <3>1. /\ sock'[t] = sock[t] /\ delivered'[t] = delivered[t] /\ sock[t] \in SocketType
          /\ SocketOK(t, sock[t], delivered[t], typed)
          /\ Rising(delivered[t]) /\ Upto(delivered[t], typed)
          /\ delivered[t] \in Seq(Inputs)
      BY <1>0, <1>1, <2>2 DEF StepOf, SocketsOK
    <3>2. SocketOK(t, sock[t], delivered[t], typed') /\ Upto(delivered[t], typed')
      BY <1>0, <3>1, SocketMono, UptoMono DEF StepOf
    <3> QED BY <3>1, <3>2
  <2> QED BY <2>1, <2>2
<1>3. ASSUME NEW c \in detached, c \in detached'
      PROVE  /\ CommandOK(c, delivered'[c.sock], typed') /\ sock'[c.sock].at = "closed"
             /\ c.sock # s
  <2>1. /\ CommandOK(c, delivered[c.sock], typed) /\ sock[c.sock].at = "closed"
        /\ c.sock \in Sockets /\ c.sock # s
    BY DEF DetachedOK, CommandOK
  <2>2. c.data \in Seq(Inputs)
    BY <1>0 DEF Commands
  <2>3. Upto(c.data, typed')
    BY <1>0, <2>1, <2>2, UptoMono DEF StepOf, CommandOK
  <2>4. CommandOK(c, delivered[c.sock], typed')
    BY <2>1, <2>3 DEF CommandOK
  <2> QED BY <1>1, <2>1, <2>4 DEF StepOf
<1>4. ASSUME NEW c \in detached', c \notin detached
      PROVE  /\ CommandOK(c, delivered'[c.sock], typed') /\ sock'[c.sock].at = "closed"
             /\ c.sock = s /\ c = sock[s].cmd /\ c \in Commands
  <2>1. /\ c = sock[s].cmd /\ c # NoCommand /\ k.at = "closed" /\ delivered'[s] = delivered[s]
    BY <1>4
  <2>2. CommandOK(c, delivered[s], typed) /\ c.sock = s /\ c \in Commands
    BY <1>0, <2>1 DEF SocketsOK, SocketOK, SocketType
  <2>3. Upto(c.data, typed')
    BY <1>0, <2>2, UptoMono DEF StepOf, CommandOK, Commands
  <2>4. CommandOK(c, delivered[s], typed')
    BY <2>2, <2>3 DEF CommandOK
  <2> QED BY <1>1, <2>1, <2>2, <2>4
<1>5. detached' \subseteq Commands
  BY <1>0, <1>4
<1>6. \A c \in detached' : CommandOK(c, delivered'[c.sock], typed') /\ sock'[c.sock].at = "closed"
  BY <1>3, <1>4
<1>7. ASSUME NEW c \in detached', NEW d \in detached', c.sock = d.sock PROVE c = d
  <2>1. CASE c \in detached /\ d \in detached
    BY <1>7, <2>1 DEF DetachedOK
  <2>2. CASE c \notin detached \/ d \notin detached
    BY <1>3, <1>4, <1>7, <2>2
  <2> QED BY <2>1, <2>2
<1>8. DetachedOK'
  BY <1>6, <1>7 DEF DetachedOK
<1> QED BY <1>1, <1>2, <1>5, <1>8

(* A step that touches neither sockets nor what they have typed, delivered *)
(* or left behind.                                                         *)
LEMMA FrameOK ==
    ASSUME SocketsOK, DetachedOK, UNCHANGED <<sock, detached, typed, delivered>>
    PROVE  SocketsOK' /\ DetachedOK'
  BY DEF SocketsOK, DetachedOK

-----------------------------------------------------------------------------
(* The claim. *)

(* Sockets keep their claims, and nothing else about the claim changes. *)
LEMMA ClaimKept ==
    ASSUME HeldBySocket, FirstRunOK, held' = held, run' = run,
           phase' = phase \/ phase' \in {"ending", "ended"} \/ phase \notin {"ending", "ended"},
           \A s \in Sockets : /\ Attached(s)' <=> Attached(s)
                              /\ sock'[s].run = sock[s].run /\ sock'[s].token = sock[s].token
    PROVE  HeldBySocket' /\ FirstRunOK'
<1>1. HeldBySocket'
  BY DEF HeldBySocket
<1>2. FirstRunOK'
  BY DEF FirstRunOK, SingleAttachment
<1> QED BY <1>1, <1>2

(* The socket s closes and releases its token. *)
LEMMA ClaimReleased ==
    ASSUME HeldBySocket, FirstRunOK, NEW s \in Sockets, Attached(s),
           held' = Released(sock[s].token), run' = run, phase' = phase,
           sock'[s].at = "closed",
           \A t \in Sockets : t # s => sock'[t] = sock[t]
    PROVE  HeldBySocket' /\ FirstRunOK'
<1>1. HeldBySocket'
  <2> SUFFICES ASSUME held' # 0
               PROVE  \E t \in Sockets : Attached(t)' /\ sock'[t].run = run' /\ sock'[t].token = held'
    BY DEF HeldBySocket
  <2>1. held' = held /\ held # sock[s].token
    BY DEF Released
  <2>2. PICK t \in Sockets : Attached(t) /\ sock[t].run = run /\ sock[t].token = held
    BY <2>1 DEF HeldBySocket
  <2>3. t # s /\ sock'[t] = sock[t]
    BY <2>1, <2>2
  <2> QED BY <2>1, <2>2, <2>3 DEF Attached
<1>2. FirstRunOK'
  <2> SUFFICES ASSUME run = 1, NEW t \in Sockets, Attached(t)' PROVE FALSE
    BY DEF FirstRunOK, SingleAttachment
  <2>1. t # s
    BY DEF Attached
  <2>2. Attached(t)
    BY <2>1 DEF Attached
  <2> QED BY <2>1, <2>2 DEF FirstRunOK, SingleAttachment
<1> QED BY <1>1, <1>2

-----------------------------------------------------------------------------
(* The steps of a socket. *)

LEMMA InvType ==
    ASSUME IInv
    PROVE  /\ sock \in [Sockets -> SocketType] /\ detached \subseteq Commands
           /\ run \in Runs /\ typed \in Nat /\ counter \in Nat /\ held \in 0 .. counter
           /\ delivered \in [Sockets -> Seq(Inputs)]
           /\ \A s \in Sockets : /\ sock[s] \in SocketType
                                 /\ SocketOK(s, sock[s], delivered[s], typed)
                                 /\ Rising(delivered[s]) /\ Upto(delivered[s], typed)
  BY AttachmentAssumption DEF IInv, TypeOK, SocketType, SocketsOK

LEMMA ReleasedType ==
    ASSUME NEW token, counter \in Nat, held \in 0 .. counter
    PROVE  Released(token) \in 0 .. counter
  BY DEF Released

(* A socket with the same work in another place of its life. *)
LEMMA SameWork ==
    ASSUME NEW s, NEW j, NEW k, NEW d, NEW n, SocketOK(s, j, d, n),
           k.cmd = j.cmd, k.queue = j.queue,
           k.at \in {"replay", "open"} => k.run \in Runs /\ k.token > 0,
           k.at # "open" => k.cmd = NoCommand
    PROVE  SocketOK(s, k, d, n)
  BY DEF SocketOK

(* A socket without work. *)
LEMMA IdleOK ==
    ASSUME NEW s, NEW k, NEW d, NEW n, k.cmd = NoCommand, k.queue = EmptyQueue,
           k.at \in {"replay", "open"} => k.run \in Runs /\ k.token > 0
    PROVE  SocketOK(s, k, d, n)
<1>1. EmptyQueue.items = <<>>
  BY DEF EmptyQueue
<1> QED BY <1>1, EmptyOK, NoCommandOK DEF SocketOK

LEMMA ClaimInv ==
    ASSUME IInv, NEW s \in Sockets, Claim(s)
    PROVE  IInv'
<1> DEFINE k == IF Claimable
                THEN [sock[s] EXCEPT !.at = "replay", !.run = run, !.token = counter + 1]
                ELSE [sock[s] EXCEPT !.at = "closed"]
<1>0. /\ sock[s] \in SocketType /\ sock[s].at = "new" /\ sock' = [sock EXCEPT ![s] = k]
      /\ counter \in Nat /\ run \in Runs /\ run \in 0 .. MaxRun
      /\ UNCHANGED <<run, phase, driver, detached, typed, others, delivered, effects>>
      /\ SocketOK(s, sock[s], delivered[s], typed)
  BY InvType, AttachmentAssumption DEF Claim, Runs
<1>1. /\ k \in SocketType /\ k.cmd = sock[s].cmd /\ k.queue = sock[s].queue
      /\ Claimable => k.at = "replay" /\ k.run = run /\ k.token = counter + 1
      /\ ~Claimable => k.at = "closed"
  <2>1. CASE Claimable
    <3>1. k = [sock[s] EXCEPT !.at = "replay", !.run = run, !.token = counter + 1]
      BY <2>1
    <3>2. counter + 1 \in Nat
      BY <1>0
    <3> HIDE DEF k
    <3> QED BY <1>0, <2>1, <3>1, <3>2, Zenon DEF SocketType
  <2>2. CASE ~Claimable
    BY <1>0, <2>2 DEF SocketType
  <2> QED BY <2>1, <2>2
<1> HIDE DEF k
<1>2. SocketOK(s, k, delivered[s], typed)
  <2>1. sock[s].cmd = NoCommand
    BY <1>0 DEF SocketOK
  <2>2. k.at \in {"replay", "open"} => k.run \in Runs /\ k.token > 0
    BY <1>0, <1>1
  <2> QED BY <1>0, <1>1, <2>1, <2>2, SameWork
<1>3. StepOf(s, k)
  BY <1>0, InvType DEF StepOf
<1>4. /\ sock' \in [Sockets -> SocketType] /\ detached' \subseteq Commands
      /\ SocketsOK' /\ DetachedOK'
  BY <1>0, <1>1, <1>2, <1>3, SocketStepOK DEF IInv
<1>5. sock'[s] = k /\ \A t \in Sockets : t # s => sock'[t] = sock[t]
  BY <1>0, InvType
<1>6. TypeOK'
  <2>1. counter' \in Nat /\ held' \in 0 .. counter'
    BY InvType DEF Claim
  <2> QED BY <1>0, <1>4, <2>1 DEF TypeOK, IInv, SocketType
<1>7. HeldBySocket' /\ FirstRunOK'
  <2>1. CASE Claimable
    <3>1. /\ held = 0 /\ phase \notin {"ending", "ended"} /\ held' = counter + 1
          /\ Attached(s)' /\ sock'[s].run = run /\ sock'[s].token = held'
      BY <1>1, <1>5, <2>1 DEF Claimable, Claim, Attached
    <3>2. HeldBySocket'
      BY <1>0, <3>1 DEF HeldBySocket
    <3>3. ASSUME run = 1, NEW t \in Sockets, t # s PROVE ~Attached(t)'
      <4>1. Attached(t) => sock[t].token = 0 /\ sock[t].token > 0
        BY <3>1, <3>3, InvType DEF IInv, FirstRunOK, SocketOK, Attached
      <4> QED BY <1>5, <3>3, <4>1, InvType, SMTT(20) DEF Attached, SocketType
    <3>4. FirstRunOK'
      BY <1>0, <3>1, <3>3 DEF FirstRunOK, SingleAttachment
    <3> QED BY <3>2, <3>4
  <2>2. CASE ~Claimable
    <3>1. held' = held /\ Attached(s)' = FALSE /\ Attached(s) = FALSE
      BY <1>0, <1>1, <1>5, <2>2 DEF Claim, Attached
    <3>2. HeldBySocket'
      <4>1. \A t \in Sockets : Attached(t) => t # s /\ Attached(t)' /\ sock'[t] = sock[t]
        BY <1>5, <3>1 DEF Attached
      <4> QED BY <1>0, <3>1, <4>1 DEF HeldBySocket, IInv
    <3>3. FirstRunOK'
      <4>1. \A t \in Sockets : Attached(t)' => t # s /\ Attached(t) /\ sock'[t] = sock[t]
        BY <1>5, <3>1 DEF Attached
      <4> QED BY <1>0, <3>1, <4>1 DEF FirstRunOK, SingleAttachment, IInv
    <3> QED BY <3>2, <3>3
  <2> QED BY <2>1, <2>2
<1>8. CommandsStayHome'
  BY <1>0 DEF IInv, CommandsStayHome
<1> QED BY <1>4, <1>6, <1>7, <1>8 DEF IInv

LEMMA ReplaySentInv ==
    ASSUME IInv, NEW s \in Sockets, ReplaySent(s)
    PROVE  IInv'
<1> DEFINE k == [sock[s] EXCEPT !.at = "open"]
<1>0. /\ sock[s] \in SocketType /\ sock[s].at = "replay" /\ sock' = [sock EXCEPT ![s] = k]
      /\ UNCHANGED <<run, phase, driver, counter, held, detached, typed, others,
                     delivered, effects>>
      /\ SocketOK(s, sock[s], delivered[s], typed)
  BY InvType DEF ReplaySent
<1>1. /\ k \in SocketType /\ k.cmd = sock[s].cmd /\ k.queue = sock[s].queue
      /\ k.at = "open" /\ k.run = sock[s].run /\ k.token = sock[s].token
  BY <1>0 DEF SocketType
<1> HIDE DEF k
<1>2. SocketOK(s, k, delivered[s], typed)
  BY <1>0, <1>1, SameWork, Zenon DEF SocketOK
<1>3. StepOf(s, k)
  BY <1>0, InvType DEF StepOf
<1>4. /\ sock' \in [Sockets -> SocketType] /\ detached' \subseteq Commands
      /\ SocketsOK' /\ DetachedOK'
  BY <1>0, <1>1, <1>2, <1>3, SocketStepOK DEF IInv
<1>5. sock'[s] = k /\ \A t \in Sockets : t # s => sock'[t] = sock[t]
  BY <1>0, InvType
<1>6. TypeOK'
  BY <1>0, <1>4 DEF TypeOK, IInv, SocketType
<1>7. HeldBySocket' /\ FirstRunOK'
  <2>1. \A t \in Sockets : /\ Attached(t)' <=> Attached(t)
                           /\ sock'[t].run = sock[t].run /\ sock'[t].token = sock[t].token
    BY <1>0, <1>1, <1>5 DEF Attached
  <2> QED BY <1>0, <2>1, ClaimKept DEF IInv
<1>8. CommandsStayHome'
  BY <1>0 DEF IInv, CommandsStayHome
<1> QED BY <1>4, <1>6, <1>7, <1>8 DEF IInv

(* A socket closes, drops its queue and releases its claim; its command in *)
(* flight, if it is to go on, is left behind.                              *)
LEMMA LeaveInv ==
    ASSUME IInv, NEW s \in Sockets, Attached(s),
           sock' = [sock EXCEPT ![s] = [@ EXCEPT !.at = "closed", !.cmd = NoCommand,
                                        !.queue = EmptyQueue]],
           held' = Released(sock[s].token),
           detached' \subseteq detached \cup ({sock[s].cmd} \ {NoCommand}),
           UNCHANGED <<run, phase, counter, typed, delivered>>
    PROVE  /\ sock' \in [Sockets -> SocketType] /\ detached' \subseteq Commands
           /\ held' \in 0 .. counter'
           /\ SocketsOK' /\ DetachedOK' /\ HeldBySocket' /\ FirstRunOK'
<1> DEFINE k == [sock[s] EXCEPT !.at = "closed", !.cmd = NoCommand, !.queue = EmptyQueue]
<1>0. /\ sock[s] \in SocketType /\ sock' = [sock EXCEPT ![s] = k]
      /\ typed' = typed /\ delivered' = delivered
  BY InvType
<1>1. /\ k \in SocketType /\ k.cmd = NoCommand /\ k.queue = EmptyQueue /\ k.at = "closed"
  BY <1>0, NoCommandOK, EmptyOK, Zenon DEF SocketType
<1> HIDE DEF k
<1>2. SocketOK(s, k, delivered[s], typed)
  BY <1>1, IdleOK
<1>3. StepOf(s, k)
  <2>1. typed \in Nat /\ Rising(delivered[s]) /\ Upto(delivered[s], typed)
    BY InvType
  <2>2. typed' \in Nat /\ typed <= typed' /\ Rising(delivered'[s]) /\ Upto(delivered'[s], typed')
    BY <1>0, <2>1
  <2> QED BY <1>0, <2>2, Zenon DEF StepOf
<1>4. /\ sock' \in [Sockets -> SocketType] /\ detached' \subseteq Commands
      /\ SocketsOK' /\ DetachedOK'
  <2>1. sock[s].at # "closed"
    BY DEF Attached
  <2> QED BY <1>1, <1>2, <1>3, <2>1, SocketStepOK DEF IInv
<1>5. sock'[s] = k /\ \A t \in Sockets : t # s => sock'[t] = sock[t]
  BY <1>0, InvType
<1>6. HeldBySocket' /\ FirstRunOK'
  BY <1>1, <1>5, ClaimReleased DEF IInv
<1>7. held' \in 0 .. counter'
  BY InvType, ReleasedType
<1> QED BY <1>4, <1>6, <1>7

LEMMA ReplayFailsInv ==
    ASSUME IInv, NEW s \in Sockets, ReplayFails(s)
    PROVE  IInv'
<1> DEFINE k == [sock[s] EXCEPT !.at = "closed"]
<1>0. /\ sock[s] \in SocketType /\ sock[s].at = "replay" /\ sock' = [sock EXCEPT ![s] = k]
      /\ held' = Released(sock[s].token)
      /\ UNCHANGED <<run, phase, driver, counter, detached, typed, others,
                     delivered, effects>>
      /\ SocketOK(s, sock[s], delivered[s], typed)
  BY InvType DEF ReplayFails
<1>1. /\ k \in SocketType /\ k.cmd = sock[s].cmd /\ k.queue = sock[s].queue
      /\ k.at = "closed"
  BY <1>0 DEF SocketType
<1> HIDE DEF k
<1>2. SocketOK(s, k, delivered[s], typed)
  BY <1>0, <1>1, SameWork, Zenon DEF SocketOK
<1>3. StepOf(s, k)
  BY <1>0, InvType DEF StepOf
<1>4. /\ sock' \in [Sockets -> SocketType] /\ detached' \subseteq Commands
      /\ SocketsOK' /\ DetachedOK'
  BY <1>0, <1>1, <1>2, <1>3, SocketStepOK DEF IInv
<1>5. sock'[s] = k /\ \A t \in Sockets : t # s => sock'[t] = sock[t]
  BY <1>0, InvType
<1>6. TypeOK'
  <2>1. held' \in 0 .. counter'
    BY <1>0, InvType, ReleasedType
  <2> QED BY <1>0, <1>4, <2>1 DEF TypeOK, IInv, SocketType
<1>7. HeldBySocket' /\ FirstRunOK'
  BY <1>0, <1>1, <1>5, ClaimReleased DEF IInv, Attached
<1>8. CommandsStayHome'
  BY <1>0 DEF IInv, CommandsStayHome
<1> QED BY <1>4, <1>6, <1>7, <1>8 DEF IInv

LEMMA SocketGoesInv ==
    ASSUME IInv, NEW s \in Sockets, SocketCloses(s) \/ RuntimeEventEnds(s)
    PROVE  IInv'
<1>0. /\ sock[s].at = "open" /\ Leave(s)
      /\ UNCHANGED <<run, phase, driver, counter, typed, others, delivered, effects>>
  BY DEF SocketCloses, RuntimeEventEnds
<1>1. /\ sock' \in [Sockets -> SocketType] /\ detached' \subseteq Commands
      /\ held' \in 0 .. counter'
      /\ SocketsOK' /\ DetachedOK' /\ HeldBySocket' /\ FirstRunOK'
  BY <1>0, LeaveInv, Zenon DEF Leave, Attached
<1>2. TypeOK'
  BY <1>0, <1>1 DEF TypeOK, IInv, SocketType
<1>3. CommandsStayHome'
  BY <1>0 DEF IInv, CommandsStayHome
<1> QED BY <1>1, <1>2, <1>3 DEF IInv

(* A message of the client; what it types is newer than all that was typed *)
(* before.                                                                 *)
LEMMA ReceiveInv ==
    ASSUME IInv, NEW s \in Sockets, NEW a, Action(a), Receive(s, a),
           typed' \in typed .. MaxInput, others' \in 0 .. MaxOther,
           \A i \in DOMAIN a.data : typed < a.data[i] /\ a.data[i] <= typed'
    PROVE  IInv'
<1> DEFINE c == sock[s].cmd
           q == sock[s].queue
           d == delivered[s]
           k == IF c.at = "none" THEN [sock[s] EXCEPT !.cmd = Spawned(s, a)]
                                 ELSE [sock[s] EXCEPT !.queue = Push(q, a)]
<1>0. /\ sock[s] \in SocketType /\ sock[s].at = "open" /\ sock' = [sock EXCEPT ![s] = k]
      /\ UNCHANGED <<run, phase, driver, counter, held, detached, delivered, effects>>
      /\ SocketOK(s, sock[s], d, typed) /\ Rising(d) /\ Upto(d, typed)
      /\ run \in Runs /\ typed \in Nat /\ typed' \in Nat /\ typed <= typed'
      /\ sock[s].run \in Runs /\ sock[s].token > 0
  <2>1. /\ sock[s] \in SocketType /\ SocketOK(s, sock[s], d, typed) /\ Rising(d) /\ Upto(d, typed)
        /\ run \in Runs /\ typed \in Nat
    BY InvType
  <2>2. /\ sock[s].at = "open" /\ sock' = [sock EXCEPT ![s] = k]
        /\ UNCHANGED <<run, phase, driver, counter, held, detached, delivered, effects>>
    BY Zenon DEF Receive
  <2>3. typed' \in Nat /\ typed <= typed'
    BY <2>1, AttachmentAssumption
  <2>4. sock[s].run \in Runs /\ sock[s].token > 0
    BY <2>1, <2>2 DEF SocketOK
  <2> QED BY <2>1, <2>2, <2>3, <2>4
<1>1. /\ c \in Commands /\ c.data \in Seq(Inputs) /\ q \in Queues /\ d \in Seq(Inputs)
      /\ a.data \in Seq(Inputs) /\ Rising(a.data) /\ Upto(a.data, typed')
      /\ a \in [kind : {"input", "resize", "kill"}, data : Seq(Inputs)]
  BY <1>0, InvType DEF SocketType, Commands, Action, Upto
<1>2. \A e \in Seq(Inputs) : Upto(e, typed) => Before(e, a.data)
  <2> SUFFICES ASSUME NEW e \in Seq(Inputs), Upto(e, typed),
                      NEW i \in DOMAIN e, NEW j \in DOMAIN a.data
               PROVE  e[i] < a.data[j]
    BY DEF Before
  <2>1. e[i] \in Nat /\ a.data[j] \in Nat
    <3>1. e \in [1 .. Len(e) -> Inputs] /\ a.data \in [1 .. Len(a.data) -> Inputs]
      BY <1>1
    <3> QED BY <3>1, InputsAreNumbers, Zenon
  <2> QED BY <1>0, <2>1 DEF Upto
<1>3. Before(d, a.data)
  BY <1>0, <1>1, <1>2
<1>4. k \in SocketType /\ SocketOK(s, k, d, typed')
  <2>1. CASE c.at = "none"
    <3> DEFINE b == Spawned(s, a)
    <3>1. /\ b \in Commands /\ CommandOK(b, d, typed') /\ b # NoCommand
          /\ b.sock = s /\ b.at = "spawned" /\ b.data = a.data
      <4>1. /\ run \in Runs /\ sock[s].run \in Runs
            /\ a \in [kind : {"input", "resize", "kill"}, data : Seq(Inputs)]
            /\ Rising(a.data) /\ Before(d, a.data) /\ Upto(a.data, typed')
        BY <1>0, <1>1, <1>3
      <4> HIDE DEF d
      <4> QED BY <4>1, SpawnedOK, SMTT(20)
    <3> HIDE DEF b
    <3>2. k = [sock[s] EXCEPT !.cmd = b]
      BY <2>1 DEF b
    <3> HIDE DEF k
    <3>3. /\ k \in SocketType /\ k.cmd = b /\ k.queue = q /\ k.at = "open"
          /\ k.run = sock[s].run /\ k.token = sock[s].token
      BY <1>0, <3>1, <3>2 DEF SocketType
    <3>4. q.items = <<>> /\ QueueOK(q)
      BY <1>0, <2>1, Zenon DEF SocketOK
    <3>5. DOMAIN DataOf(q) = {}
      BY <3>4 DEF DataOf
    <3>6. Ahead(d, DataOf(q)) /\ Ahead(b.data, DataOf(q)) /\ Within(DataOf(q), typed')
      BY <3>5 DEF Ahead, Within
    <3> QED BY <1>0, <3>1, <3>3, <3>4, <3>6, Zenon DEF SocketOK
  <2>2. CASE c.at # "none"
    <3> DEFINE p == Push(q, a)
    <3>1. /\ QueueOK(q) /\ Ahead(d, DataOf(q)) /\ Ahead(c.data, DataOf(q))
          /\ Within(DataOf(q), typed) /\ c # NoCommand /\ c.sock = s
          /\ CommandOK(c, d, typed)
      BY <1>0, <2>2, NoCommandOK DEF SocketOK
    <3>2. /\ DataOf(q) \in [1 .. Len(q.items) -> Seq(Inputs)]
      BY <1>1, DataType DEF Queues
    <3>3. \A i \in DOMAIN DataOf(q) : Before(DataOf(q)[i], a.data)
      BY <1>2, <3>1, <3>2 DEF Within
    <3>4. Within(DataOf(q), typed') /\ Upto(c.data, typed')
      BY <1>0, <1>1, <3>1, UptoMono DEF CommandOK
    <3>5. Before(c.data, a.data)
      BY <1>1, <1>2, <3>1, Zenon DEF CommandOK
    <3>6. /\ p \in Queues /\ QueueOK(p)
          /\ Ahead(d, DataOf(p)) /\ Ahead(c.data, DataOf(p)) /\ Within(DataOf(p), typed')
      BY <1>1, <1>3, <3>1, <3>3, <3>4, <3>5, PushOK, Zenon
    <3> HIDE DEF p
    <3>7. k = [sock[s] EXCEPT !.queue = p]
      BY <2>2 DEF p
    <3> HIDE DEF k
    <3>8. /\ k \in SocketType /\ k.cmd = c /\ k.queue = p /\ k.at = "open"
          /\ k.run = sock[s].run /\ k.token = sock[s].token
      BY <1>0, <3>6, <3>7 DEF SocketType
    <3>9. CommandOK(c, d, typed')
      BY <3>1, <3>4, Zenon DEF CommandOK
    <3> QED BY <1>0, <2>2, <3>1, <3>6, <3>8, <3>9, Zenon DEF SocketOK
  <2> QED BY <2>1, <2>2
<1>5. k.at = "open" /\ k.run = sock[s].run /\ k.token = sock[s].token
  <2>1. CASE c.at = "none"
    BY <1>0, <2>1 DEF SocketType
  <2>2. CASE c.at # "none"
    BY <1>0, <2>2 DEF SocketType
  <2> QED BY <2>1, <2>2
<1> HIDE DEF k
<1>6. StepOf(s, k)
  <2>1. Upto(d, typed')
    BY <1>0, <1>1, UptoMono
  <2> QED BY <1>0, <2>1 DEF StepOf
<1>7. /\ sock' \in [Sockets -> SocketType] /\ detached' \subseteq Commands
      /\ SocketsOK' /\ DetachedOK'
  BY <1>0, <1>4, <1>6, SocketStepOK DEF IInv
<1>8. sock'[s] = k /\ \A t \in Sockets : t # s => sock'[t] = sock[t]
  BY <1>0, InvType
<1>9. TypeOK'
  <2>1. typed' \in 0 .. MaxInput
    BY <1>0, AttachmentAssumption, SMTT(20)
  <2> QED BY <1>0, <1>7, <2>1 DEF TypeOK, IInv, SocketType
<1>10. HeldBySocket' /\ FirstRunOK'
  <2>1. \A t \in Sockets : /\ Attached(t)' <=> Attached(t)
                           /\ sock'[t].run = sock[t].run /\ sock'[t].token = sock[t].token
    BY <1>0, <1>5, <1>8 DEF Attached
  <2> QED BY <1>0, <2>1, ClaimKept DEF IInv
<1>11. CommandsStayHome'
  BY <1>0 DEF IInv, CommandsStayHome
<1> QED BY <1>7, <1>9, <1>10, <1>11 DEF IInv

LEMMA SocketInv ==
    ASSUME IInv, NEW s \in Sockets, SocketStep(s)
    PROVE  IInv'
<1>1. CASE ReceiveInput(s)
  <2> DEFINE a == Input(typed + 1)
  <2>1. /\ typed \in Nat /\ typed < MaxInput /\ typed' = typed + 1 /\ Receive(s, a)
        /\ others' = others /\ others \in 0 .. MaxOther
    BY <1>1, InvType DEF ReceiveInput, IInv, TypeOK
  <2>2. typed + 1 \in Inputs /\ typed' \in typed .. MaxInput
    BY <2>1, AttachmentAssumption DEF Inputs
  <2>3. a.kind = "input" /\ a.data = <<typed + 1>>
    BY DEF Input
  <2>4. Action(a)
    BY <2>2, <2>3 DEF Action, Rising, Input
  <2>5. \A i \in DOMAIN a.data : typed < a.data[i] /\ a.data[i] <= typed'
    BY <2>1, <2>3
  <2> HIDE DEF a
  <2> QED BY <2>1, <2>2, <2>4, <2>5, ReceiveInv
<1>2. ASSUME NEW a \in {Resize, Kill}, ReceiveOther(s, a) PROVE IInv'
  <2>1. /\ typed \in Nat /\ typed <= MaxInput /\ typed' = typed /\ Receive(s, a)
        /\ others \in 0 .. MaxOther /\ others < MaxOther /\ others' = others + 1
    BY <1>2, InvType, AttachmentAssumption DEF ReceiveOther, IInv, TypeOK
  <2>2. typed' \in typed .. MaxInput /\ others' \in 0 .. MaxOther
    BY <2>1, AttachmentAssumption
  <2>3. Action(a) /\ a.data = <<>>
    <3>1. /\ a \in [kind : {"input", "resize", "kill"}, data : Seq(Inputs)]
          /\ a.kind # "input" /\ a.data = <<>>
      <4>1. CASE a = Resize
        BY <4>1 DEF Resize
      <4>2. CASE a = Kill
        BY <4>2 DEF Kill
      <4> QED BY <4>1, <4>2
    <3> QED BY <3>1 DEF Action, Rising
  <2> QED BY <2>1, <2>2, <2>3, ReceiveInv
<1> QED BY <1>1, <1>2, ClaimInv, ReplaySentInv, ReplayFailsInv, SocketGoesInv DEF SocketStep

-----------------------------------------------------------------------------
(* The steps of a command. *)

(* Sockets, claims and what was left behind are in order after the step. *)
OrderKept ==
    /\ sock' \in [Sockets -> SocketType] /\ detached' \subseteq Commands
    /\ held' \in 0 .. counter'
    /\ SocketsOK' /\ DetachedOK' /\ HeldBySocket' /\ FirstRunOK'

LEMMA InFlightOK ==
    ASSUME IInv, NEW c \in InFlight, c.at # "none"
    PROVE  /\ c \in Commands /\ c.sock \in Sockets
           /\ CommandOK(c, delivered[c.sock], typed)
           /\ \A s \in Sockets : sock[s].cmd = c => s = c.sock
<1>1. \A s \in Sockets : sock[s].cmd = c =>
            c \in Commands /\ c.sock = s /\ CommandOK(c, delivered[s], typed)
  <2> SUFFICES ASSUME NEW s \in Sockets, sock[s].cmd = c
               PROVE  c \in Commands /\ c.sock = s /\ CommandOK(c, delivered[s], typed)
    OBVIOUS
  <2>1. sock[s] \in SocketType /\ SocketOK(s, sock[s], delivered[s], typed)
    BY InvType
  <2> QED BY <2>1, NoCommandOK DEF SocketOK, SocketType
<1>2. c \in detached => c \in Commands /\ CommandOK(c, delivered[c.sock], typed)
  BY InvType DEF IInv, DetachedOK
<1> QED BY <1>1, <1>2 DEF InFlight, CommandOK

(* The answer reaches the socket: the next queued command is submitted     *)
(* behind what has been delivered, or the socket drains, or it leaves.     *)
LEMMA ResolvedOK ==
    ASSUME IInv, NEW s \in Sockets, NEW result, sock[s].at = "open",
           sock[s].cmd.at # "none", Resolved(s, result),
           UNCHANGED <<run, phase, counter, typed>>,
           \/ delivered' = delivered
           \/ /\ result # "rejected"
              /\ delivered' = [delivered EXCEPT ![s] = @ \o sock[s].cmd.data]
    PROVE  OrderKept
<1> DEFINE c == sock[s].cmd
           q == sock[s].queue
           D == DataOf(q)
           d == delivered'[s]
<1>0. /\ sock \in [Sockets -> SocketType] /\ sock[s] \in SocketType
      /\ SocketOK(s, sock[s], delivered[s], typed) /\ run \in Runs /\ typed \in Nat
      /\ Rising(delivered[s]) /\ Upto(delivered[s], typed)
      /\ delivered \in [Sockets -> Seq(Inputs)] /\ delivered[s] \in Seq(Inputs)
      /\ counter \in Nat /\ held \in 0 .. counter
  BY InvType
<1>1. /\ c \in Commands /\ c.data \in Seq(Inputs) /\ q \in Queues
      /\ CommandOK(c, delivered[s], typed) /\ QueueOK(q)
      /\ Rising(c.data) /\ Before(delivered[s], c.data) /\ Upto(c.data, typed)
      /\ Ahead(delivered[s], D) /\ Ahead(c.data, D) /\ Within(D, typed)
      /\ sock[s].run \in Runs /\ sock[s].token > 0
  <2>1. c \in Commands /\ q \in Queues
    BY <1>0 DEF SocketType
  <2>2. /\ CommandOK(c, delivered[s], typed) /\ QueueOK(q)
        /\ Ahead(delivered[s], D) /\ Ahead(c.data, D) /\ Within(D, typed)
        /\ sock[s].run \in Runs /\ sock[s].token > 0
    BY <1>0, NoCommandOK, Zenon DEF SocketOK
  <2> QED BY <2>1, <2>2, Zenon DEF CommandOK, Commands
<1>2. /\ \A t \in Sockets : t # s => delivered'[t] = delivered[t]
      /\ delivered'[s] = delivered[s] \/ delivered'[s] = delivered[s] \o c.data
  BY <1>0, Zenon
<1>3. Rising(d) /\ Upto(d, typed) /\ Ahead(d, D)
  <2>1. CASE delivered'[s] = delivered[s]
    BY <1>0, <1>1, <2>1, Zenon
  <2>2. CASE delivered'[s] = delivered[s] \o c.data
    <3> DEFINE e == delivered[s]
               f == c.data
    <3>1. /\ e \in Seq(Inputs) /\ f \in Seq(Inputs) /\ d = e \o f
          /\ Rising(e) /\ Rising(f) /\ Before(e, f) /\ Upto(e, typed) /\ Upto(f, typed)
          /\ Ahead(e, D) /\ Ahead(f, D)
      BY <1>0, <1>1, <2>2, Zenon
    <3> HIDE DEF e, f, d, D
    <3>2. Rising(d) /\ Upto(d, typed)
      BY <3>1, ConcatOrder
    <3>3. \A i \in DOMAIN D : Before(d, D[i])
      BY <3>1, ConcatOrder DEF Ahead
    <3> QED BY <3>2, <3>3 DEF Ahead
  <2> QED BY <1>2, <2>1, <2>2, Zenon
<1>3a. /\ typed' \in Nat /\ typed <= typed'
       /\ \A t \in Sockets : t # s => delivered'[t] = delivered[t]
       /\ Rising(delivered'[s]) /\ Upto(delivered'[s], typed')
  <2>1. typed' = typed
    OBVIOUS
  <2>2. typed' \in Nat /\ typed <= typed'
    BY <1>0, <2>1
  <2> QED BY <1>2, <1>3, <2>1, <2>2, Zenon
<1>4. CASE result # "rejected"
  <2> DEFINE b == IF HasNext(q) THEN Spawned(s, NextAction(q)) ELSE NoCommand
             p == TakeNext(q)
             k == [sock[s] EXCEPT !.cmd = b, !.queue = p]
  <2>1. sock' = [sock EXCEPT ![s] = k] /\ UNCHANGED <<held, detached>>
    BY <1>4 DEF Resolved
  <2>2. /\ b \in Commands /\ p \in Queues /\ QueueOK(p)
        /\ b # NoCommand => b.sock = s /\ CommandOK(b, d, typed)
        /\ b.at = "none" => b = NoCommand /\ p.items = <<>>
        /\ Ahead(d, DataOf(p)) /\ Ahead(b.data, DataOf(p)) /\ Within(DataOf(p), typed)
    <3>1. CASE HasNext(q)
      <4> DEFINE a == NextAction(q)
      <4> HIDE DEF d
      <4>1. /\ p \in Queues /\ QueueOK(p)
            /\ a \in [kind : {"input", "resize", "kill"}, data : Seq(Inputs)]
            /\ Rising(a.data) /\ Ahead(a.data, DataOf(p))
            /\ Ahead(d, DataOf(p)) /\ Before(d, a.data)
            /\ Within(DataOf(p), typed) /\ Upto(a.data, typed)
        BY <1>1, <1>3, <3>1, TakeOK, Zenon
      <4>2. b = Spawned(s, a)
        BY <3>1, Zenon
      <4>3. run \in Runs /\ sock[s].run \in Runs /\ Sendable(a, d, typed)
        BY <1>0, <1>1, <4>1, Zenon DEF Sendable
      <4> HIDE DEF a, b, c, k, p, q, D
      <4>4. /\ b \in Commands /\ CommandOK(b, d, typed) /\ b # NoCommand
            /\ b.sock = s /\ b.at = "spawned" /\ b.data = a.data
        BY <4>2, <4>3, SendableOK, SMTT(20)
      <4> QED BY <4>1, <4>4, Zenon
    <3>2. CASE ~HasNext(q)
      <4>1. b = NoCommand /\ q.items = <<>> /\ p = [q EXCEPT !.kill = "no"]
        BY <3>2 DEF HasNext, TakeNext
      <4>2. p.items = q.items /\ p.bytes = q.bytes /\ p \in Queues
        BY <1>1, <4>1 DEF Queues
      <4>3. DataOf(p) = D
        BY <4>2 DEF DataOf
      <4>4. QueueOK(p)
        BY <1>1, <4>2, <4>3, Zenon DEF QueueOK
      <4> QED BY <1>1, <1>3, <4>1, <4>2, <4>3, <4>4, NoCommandOK
    <3> QED BY <3>1, <3>2, Zenon
  <2> HIDE DEF b, p
  <2>3. /\ k \in SocketType /\ k.cmd = b /\ k.queue = p /\ k.at = "open"
        /\ k.run = sock[s].run /\ k.token = sock[s].token
    BY <1>0, <2>2, Zenon DEF SocketType
  <2> HIDE DEF k
  <2>4. SocketOK(s, k, d, typed)
    BY <1>1, <2>2, <2>3, Zenon DEF SocketOK
  <2>5. StepOf(s, k)
    BY <1>3a, <2>1 DEF StepOf
  <2>6. /\ sock' \in [Sockets -> SocketType] /\ detached' \subseteq Commands
        /\ SocketsOK' /\ DetachedOK'
    <3>1. SocketOK(s, k, delivered'[s], typed')
      BY <2>4
    <3> QED BY <2>1, <2>3, <2>5, <3>1, SocketStepOK DEF IInv
  <2>7. sock'[s] = k /\ \A t \in Sockets : t # s => sock'[t] = sock[t]
    BY <1>0, <2>1
  <2>8. HeldBySocket' /\ FirstRunOK'
    <3>1. \A t \in Sockets : /\ Attached(t)' <=> Attached(t)
                             /\ sock'[t].run = sock[t].run /\ sock'[t].token = sock[t].token
      BY <2>3, <2>7 DEF Attached
    <3> QED BY <2>1, <3>1, ClaimKept DEF IInv
  <2> QED BY <1>0, <2>1, <2>6, <2>8 DEF OrderKept
<1>5. CASE result = "rejected" /\ (~Takes(run) \/ phase \in {"ending", "ended"})
  <2> DEFINE k == [sock[s] EXCEPT !.cmd = NoCommand, !.queue = EmptyQueue, !.draining = "yes"]
  <2>1. /\ sock' = [sock EXCEPT ![s] = k] /\ UNCHANGED <<held, detached>>
        /\ delivered' = delivered
    BY <1>5 DEF Resolved
  <2>2. /\ k \in SocketType /\ k.cmd = NoCommand /\ k.queue = EmptyQueue /\ k.at = "open"
        /\ k.run = sock[s].run /\ k.token = sock[s].token
    BY <1>0, NoCommandOK, EmptyOK, Zenon DEF SocketType
  <2> HIDE DEF k
  <2>3. SocketOK(s, k, delivered'[s], typed')
    BY <1>1, <2>2, IdleOK, Zenon
  <2>4. StepOf(s, k)
    BY <1>3a, <2>1 DEF StepOf
  <2>5. /\ sock' \in [Sockets -> SocketType] /\ detached' \subseteq Commands
        /\ SocketsOK' /\ DetachedOK'
    BY <2>1, <2>2, <2>3, <2>4, SocketStepOK DEF IInv
  <2>6. sock'[s] = k /\ \A t \in Sockets : t # s => sock'[t] = sock[t]
    BY <1>0, <2>1
  <2>7. HeldBySocket' /\ FirstRunOK'
    <3>1. \A t \in Sockets : /\ Attached(t)' <=> Attached(t)
                             /\ sock'[t].run = sock[t].run /\ sock'[t].token = sock[t].token
      BY <2>2, <2>6 DEF Attached
    <3> QED BY <2>1, <3>1, ClaimKept DEF IInv
  <2> QED BY <1>0, <2>1, <2>5, <2>7 DEF OrderKept
<1>6. CASE result = "rejected" /\ ~(~Takes(run) \/ phase \in {"ending", "ended"})
  <2>1. /\ held' = Released(sock[s].token)
        /\ sock' = [sock EXCEPT ![s] = [@ EXCEPT !.at = "closed", !.cmd = NoCommand,
                                        !.queue = EmptyQueue]]
        /\ detached' = detached /\ delivered' = delivered
    BY <1>6 DEF Resolved
  <2>2. detached' \subseteq detached \cup ({sock[s].cmd} \ {NoCommand}) /\ Attached(s)
    BY <2>1 DEF Attached
  <2> QED BY <2>1, <2>2, LeaveInv, Zenon DEF OrderKept
<1> QED BY <1>4, <1>5, <1>6

(* The answer reaches the socket, or a command left behind ends. *)
LEMMA AnswerOK ==
    ASSUME IInv, NEW c \in InFlight, c.at # "none", NEW result, Answer(c, result),
           UNCHANGED <<run, phase, counter, typed>>,
           \/ delivered' = delivered
           \/ /\ result # "rejected"
              /\ delivered' = [delivered EXCEPT ![c.sock] = @ \o c.data]
    PROVE  OrderKept
<1>0. /\ c \in Commands /\ c.sock \in Sockets /\ CommandOK(c, delivered[c.sock], typed)
      /\ \A s \in Sockets : sock[s].cmd = c => s = c.sock
  BY InFlightOK
<1>1. ASSUME NEW s \in Sockets, sock[s].at = "open", sock[s].cmd = c, Resolved(s, result)
      PROVE  OrderKept
  <2>1. s = c.sock
    BY <1>0, <1>1
  <2> QED BY <1>1, <2>1, ResolvedOK, Zenon
<1>2. CASE c \in detached /\ detached' = detached \ {c} /\ UNCHANGED <<sock, held>>
  <2> DEFINE s == c.sock
             e == delivered[s]
             f == c.data
             d == delivered'[s]
  <2>1. /\ sock \in [Sockets -> SocketType] /\ detached \subseteq Commands
        /\ sock[s].at = "closed" /\ SocketOK(s, sock[s], e, typed)
        /\ e \in Seq(Inputs) /\ f \in Seq(Inputs) /\ counter \in Nat /\ held \in 0 .. counter
        /\ Rising(e) /\ Upto(e, typed) /\ Rising(f) /\ Upto(f, typed) /\ Before(e, f)
        /\ delivered \in [Sockets -> Seq(Inputs)]
    BY <1>0, <1>2, InvType, Zenon DEF IInv, DetachedOK, CommandOK, Commands
  <2>2. \A t \in Sockets : t # s => delivered'[t] = delivered[t]
    BY <1>0, <2>1, Zenon
  <2>3. d = e \/ d = e \o f
    BY <1>0, <2>1, Zenon
  <2> HIDE DEF s, e, f, d
  <2>4. Rising(d) /\ Upto(d, typed)
    BY <2>1, <2>3, ConcatOrder, Zenon
  <2>5. SocketOK(s, sock[s], d, typed)
    <3>1. sock[s].cmd = NoCommand /\ sock[s].queue.items = <<>>
      BY <2>1, NoCommandOK, Zenon DEF SocketOK
    <3>2. DOMAIN DataOf(sock[s].queue) = {}
      BY <3>1, SMTT(20) DEF DataOf
    <3>3. Ahead(d, DataOf(sock[s].queue))
      BY <3>2 DEF Ahead
    <3> QED BY <2>1, <3>1, <3>3, Zenon DEF SocketOK
  <2>6. SocketsOK'
    <3> SUFFICES ASSUME NEW t \in Sockets
                 PROVE  /\ SocketOK(t, sock[t], delivered'[t], typed)
                        /\ Rising(delivered'[t]) /\ Upto(delivered'[t], typed)
      BY <1>2 DEF SocketsOK
    <3>1. CASE t = s
      BY <2>4, <2>5, <3>1 DEF d
    <3>2. CASE t # s
      BY <2>2, <3>2, InvType
    <3> QED BY <3>1, <3>2
  <2>7. DetachedOK'
    <3>1. ASSUME NEW b \in detached'
          PROVE  CommandOK(b, delivered'[b.sock], typed') /\ sock'[b.sock].at = "closed"
      <4>1. /\ b \in detached /\ b # c /\ b.sock # s /\ b.sock \in Sockets
            /\ CommandOK(b, delivered[b.sock], typed) /\ sock[b.sock].at = "closed"
        BY <1>2 DEF IInv, DetachedOK, CommandOK, s
      <4> QED BY <1>2, <2>2, <4>1
    <3>2. \A b, g \in detached' : b.sock = g.sock => b = g
      BY <1>2 DEF IInv, DetachedOK
    <3> QED BY <3>1, <3>2 DEF DetachedOK
  <2>8. HeldBySocket' /\ FirstRunOK'
    BY <1>2, ClaimKept DEF IInv, Attached
  <2> QED BY <1>2, <2>1, <2>6, <2>7, <2>8 DEF OrderKept
<1> QED BY <1>1, <1>2 DEF Answer

(* The command c goes on as d, with the same data. *)
LEMMA AdvanceOK ==
    ASSUME IInv, NEW c \in InFlight, c.at # "none", NEW d \in Commands, Advance(c, d),
           d.sock = c.sock, d.data = c.data, CommandOK(d, delivered[c.sock], typed),
           UNCHANGED <<run, phase, counter, typed, delivered, held>>
    PROVE  OrderKept
<1>0. /\ c \in Commands /\ c.sock \in Sockets /\ CommandOK(c, delivered[c.sock], typed)
      /\ \A s \in Sockets : sock[s].cmd = c => s = c.sock
      /\ sock \in [Sockets -> SocketType] /\ detached \subseteq Commands
      /\ counter \in Nat /\ held \in 0 .. counter
      /\ d.at # "none" /\ d # NoCommand
  BY InFlightOK, InvType, NoCommandOK, Zenon DEF CommandOK
<1>1. ASSUME NEW s \in Sockets, sock[s].cmd = c, sock' = [sock EXCEPT ![s].cmd = d],
             UNCHANGED detached
      PROVE  OrderKept
  <2> DEFINE k == [sock[s] EXCEPT !.cmd = d]
  <2>1. /\ s = c.sock /\ sock[s] \in SocketType /\ sock' = [sock EXCEPT ![s] = k]
        /\ SocketOK(s, sock[s], delivered[s], typed)
        /\ typed \in Nat /\ Rising(delivered[s]) /\ Upto(delivered[s], typed)
    BY <1>0, <1>1, InvType
  <2>2. sock[s].at = "open"
    BY <1>1, <2>1, NoCommandOK DEF SocketOK
  <2>3. /\ k \in SocketType /\ k.cmd = d /\ k.queue = sock[s].queue /\ k.at = "open"
        /\ k.run = sock[s].run /\ k.token = sock[s].token
    BY <2>1, <2>2 DEF SocketType
  <2> HIDE DEF k
  <2>4. SocketOK(s, k, delivered[s], typed)
    BY <1>0, <1>1, <2>1, <2>2, <2>3 DEF SocketOK
  <2>5. StepOf(s, k)
    BY <2>1, SMTT(20) DEF StepOf
  <2>6. /\ sock' \in [Sockets -> SocketType] /\ detached' \subseteq Commands
        /\ SocketsOK' /\ DetachedOK'
    <3>1. SocketOK(s, k, delivered'[s], typed')
      BY <2>4
    <3> QED BY <1>1, <2>2, <2>3, <2>5, <3>1, SocketStepOK DEF IInv
  <2>7. sock'[s] = k /\ \A t \in Sockets : t # s => sock'[t] = sock[t]
    BY <1>0, <2>1
  <2>8. HeldBySocket' /\ FirstRunOK'
    <3>1. \A t \in Sockets : /\ Attached(t)' <=> Attached(t)
                             /\ sock'[t].run = sock[t].run /\ sock'[t].token = sock[t].token
      BY <2>2, <2>3, <2>7 DEF Attached
    <3> QED BY <3>1, ClaimKept DEF IInv
  <2> QED BY <1>0, <2>6, <2>8, Zenon DEF OrderKept
<1>2. CASE c \in detached /\ detached' = (detached \ {c}) \cup {d} /\ UNCHANGED sock
  <2>1. SocketsOK'
    BY <1>2 DEF IInv, SocketsOK
  <2>2. sock[c.sock].at = "closed"
    BY <1>2 DEF IInv, DetachedOK
  <2>3. ASSUME NEW b \in detached'
        PROVE  CommandOK(b, delivered'[b.sock], typed') /\ sock'[b.sock].at = "closed"
    BY <1>2, <2>2 DEF IInv, DetachedOK
  <2>4. ASSUME NEW b \in detached', NEW g \in detached', b.sock = g.sock PROVE b = g
    <3>1. \A a \in detached \ {c} : a.sock # c.sock
      BY <1>2 DEF IInv, DetachedOK
    <3>2. \A a, h \in detached : a.sock = h.sock => a = h
      BY DEF IInv, DetachedOK
    <3> QED BY <1>2, <2>4, <3>1, <3>2
  <2>5. DetachedOK'
    BY <2>3, <2>4 DEF DetachedOK
  <2>6. HeldBySocket' /\ FirstRunOK'
    BY <1>2, ClaimKept DEF IInv, Attached
  <2> QED BY <1>0, <1>2, <2>1, <2>5, <2>6 DEF OrderKept
<1> QED BY <1>1, <1>2 DEF Advance

(* A step of a command that keeps the order and reaches only its home. *)
LEMMA CommandKept ==
    ASSUME IInv, OrderKept, UNCHANGED <<run, phase, driver, counter, typed, others>>,
           delivered' \in [Sockets -> Seq(Inputs)],
           \A e \in effects' \ effects :
                /\ e \in {"input", "resize", "kill"} \X Runs \X Runs
                /\ e[1] \in {"input", "kill"} => e[2] = e[3]
    PROVE  IInv'
<1>1. effects' \subseteq {"input", "resize", "kill"} \X Runs \X Runs
  BY DEF IInv, TypeOK
<1>2. TypeOK'
  BY <1>1 DEF OrderKept, IInv, TypeOK, SocketType
<1>3. CommandsStayHome'
  BY DEF IInv, CommandsStayHome
<1> QED BY <1>2, <1>3 DEF IInv, OrderKept

LEMMA CommandInv ==
    ASSUME IInv, NEW c \in InFlight, CommandStep(c)
    PROVE  IInv'
<1>0. c.at # "none"
  BY Zenon DEF CommandStep, AdmitInput, EnqueueInput, SendResize, SendKill, DriverTakes, DriverRejects
<1>1. /\ c \in Commands /\ c.sock \in Sockets /\ CommandOK(c, delivered[c.sock], typed)
      /\ delivered \in [Sockets -> Seq(Inputs)] /\ c.data \in Seq(Inputs)
      /\ run \in Runs /\ run \in 0 .. MaxRun
      /\ c = [at |-> c.at, kind |-> c.kind, data |-> c.data, from |-> c.from,
              to |-> c.to, sock |-> c.sock]
  BY <1>0, InFlightOK, InvType, AttachmentAssumption, SMTT(20) DEF Commands, Runs
<1>2. ASSUME NEW result, Answer(c, result),
             UNCHANGED <<run, phase, driver, counter, typed, others, delivered, effects>>
      PROVE  IInv'
  <2>1. OrderKept
    BY <1>0, <1>2, AnswerOK
  <2> QED BY <1>1, <1>2, <2>1, CommandKept
<1>3. ASSUME NEW d \in Commands, Advance(c, d), d.sock = c.sock, d.data = c.data,
             CommandOK(d, delivered[c.sock], typed),
             UNCHANGED <<run, phase, driver, counter, typed, others, delivered, effects, held>>
      PROVE  IInv'
  <2>1. OrderKept
    BY <1>0, <1>3, AdvanceOK
  <2> QED BY <1>1, <1>3, <2>1, CommandKept
<1>4. CASE AdmitInput(c)
  <2> DEFINE d == [c EXCEPT !.at = "owner"]
  <2>1. CASE c.to # c.from \/ run # c.from
    BY <1>2, <1>4, <2>1 DEF AdmitInput
  <2>2. CASE ~(c.to # c.from \/ run # c.from) /\ Cardinality(Owners(run)) >= Slots
    BY <1>2, <1>4, <2>2 DEF AdmitInput
  <2>3. CASE ~(c.to # c.from \/ run # c.from) /\ ~(Cardinality(Owners(run)) >= Slots)
    <3>1. /\ Advance(c, d) /\ c.kind = "input" /\ c.to = c.from
          /\ UNCHANGED <<run, phase, driver, counter, typed, others, delivered, effects, held>>
      BY <1>4, <2>3 DEF AdmitInput
    <3>2. /\ d \in Commands /\ d.at = "owner" /\ d.kind = c.kind /\ d.data = c.data
          /\ d.from = c.from /\ d.to = c.to /\ d.sock = c.sock
      BY <1>1, Zenon DEF Commands
    <3> HIDE DEF d
    <3>3. CommandOK(d, delivered[c.sock], typed)
      BY <1>1, <3>1, <3>2 DEF CommandOK
    <3> QED BY <1>3, <3>1, <3>2, <3>3
  <2> QED BY <2>1, <2>2, <2>3
<1>5. CASE EnqueueInput(c)
  <2> DEFINE d == [c EXCEPT !.at = "sent"]
  <2>1. CASE ~(run = c.from /\ Takes(c.to))
    BY <1>2, <1>5, <2>1 DEF EnqueueInput
  <2>2. CASE run = c.from /\ Takes(c.to)
    <3>1. /\ Advance(c, d) /\ c.kind = "input" /\ c.at = "owner"
          /\ UNCHANGED <<run, phase, driver, counter, typed, others, delivered, effects, held>>
      BY <1>5, <2>2 DEF EnqueueInput
    <3>2. /\ d \in Commands /\ d.at = "sent" /\ d.kind = c.kind /\ d.data = c.data
          /\ d.from = c.from /\ d.to = c.to /\ d.sock = c.sock
      BY <1>1, Zenon DEF Commands
    <3> HIDE DEF d
    <3>3. CommandOK(d, delivered[c.sock], typed)
      BY <1>1, <3>1, <3>2 DEF CommandOK
    <3> QED BY <1>3, <3>1, <3>2, <3>3, Zenon
  <2> QED BY <2>1, <2>2
<1>6. CASE SendResize(c)
  <2> DEFINE d == [c EXCEPT !.at = "sent", !.to = run]
  <2>1. CASE ~Takes(run)
    BY <1>2, <1>6, <2>1 DEF SendResize
  <2>2. CASE Takes(run)
    <3>1. /\ Advance(c, d) /\ c.kind = "resize"
          /\ UNCHANGED <<run, phase, driver, counter, typed, others, delivered, effects, held>>
      BY <1>6, <2>2 DEF SendResize
    <3>2. /\ d \in Commands /\ d.at = "sent" /\ d.kind = c.kind /\ d.data = c.data
          /\ d.from = c.from /\ d.to = run /\ d.sock = c.sock
      BY <1>1, Zenon DEF Commands
    <3> HIDE DEF d
    <3>3. CommandOK(d, delivered[c.sock], typed)
      BY <1>1, <3>1, <3>2 DEF CommandOK
    <3> QED BY <1>3, <3>1, <3>2, <3>3
  <2> QED BY <2>1, <2>2
<1>7. CASE SendKill(c)
  <2>1. CASE run # c.from
    BY <1>2, <1>7, <2>1 DEF SendKill
  <2>2. CASE run = c.from
    <3>1. /\ Answer(c, "ok") /\ effects' = effects \cup {<<"kill", c.from, run>>}
          /\ UNCHANGED <<run, phase, driver, counter, typed, others, delivered>>
      BY <1>7, <2>2 DEF SendKill
    <3>2. OrderKept
      BY <1>0, <3>1, AnswerOK
    <3> QED BY <1>1, <2>2, <3>1, <3>2, CommandKept
  <2> QED BY <2>1, <2>2
<1>8. CASE DriverTakes(c)
  <2>1. CASE Answer(c, "rejected") /\ UNCHANGED <<effects, delivered>>
    BY <1>2, <1>8, <2>1 DEF DriverTakes
  <2>2. CASE /\ Answer(c, "ok") /\ effects' = effects \cup {<<c.kind, c.from, c.to>>}
             /\ delivered' = [delivered EXCEPT ![c.sock] = @ \o c.data]
    <3>1. /\ c.at = "sent" /\ UNCHANGED <<run, phase, driver, counter, typed, others>>
      BY <1>8 DEF DriverTakes
    <3>2. OrderKept
      BY <1>0, <2>2, <3>1, AnswerOK, Zenon
    <3>3. /\ c.kind \in {"input", "resize"} /\ c.from \in Runs /\ c.to \in Runs
          /\ c.kind = "input" => c.to = c.from
      BY <1>1, <3>1 DEF CommandOK, Commands
    <3>4. delivered' \in [Sockets -> Seq(Inputs)]
      BY <1>1, <2>2
    <3> QED BY <2>2, <3>1, <3>2, <3>3, <3>4, CommandKept
  <2> QED BY <1>8, <2>1, <2>2, Zenon DEF DriverTakes
<1>9. CASE DriverRejects(c)
  BY <1>2, <1>9 DEF DriverRejects
<1> QED BY <1>4, <1>5, <1>6, <1>7, <1>8, <1>9 DEF CommandStep

-----------------------------------------------------------------------------
(* The steps of the runtime. *)

LEMMA RuntimeInv ==
    ASSUME IInv, RuntimeStep
    PROVE  IInv'
<1>0. /\ UNCHANGED <<sock, detached, typed, others, delivered, effects>>
      /\ SocketsOK' /\ DetachedOK' /\ CommandsStayHome'
  <2>1. UNCHANGED <<sock, detached, typed, others, delivered, effects>>
    BY DEF RuntimeStep, DriverStarts, StartupFails, DeleteBegins, ExitObserved,
           ExitTransition, ExitDetach, ExitEvent, Finalize, Resume
  <2> QED BY <2>1, FrameOK DEF IInv, CommandsStayHome
<1>1. TypeOK
  BY DEF IInv
<1>2. ASSUME UNCHANGED <<run, counter, held>>,
             phase' \in {"creating", "active", "ending", "ended"},
             phase' = phase \/ phase' \in {"ending", "ended"} \/ phase \notin {"ending", "ended"},
             driver' \in [Runs -> {"none", "starting", "up", "closed", "detached",
                                   "done", "failed"}]
      PROVE  IInv'
  <2>1. TypeOK'
    BY <1>0, <1>1, <1>2 DEF TypeOK
  <2>2. HeldBySocket' /\ FirstRunOK'
    BY <1>0, <1>2, ClaimKept DEF IInv, Attached
  <2> QED BY <1>0, <2>1, <2>2 DEF IInv
<1>3. CASE DriverStarts
  BY <1>1, <1>2, <1>3 DEF DriverStarts, TypeOK
<1>4. CASE StartupFails
  BY <1>1, <1>2, <1>4 DEF StartupFails, TypeOK
<1>5. CASE DeleteBegins
  BY <1>1, <1>2, <1>5 DEF DeleteBegins, TypeOK
<1>6. CASE ExitObserved
  BY <1>1, <1>2, <1>6 DEF ExitObserved, TypeOK
<1>7. CASE ExitTransition
  BY <1>1, <1>2, <1>7 DEF ExitTransition, TypeOK
<1>8. CASE ExitDetach
  <2>1. TypeOK'
    BY <1>0, <1>1, <1>8 DEF ExitDetach, TypeOK
  <2>2. HeldBySocket'
    BY <1>8 DEF ExitDetach, HeldBySocket
  <2>3. FirstRunOK'
    BY <1>0, <1>8 DEF IInv, ExitDetach, FirstRunOK, SingleAttachment, Attached
  <2> QED BY <1>0, <2>1, <2>2, <2>3 DEF IInv
<1>9. ASSUME NEW r \in Runs, ExitEvent(r) PROVE IInv'
  BY <1>1, <1>2, <1>9 DEF ExitEvent, TypeOK
<1>10. CASE Finalize
  BY <1>1, <1>2, <1>10 DEF Finalize, TypeOK
<1>11. CASE Resume
  <2>1. run \in Runs /\ run < MaxRun /\ run' = run + 1
    BY <1>1, <1>11 DEF Resume, TypeOK
  <2>2. run' \in Runs /\ run' # 1
    BY <2>1, AttachmentAssumption DEF Runs
  <2>3. TypeOK'
    BY <1>0, <1>1, <1>11, <2>1, <2>2, SMTT(20) DEF Resume, TypeOK
  <2>4. HeldBySocket' /\ FirstRunOK'
    BY <1>11, <2>2 DEF Resume, HeldBySocket, FirstRunOK
  <2> QED BY <1>0, <2>3, <2>4 DEF IInv
<1> QED BY <1>3, <1>4, <1>5, <1>6, <1>7, <1>8, <1>9, <1>10, <1>11 DEF RuntimeStep

-----------------------------------------------------------------------------
(* The theorems. *)

LEMMA InitInv == Init => IInv
<1> SUFFICES ASSUME Init PROVE IInv
  OBVIOUS
<1>0. /\ run = 1 /\ counter = 0 /\ held = 0 /\ detached = {} /\ effects = {} /\ typed = 0
      /\ \A s \in Sockets : sock[s] = NoSocket /\ delivered[s] = <<>>
  BY DEF Init
<1>1. NoSocket \in SocketType
  BY NoCommandOK, EmptyOK, AttachmentAssumption, SMTT(20) DEF NoSocket, SocketType
<1>2. /\ NoSocket.cmd = NoCommand /\ NoSocket.queue = EmptyQueue /\ NoSocket.at = "new"
  BY DEF NoSocket
<1>3. TypeOK
  <2>1. 1 \in Runs /\ 0 \in 0 .. MaxInput /\ 0 \in 0 .. MaxOther
    BY AttachmentAssumption DEF Runs
  <2>2. sock \in [Sockets -> SocketType]
    BY <1>1 DEF Init
  <2>3. driver \in [Runs -> {"none", "starting", "up", "closed", "detached", "done", "failed"}]
    BY DEF Init
  <2>4. delivered \in [Sockets -> Seq(Inputs)]
    BY DEF Init
  <2> QED BY <1>0, <2>1, <2>2, <2>3, <2>4, SMTT(20) DEF Init, TypeOK, SocketType
<1>4. SocketsOK
  <2> SUFFICES ASSUME NEW s \in Sockets
               PROVE  /\ SocketOK(s, sock[s], delivered[s], typed)
                      /\ Rising(delivered[s]) /\ Upto(delivered[s], typed)
    BY DEF SocketsOK
  <2>1. SocketOK(s, sock[s], delivered[s], typed)
    BY <1>0, <1>2, IdleOK
  <2> QED BY <1>0, <2>1 DEF Rising, Upto
<1>5. HeldBySocket /\ CommandsStayHome /\ DetachedOK
  BY <1>0 DEF HeldBySocket, CommandsStayHome, DetachedOK
<1>6. FirstRunOK
  BY <1>0, <1>2 DEF FirstRunOK, SingleAttachment, Attached
<1> QED BY <1>3, <1>4, <1>5, <1>6 DEF IInv

(* Sockets, detached commands and the claim are in order in every state. *)
THEOREM TerminalInv == Spec => []IInv
<1>1. IInv /\ [Next]_vars => IInv'
  <2> SUFFICES ASSUME IInv, [Next]_vars PROVE IInv'
    OBVIOUS
  <2>1. CASE UNCHANGED vars
    BY <2>1, Zenon DEF vars, IInv, TypeOK, SocketsOK, DetachedOK, HeldBySocket, CommandsStayHome,
                FirstRunOK, SingleAttachment, Attached
  <2>2. CASE Next
    BY <2>2, SocketInv, CommandInv, RuntimeInv DEF Next
  <2> QED BY <2>1, <2>2
<1> QED BY <1>1, InitInv, PTL DEF Spec

(* Every variable stays in its range for any bounds: the byte count of a   *)
(* queue never exceeds the cap nor wraps below zero, although take_next    *)
(* subtracts without a check (PendingActionQueue).                         *)
THEOREM TerminalTypeOK == Spec => []TypeOK
<1>1. IInv => TypeOK
  BY DEF IInv
<1> QED BY <1>1, TerminalInv, PTL

(* The byte count is the number of queued bytes, whatever was coalesced,   *)
(* dispatched or discarded (PendingActionQueue::push and take_next).       *)
THEOREM TerminalQueueCounted == Spec => []QueueIsCounted
<1>1. ASSUME NEW q, q \in Queues PROVE Queued(q) = Places(DataOf(q))
  <2>1. /\ DOMAIN DataOf(q) = DOMAIN q.items
        /\ \A i \in DOMAIN q.items : DataOf(q)[i] = q.items[i].data
    BY <1>1 DEF Queues, DataOf
  <2> QED BY <2>1 DEF Queued, Places
<1>2. IInv => QueueIsCounted
  <2>1. ASSUME IInv, NEW s \in Sockets
        PROVE  sock[s].queue.bytes = Cardinality(Queued(sock[s].queue))
    <3>1. sock[s].queue \in Queues /\ QueueOK(sock[s].queue)
      BY <2>1, InvType, Zenon DEF SocketOK, SocketType
    <3>2. Queued(sock[s].queue) = Places(DataOf(sock[s].queue))
      BY <1>1, <3>1
    <3> QED BY <3>1, <3>2 DEF QueueOK
  <2> QED BY <2>1 DEF QueueIsCounted
<1> QED BY <1>2, TerminalInv, PTL

(* What a client types reaches the PTY in typing order, for any number of  *)
(* sockets, queue cap, rejections and commands left in flight              *)
(* (handle_session_terminal).                                              *)
THEOREM TerminalInputInOrder == Spec => []InputInOrder
<1>1. IInv => InputInOrder
  BY InvType DEF InputInOrder, Rising
<1> QED BY <1>1, TerminalInv, PTL

(* Until the first resume the attachment is single, for any number of      *)
(* sockets (claim_attachment, release_attachment).                         *)
THEOREM TerminalSingleAttachment == Spec => []SingleAttachmentOfRun
<1>1. IInv => SingleAttachmentOfRun
  BY DEF IInv, FirstRunOK, SingleAttachmentOfRun
<1> QED BY <1>1, TerminalInv, PTL

(* A held claim belongs to a socket that is still attached, so a session   *)
(* never becomes unattachable (release_attachment).                        *)
THEOREM TerminalHeldBySocket == Spec => []HeldBySocket
<1>1. IInv => HeldBySocket
  BY DEF IInv
<1> QED BY <1>1, TerminalInv, PTL

(* No input and no kill reaches a runtime other than the one its socket    *)
(* attached to, over any number of resumes (matches_identity).             *)
THEOREM TerminalCommandsStayHome == Spec => []CommandsStayHome
<1>1. IInv => CommandsStayHome
  BY DEF IInv
<1> QED BY <1>1, TerminalInv, PTL

=============================================================================

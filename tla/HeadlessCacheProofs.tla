------------------------ MODULE HeadlessCacheProofs ------------------------
(***************************************************************************)
(* While page and agents take turns, the server's copy of a notebook loses *)
(* no answered edit, whatever the persist loop does and however the        *)
(* requests interleave, for every set of requests and edits.               *)
(***************************************************************************)
EXTENDS HeadlessCache, SequenceTheorems, TLAPS

-----------------------------------------------------------------------------
(* The heaps *)

\* m is well formed and its contents are made of the edits of U.
Sound(m, U) ==
    /\ m \in Memory
    /\ m.cache \in 0..Len(m.objs)
    /\ \A i \in 1..Len(m.objs) : m.objs[i].array \in 1..Len(m.arrays)
    /\ \A i \in 1..Len(m.arrays) : m.arrays[i] \subseteq U

\* n has the entries of m and maybe more.
Grows(m, n) == Len(m.arrays) <= Len(n.arrays) /\ Len(m.objs) <= Len(n.objs)

Object == [array : Nat, dirty : BOOLEAN]

\* The memory, with the type of its objects named
LEMMA MemoryIs == Memory = [arrays : Seq(Content), objs : Seq(Object), cache : Nat]
BY DEF Memory, Object

\* The cached notebook's array, and whether it has changes.
Array(m) == m.objs[m.cache].array
Changed(m) == m.cache # 0 /\ m.objs[m.cache].dirty

\* n is sound and grows m; its cached notebook shows cells and has no changes.
Fresh(m, n, U, cells) ==
    /\ Sound(n, U) /\ Grows(m, n)
    /\ n.cache # 0 /\ CellsOf(n, n.cache) = cells /\ ~Changed(n)
    /\ \A i \in 1..Len(m.objs) : n.objs[i] = m.objs[i]

\* A notebook made of a content is sound and shows that content.
LEMMA InstalledFacts ==
    ASSUME NEW U, U \subseteq Edits, NEW m, Sound(m, U), NEW cells, cells \subseteq U,
           NEW n, n = Installed(m, cells)
    PROVE  Fresh(m, n, U, cells)
<1> DEFINE obj == [array |-> Len(m.arrays) + 1, dirty |-> FALSE]
<1>1. m.arrays \in Seq(Content) /\ m.objs \in Seq(Object) /\ cells \in Content
  BY DEF Sound, Memory, Content, Object
<1>2. obj \in Object
  BY <1>1, LenProperties DEF Object
<1>3. /\ n.arrays = Append(m.arrays, cells) /\ n.objs = Append(m.objs, obj)
      /\ n.cache = Len(m.objs) + 1
      /\ n = [arrays |-> Append(m.arrays, cells), objs |-> Append(m.objs, obj),
              cache |-> Len(m.objs) + 1]
  BY DEF Installed
<1>12. obj.array = Len(m.arrays) + 1 /\ obj.dirty = FALSE
  OBVIOUS
<1> HIDE DEF obj
<1>4. /\ Append(m.arrays, cells) \in Seq(Content)
      /\ Len(Append(m.arrays, cells)) = Len(m.arrays) + 1
      /\ \A i \in 1..Len(m.arrays) : Append(m.arrays, cells)[i] = m.arrays[i]
      /\ Append(m.arrays, cells)[Len(m.arrays) + 1] = cells
  BY <1>1, AppendProperties
<1>5. /\ Append(m.objs, obj) \in Seq(Object)
      /\ Len(Append(m.objs, obj)) = Len(m.objs) + 1
      /\ \A i \in 1..Len(m.objs) : Append(m.objs, obj)[i] = m.objs[i]
      /\ Append(m.objs, obj)[Len(m.objs) + 1] = obj
  BY <1>1, <1>2, AppendProperties
<1>6. Len(m.arrays) \in Nat /\ Len(m.objs) \in Nat
  BY <1>1, LenProperties
<1>7. /\ n.arrays \in Seq(Content) /\ Len(n.arrays) = Len(m.arrays) + 1
      /\ \A i \in 1..Len(m.arrays) : n.arrays[i] = m.arrays[i]
      /\ n.arrays[Len(m.arrays) + 1] = cells
      /\ n.objs \in Seq(Object) /\ Len(n.objs) = Len(m.objs) + 1
      /\ \A i \in 1..Len(m.objs) : n.objs[i] = m.objs[i]
      /\ n.objs[Len(m.objs) + 1] = obj
  BY <1>3, <1>4, <1>5
<1>8. n \in Memory
  BY <1>3, <1>4, <1>5, <1>6, MemoryIs
<1>9. CellsOf(n, n.cache) = cells /\ ~Changed(n)
  BY <1>3, <1>6, <1>7, <1>12 DEF CellsOf, Changed
<1>10. \A i \in 1..Len(n.objs) : n.objs[i].array \in 1..Len(n.arrays)
  <2> SUFFICES ASSUME NEW i \in 1..Len(n.objs) PROVE n.objs[i].array \in 1..Len(n.arrays)
    OBVIOUS
  <2>1. CASE i \in 1..Len(m.objs)
    <3>1. m.objs[i].array \in 1..Len(m.arrays)
      BY <2>1 DEF Sound
    <3> QED BY <2>1, <3>1, <1>6, <1>7
  <2>2. CASE i = Len(m.objs) + 1
    BY <2>2, <1>6, <1>7, <1>12
  <2> QED BY <2>1, <2>2, <1>6, <1>7
<1>11. \A i \in 1..Len(n.arrays) : n.arrays[i] \subseteq U
  <2>1. \A i \in 1..Len(m.arrays) : m.arrays[i] \subseteq U
    BY DEF Sound
  <2>2. \A i \in 1..Len(n.arrays) : i \in 1..Len(m.arrays) \/ i = Len(m.arrays) + 1
    BY <1>6, <1>7
  <2> QED BY <1>6, <1>7, <2>1, <2>2
<1>13. Sound(n, U) /\ Grows(m, n) /\ n.cache # 0
  BY <1>3, <1>6, <1>7, <1>8, <1>10, <1>11 DEF Sound, Grows
<1> QED BY <1>7, <1>9, <1>13 DEF Fresh

\* n is m, or m with a notebook made of the file when nothing is cached.
Found(m, n, U) ==
    /\ Sound(n, U) /\ Grows(m, n) /\ n.cache # 0
    /\ m.cache # 0 => n = m
    /\ m.cache = 0 => CellsOf(n, n.cache) = file.cells /\ ~Changed(n)
    /\ \A i \in 1..Len(m.objs) : n.objs[i] = m.objs[i]

\* What a request finds: the cached notebook, or the file.
LEMMA CachedFacts ==
    ASSUME NEW U, U \subseteq Edits, NEW m, Sound(m, U), file.cells \subseteq U,
           NEW n, n = Cached(m)
    PROVE  Found(m, n, U)
<1>1. Len(m.arrays) \in Nat /\ Len(m.objs) \in Nat
  BY DEF Sound, Memory
<1>2. CASE m.cache = 0
  <2>1. n = Installed(m, file.cells)
    BY <1>2 DEF Cached
  <2>2. Fresh(m, n, U, file.cells)
    BY <2>1, InstalledFacts, Zenon
  <2> QED BY <1>2, <2>2 DEF Fresh, Found
<1>3. CASE m.cache # 0
  BY <1>1, <1>3 DEF Cached, Grows, Found
<1> QED BY <1>2, <1>3

\* n is c with the array put into its cached notebook, and marked.
Stored(c, n, U, array) ==
    /\ Sound(n, U) /\ Grows(c, n)
    /\ n.arrays = c.arrays /\ n.cache = c.cache /\ Len(n.objs) = Len(c.objs)
    /\ Array(n) = array /\ Changed(n) /\ n.cache # 0

\* Putting an array into the cached notebook.
LEMMA SavedFacts ==
    ASSUME NEW U, U \subseteq Edits, NEW m, Sound(m, U), file.cells \subseteq U,
           NEW array \in 1..Len(m.arrays), NEW n, n = Saved(m, array)
    PROVE  \E c : Found(m, c, U) /\ Stored(c, n, U, array)
<1> DEFINE c == Cached(m)
           obj == [array |-> array, dirty |-> TRUE]
<1>1. Found(m, c, U)
  BY CachedFacts, Zenon
<1>2. /\ c.arrays \in Seq(Content) /\ c.objs \in Seq(Object) /\ c \in Memory
      /\ c.cache \in 1..Len(c.objs) /\ Len(c.arrays) \in Nat /\ Len(c.objs) \in Nat
      /\ Len(m.arrays) \in Nat /\ Len(m.objs) \in Nat
  BY <1>1 DEF Found, Sound, Memory, Object
<1>3. obj \in Object /\ array \in 1..Len(c.arrays)
  BY <1>1, <1>2 DEF Object, Found, Grows
<1>4. n = [c EXCEPT !.objs = [c.objs EXCEPT ![c.cache] = obj]]
  BY <1>2 DEF Saved, Memory
<1>5. /\ [c.objs EXCEPT ![c.cache] = obj] \in Seq(Object)
      /\ Len([c.objs EXCEPT ![c.cache] = obj]) = Len(c.objs)
      /\ \A j \in 1..Len(c.objs) :
            [c.objs EXCEPT ![c.cache] = obj][j] = IF j = c.cache THEN obj ELSE c.objs[j]
  BY <1>2, <1>3, ExceptSeq
<1>6. obj.array = array /\ obj.dirty = TRUE
  OBVIOUS
<1>7. n = [arrays |-> c.arrays, objs |-> [c.objs EXCEPT ![c.cache] = obj], cache |-> c.cache]
  BY <1>2, <1>4, MemoryIs
<1> HIDE DEF c, obj
<1>8. /\ n.objs \in Seq(Object) /\ Len(n.objs) = Len(c.objs)
      /\ \A j \in 1..Len(c.objs) : n.objs[j] = IF j = c.cache THEN obj ELSE c.objs[j]
      /\ n.arrays = c.arrays /\ n.cache = c.cache
  BY <1>5, <1>7
<1>9. n \in Memory
  BY <1>2, <1>5, <1>7, MemoryIs
<1>10. Sound(n, U)
  BY <1>1, <1>2, <1>3, <1>6, <1>8, <1>9 DEF Found, Sound
<1>11. Grows(c, n) /\ Array(n) = array /\ Changed(n) /\ n.cache # 0
  BY <1>1, <1>2, <1>6, <1>8 DEF Grows, Array, Changed
<1>12. Stored(c, n, U, array)
  BY <1>8, <1>10, <1>11 DEF Stored
<1> QED BY <1>1, <1>12

\* n is m with one more edit in an array.
Edited(m, n, U, array, e) ==
    /\ Sound(n, U) /\ Grows(m, n)
    /\ n.cache = m.cache /\ n.objs = m.objs /\ Len(n.arrays) = Len(m.arrays)
    /\ \A i \in 1..Len(m.arrays) :
          n.arrays[i] = IF i = array THEN m.arrays[i] \cup {e} ELSE m.arrays[i]

\* A change in place is seen by everyone who holds the array.
LEMMA InPlaceFacts ==
    ASSUME NEW U, U \subseteq Edits, NEW m, Sound(m, U), NEW array \in 1..Len(m.arrays),
           NEW e \in U, NEW n, n = InPlace(m, array, e)
    PROVE  Edited(m, n, U, array, e)
<1> DEFINE cells == m.arrays[array] \cup {e}
<1>1. m.arrays \in Seq(Content) /\ Len(m.arrays) \in Nat /\ Len(m.objs) \in Nat
      /\ m \in Memory
  BY DEF Sound, Memory
<1>2. cells \in Content
  BY <1>1 DEF Sound, Content
<1>3. n = [arrays |-> [m.arrays EXCEPT ![array] = cells], objs |-> m.objs,
           cache |-> m.cache]
  <2>1. m = [arrays |-> m.arrays, objs |-> m.objs, cache |-> m.cache]
    BY <1>1, MemoryIs
  <2>2. n = [m EXCEPT !.arrays = [m.arrays EXCEPT ![array] = cells]]
    BY <2>1 DEF InPlace
  <2> QED BY <2>1, <2>2
<1>4. /\ [m.arrays EXCEPT ![array] = cells] \in Seq(Content)
      /\ Len([m.arrays EXCEPT ![array] = cells]) = Len(m.arrays)
      /\ \A j \in 1..Len(m.arrays) :
            [m.arrays EXCEPT ![array] = cells][j] = IF j = array THEN cells ELSE m.arrays[j]
  BY <1>1, <1>2, ExceptSeq
<1>5. /\ n.arrays \in Seq(Content) /\ Len(n.arrays) = Len(m.arrays)
      /\ \A j \in 1..Len(m.arrays) : n.arrays[j] = IF j = array THEN cells ELSE m.arrays[j]
      /\ n.objs = m.objs /\ n.cache = m.cache
  BY <1>3, <1>4
<1>6. n \in Memory
  BY <1>1, <1>3, <1>4, MemoryIs
<1>7. Sound(n, U)
  <2>1. \A i \in 1..Len(n.arrays) : n.arrays[i] \subseteq U
    BY <1>1, <1>5 DEF Sound
  <2> QED BY <1>1, <1>5, <1>6, <2>1 DEF Sound
<1>8. Grows(m, n)
  BY <1>1, <1>5 DEF Grows
<1> QED BY <1>5, <1>7, <1>8 DEF Edited

\* n is m with one more array, that nobody holds yet.
Extended(m, n, U, cells) ==
    /\ Sound(n, U) /\ Grows(m, n)
    /\ n.cache = m.cache /\ n.objs = m.objs /\ Len(n.arrays) = Len(m.arrays) + 1
    /\ n.arrays[Len(m.arrays) + 1] = cells
    /\ \A i \in 1..Len(m.arrays) : n.arrays[i] = m.arrays[i]

\* A new array changes nothing for those who hold the others.
LEMMA ExtendedFacts ==
    ASSUME NEW U, U \subseteq Edits, NEW m, Sound(m, U), NEW cells, cells \subseteq U,
           NEW n, n = [m EXCEPT !.arrays = Append(@, cells)]
    PROVE  Extended(m, n, U, cells)
<1>1. m.arrays \in Seq(Content) /\ Len(m.arrays) \in Nat /\ Len(m.objs) \in Nat
      /\ m \in Memory /\ cells \in Content
  BY DEF Sound, Memory, Content
<1>2. n = [arrays |-> Append(m.arrays, cells), objs |-> m.objs, cache |-> m.cache]
  <2>1. m = [arrays |-> m.arrays, objs |-> m.objs, cache |-> m.cache]
    BY <1>1, MemoryIs
  <2> QED BY <2>1
<1>3. /\ Append(m.arrays, cells) \in Seq(Content)
      /\ Len(Append(m.arrays, cells)) = Len(m.arrays) + 1
      /\ Append(m.arrays, cells)[Len(m.arrays) + 1] = cells
      /\ \A j \in 1..Len(m.arrays) : Append(m.arrays, cells)[j] = m.arrays[j]
  BY <1>1, AppendProperties
<1>4. /\ n.arrays \in Seq(Content) /\ Len(n.arrays) = Len(m.arrays) + 1
      /\ n.arrays[Len(m.arrays) + 1] = cells
      /\ \A j \in 1..Len(m.arrays) : n.arrays[j] = m.arrays[j]
      /\ n.objs = m.objs /\ n.cache = m.cache
  BY <1>2, <1>3
<1>5. n \in Memory
  BY <1>1, <1>2, <1>3, MemoryIs
<1>6. \A i \in 1..Len(n.arrays) : n.arrays[i] \subseteq U
  <2>1. \A i \in 1..Len(m.arrays) : m.arrays[i] \subseteq U
    BY DEF Sound
  <2>2. \A i \in 1..Len(n.arrays) : i \in 1..Len(m.arrays) \/ i = Len(m.arrays) + 1
    BY <1>1, <1>4
  <2> QED BY <1>4, <2>1, <2>2
<1>7. Sound(n, U) /\ Grows(m, n)
  BY <1>1, <1>4, <1>5, <1>6 DEF Sound, Grows
<1> QED BY <1>4, <1>7 DEF Extended

\* n is m with another flag on one of its objects.
Flagged(m, n, U, i, flag) ==
    /\ Sound(n, U) /\ Grows(m, n)
    /\ n.arrays = m.arrays /\ n.cache = m.cache /\ Len(n.objs) = Len(m.objs)
    /\ \A j \in 1..Len(m.objs) : n.objs[j].array = m.objs[j].array
    /\ n.objs[i].dirty = flag
    /\ CellsOf(n, i) = CellsOf(m, i)

Cleared(m, i) == [m EXCEPT !.objs[i].dirty = FALSE]

\* The persist loop clears the flag, and leaves the cells alone.
LEMMA FlagFacts ==
    ASSUME NEW U, NEW m, Sound(m, U), NEW i \in 1..Len(m.objs),
           NEW n, n = Cleared(m, i)
    PROVE  Flagged(m, n, U, i, FALSE) /\ CellsOf(m, i) \subseteq U
<1> DEFINE obj == [array |-> m.objs[i].array, dirty |-> FALSE]
<1>1. /\ m.objs \in Seq(Object) /\ Len(m.objs) \in Nat /\ Len(m.arrays) \in Nat
      /\ m \in Memory /\ m.objs[i] \in Object
  <2>1. m \in Memory /\ m.objs \in Seq(Object) /\ m.arrays \in Seq(Content)
    BY DEF Sound, Memory, Object
  <2>2. m.objs[i] \in Object
    BY <2>1, ElementOfSeq, Zenon
  <2> QED BY <2>1, <2>2, LenProperties, Zenon
<1>2. obj \in Object /\ obj = [m.objs[i] EXCEPT !.dirty = FALSE]
  <2>1. obj \in Object
    BY <1>1 DEF Object
  <2>2. ASSUME NEW f, f \in BOOLEAN
        PROVE  [array |-> m.objs[i].array, dirty |-> f] = [m.objs[i] EXCEPT !.dirty = f]
    <3>1. \A x \in Object : [array |-> x.array, dirty |-> f] = [x EXCEPT !.dirty = f]
      BY <2>2, SMT DEF Object
    <3> QED BY <1>1, <3>1
  <2> QED BY <2>1, <2>2, Zenon
<1>3. n = [arrays |-> m.arrays, objs |-> [m.objs EXCEPT ![i] = obj], cache |-> m.cache]
  <2>1. m = [arrays |-> m.arrays, objs |-> m.objs, cache |-> m.cache]
    BY <1>1, MemoryIs
  <2>2. n = [m EXCEPT !.objs = [m.objs EXCEPT ![i] = obj]]
    BY <2>1, <1>2 DEF Cleared
  <2> QED BY <2>1, <2>2
<1>4. obj.array = m.objs[i].array /\ obj.dirty = FALSE
  OBVIOUS
<1> HIDE DEF obj
<1>5. /\ [m.objs EXCEPT ![i] = obj] \in Seq(Object)
      /\ Len([m.objs EXCEPT ![i] = obj]) = Len(m.objs)
      /\ \A j \in 1..Len(m.objs) : [m.objs EXCEPT ![i] = obj][j] = IF j = i THEN obj ELSE m.objs[j]
  BY <1>1, <1>2, ExceptSeq
<1>6. /\ n.objs \in Seq(Object) /\ Len(n.objs) = Len(m.objs)
      /\ \A j \in 1..Len(m.objs) : n.objs[j] = IF j = i THEN obj ELSE m.objs[j]
      /\ n.arrays = m.arrays /\ n.cache = m.cache
  BY <1>3, <1>5
<1>7. n \in Memory
  BY <1>1, <1>3, <1>5, MemoryIs
<1>8. /\ \A j \in 1..Len(m.objs) : n.objs[j].array = m.objs[j].array
      /\ n.objs[i].dirty = FALSE
  BY <1>4, <1>6
<1>9. Sound(n, U) /\ Grows(m, n)
  BY <1>1, <1>6, <1>7, <1>8 DEF Sound, Grows
<1>10. CellsOf(n, i) = CellsOf(m, i) /\ CellsOf(m, i) \subseteq U
  BY <1>6, <1>8 DEF CellsOf, Sound
<1> QED BY <1>6, <1>8, <1>9, <1>10 DEF Flagged

-----------------------------------------------------------------------------
(* The queue at the write lock *)

\* q holds at most one write of the persist loop, and only while the loop is alive.
Queue(q, loop, U) ==
    /\ q \in Seq(Write)
    /\ \A i \in 1..Len(q) : q[i].cells \subseteq U
    /\ \A i \in 1..Len(q) : q[i].by = "persist" => loop # 0
    /\ \A i, j \in 1..Len(q) : q[i].by = "persist" /\ q[j].by = "persist" => i = j

\* A write joins the queue.
LEMMA AppendFacts ==
    ASSUME NEW U, NEW q, NEW loop, Queue(q, loop, U), NEW next, loop # 0 => next # 0,
           NEW w \in Write, w.cells \subseteq U, w.by = "persist" => loop = 0 /\ next # 0,
           NEW r, r = Append(q, w)
    PROVE  Queue(r, next, U)
<1>1. q \in Seq(Write) /\ Len(q) \in Nat
  BY DEF Queue
<1>2. /\ r \in Seq(Write) /\ Len(r) = Len(q) + 1 /\ r[Len(q) + 1] = w
      /\ \A i \in 1..Len(q) : r[i] = q[i]
  BY <1>1, AppendProperties
<1>3. \A i \in 1..Len(r) : i \in 1..Len(q) \/ i = Len(q) + 1
  BY <1>1, <1>2
<1> QED BY <1>1, <1>2, <1>3 DEF Queue

\* The first write leaves the queue.
LEMMA TailFacts ==
    ASSUME NEW U, NEW q, NEW loop, Queue(q, loop, U), q # <<>>, NEW r, r = Tail(q)
    PROVE  Queue(r, loop, U) /\ (q[1].by = "persist" => Queue(r, 0, U))
<1>1. q \in Seq(Write) /\ Len(q) \in Nat
  BY DEF Queue
<1>2. /\ r \in Seq(Write) /\ Len(r) = Len(q) - 1
      /\ \A i \in 1..Len(r) : r[i] = q[i + 1]
  BY <1>1, HeadTailProperties
<1>3. \A i \in 1..Len(r) : i \in Nat /\ i + 1 \in 1..Len(q) /\ i + 1 # 1
  BY <1>1, <1>2
<1>4. 1 \in 1..Len(q)
  BY <1>1, EmptySeq
<1>5. \A i, j \in 1..Len(r) : i + 1 = j + 1 => i = j
  BY <1>3
<1> QED BY <1>1, <1>2, <1>3, <1>4, <1>5 DEF Queue

\* What schedulePersist leaves, when saveCells has left m.
Scheduled(m) ==
    /\ Sound(mem', used') /\ Grows(m, mem') /\ Queue(writes', persisting', used')
    /\ mem'.arrays = m.arrays /\ mem'.cache = m.cache /\ Len(mem'.objs) = Len(m.objs)
    /\ m.cache # 0 => Array(mem') = Array(m)
    /\ IF persisting = 0 /\ Changed(m)
       THEN /\ ~Changed(mem') /\ persisting' = m.cache
            /\ writes' = Append(writes, Bundle("persist", CellsOf(m, m.cache)))
       ELSE mem' = m /\ UNCHANGED <<writes, persisting>>

\* One turn of the loop leaves a sound memory and a queue with its write.
LEMMA SnapshotFacts ==
    ASSUME used' \subseteq Edits, NEW m, Sound(m, used'), NEW i \in 1..Len(m.objs),
           NEW q, Queue(q, 0, used'), Snapshot(m, i, q)
    PROVE  /\ Flagged(m, mem', used', i, FALSE) /\ Queue(writes', persisting', used')
           /\ writes' = Append(q, Bundle("persist", CellsOf(m, i))) /\ persisting' = i
<1>1. mem' = Cleared(m, i)
  BY DEF Snapshot, Cleared
<1>2. Flagged(m, mem', used', i, FALSE) /\ CellsOf(m, i) \subseteq used'
  BY <1>1, FlagFacts, Zenon
<1>3. i # 0
  BY DEF Sound, Memory
<1>4. Bundle("persist", CellsOf(m, i)) \in Write
  BY <1>2 DEF Bundle, Write, Content
<1>5. Bundle("persist", CellsOf(m, i)).cells = CellsOf(m, i)
  BY DEF Bundle
<1>6. writes' = Append(q, Bundle("persist", CellsOf(m, i))) /\ persisting' = i
  BY DEF Snapshot
<1>7. Queue(writes', persisting', used')
  BY <1>2, <1>3, <1>4, <1>5, <1>6, AppendFacts
<1> QED BY <1>2, <1>6, <1>7

\* schedulePersist starts a loop, or leaves the work to the one in flight.
LEMMA ScheduleFacts ==
    ASSUME used' \subseteq Edits, NEW m, Sound(m, used'), Queue(writes, persisting, used'),
           Schedule(m)
    PROVE  Scheduled(m)
<1>1. m.cache \in 0..Len(m.objs) /\ Len(m.objs) \in Nat /\ Len(m.arrays) \in Nat
  BY DEF Sound, Memory
<1>2. CASE persisting = 0 /\ Changed(m)
  <2>1. Snapshot(m, m.cache, writes) /\ m.cache \in 1..Len(m.objs)
    BY <1>1, <1>2 DEF Schedule, Changed
  <2>2. /\ Flagged(m, mem', used', m.cache, FALSE) /\ Queue(writes', persisting', used')
        /\ writes' = Append(writes, Bundle("persist", CellsOf(m, m.cache)))
        /\ persisting' = m.cache
    BY <1>2, <2>1, SnapshotFacts
  <2> QED BY <1>2, <2>1, <2>2 DEF Scheduled, Flagged, Changed, Array
<1>3. CASE ~(persisting = 0 /\ Changed(m))
  <2>1. mem' = m /\ UNCHANGED <<writes, persisting>>
    BY <1>3 DEF Schedule, Changed
  <2> QED BY <1>1, <1>3, <2>1 DEF Scheduled, Grows, Array
<1> QED BY <1>2, <1>3

-----------------------------------------------------------------------------
(* Types *)

\* Every number of an array names one, and every content is made of used edits.
OpsFit(p, n, U) ==
    /\ p \in [Ops -> Op \cup {None}]
    /\ \A o \in Ops : p[o] # None =>
          /\ p[o].phase \in {"running", "background"} => p[o].array \in 1..n
          /\ p[o].edit \in U \cup {None}

PageFits(p, U) ==
    /\ p \in Page
    /\ p.shown # None => p.shown \subseteq U
    /\ p.saved \subseteq U
    /\ p.saving # "no" => p.shown # None

WarmingFits(w, U) ==
    /\ w \in [phase : {"none", "reading", "read", "installed"}, cells : Content]
    /\ w.cells \subseteq U

FileFits(f, U) == f \in [cells : Content, mtime : Nat] /\ f.cells \subseteq U

Typed ==
    /\ used \subseteq Edits /\ kept \subseteq used
    /\ past \subseteq {"undone", "ran", "inBackground", "failed", "overlap"}
    /\ FileFits(file, used)
    /\ Sound(mem, used)
    /\ persisting \in 0..Len(mem.objs)
    /\ WarmingFits(warming, used)
    /\ OpsFit(ops, Len(mem.arrays), used)
    /\ Queue(writes, persisting, used)
    /\ PageFits(page, used)

\* The types are part of the invariant.
LEMMA TypedTypes == Typed => TypeOK
BY DEF Typed, TypeOK, Sound, Queue, OpsFit, PageFits, WarmingFits, FileFits, Content

\* The initial state has its types.
LEMMA InitTyped == Init => Typed
<1> SUFFICES ASSUME Init PROVE Typed
  OBVIOUS
<1>1. Sound(mem, used)
  <2>1. mem = [arrays |-> <<>>, objs |-> <<>>, cache |-> 0]
    BY DEF Init
  <2>2. mem.arrays = <<>> /\ mem.objs = <<>> /\ mem.cache = 0
    BY <2>1
  <2>3. mem \in Memory
    BY <2>1, MemoryIs
  <2> QED BY <2>2, <2>3 DEF Sound
<1>2. Queue(writes, persisting, used)
  BY DEF Init, Queue
<1>3. WarmingFits(warming, used) /\ FileFits(file, used)
  BY DEF Init, WarmingFits, FileFits, NoWarming, Content
<1>4. PageFits(page, used)
  BY DEF Init, PageFits, NoPage, Page, Content
<1>5. OpsFit(ops, Len(mem.arrays), used)
  BY DEF Init, OpsFit
<1>6. persisting \in 0..Len(mem.objs)
  BY DEF Init
<1> QED BY <1>1, <1>2, <1>3, <1>4, <1>5, <1>6 DEF Typed, Init

\* What fits goes on fitting when arrays and edits are added.
LEMMA Grown ==
    ASSUME NEW U, NEW V, U \subseteq V, V \subseteq Edits
    PROVE  /\ \A f : FileFits(f, U) => FileFits(f, V)
           /\ \A w : WarmingFits(w, U) => WarmingFits(w, V)
           /\ \A p : PageFits(p, U) => PageFits(p, V)
           /\ \A m : Sound(m, U) => Sound(m, V)
           /\ \A q, loop : Queue(q, loop, U) => Queue(q, loop, V)
           /\ \A p : \A n, k \in Nat : OpsFit(p, n, U) /\ n <= k => OpsFit(p, k, V)
<1>1. \A f : FileFits(f, U) => FileFits(f, V)
  BY DEF FileFits
<1>2. \A w : WarmingFits(w, U) => WarmingFits(w, V)
  BY DEF WarmingFits
<1>3. \A p : PageFits(p, U) => PageFits(p, V)
  BY DEF PageFits
<1>4. \A m : Sound(m, U) => Sound(m, V)
  BY DEF Sound
<1>5. \A q, loop : Queue(q, loop, U) => Queue(q, loop, V)
  BY DEF Queue
<1>6. \A p : \A n, k \in Nat : OpsFit(p, n, U) /\ n <= k => OpsFit(p, k, V)
  BY DEF OpsFit
<1> QED BY <1>1, <1>2, <1>3, <1>4, <1>5, <1>6

\* One request changes.
LEMMA OpChanged ==
    ASSUME NEW U, NEW n, NEW p, OpsFit(p, n, U), NEW o \in Ops, NEW x \in Op,
           x.phase \in {"running", "background"} => x.array \in 1..n,
           x.edit \in U \cup {None}
    PROVE  OpsFit([p EXCEPT ![o] = x], n, U)
BY DEF OpsFit

\* Operations still fit when one of them is done.
LEMMA OpDone ==
    ASSUME NEW U, NEW n, NEW p, OpsFit(p, n, U), NEW o \in Ops
    PROVE  OpsFit([p EXCEPT ![o] = None], n, U)
BY DEF OpsFit

-----------------------------------------------------------------------------
(* What the requests of agents do to the memory *)

\* An edit changes the array it finds, stores it and schedules a write.
LEMMA EditMemory ==
    ASSUME Typed, NEW o \in Ops, NEW e \in AgentEdits, EditCells(o, e)
    PROVE  \E c, d, s : /\ Found(mem, c, used') /\ Edited(c, d, used', Array(c), e)
                        /\ Stored(d, s, used', Array(c)) /\ Scheduled(s)
<1>1. /\ used' = used \cup {e} /\ used \subseteq used' /\ used' \subseteq Edits /\ e \in used'
      /\ file.cells \subseteq used'
  BY DEF EditCells, Typed, Edits, FileFits
<1>2. Sound(mem, used') /\ Queue(writes, persisting, used')
  BY <1>1, Grown DEF Typed
<1> DEFINE c == Cached(mem)
           d == InPlace(c, Array(c), e)
           s == Saved(d, Array(c))
<1>3. Found(mem, c, used')
  BY <1>1, <1>2, CachedFacts, Zenon
<1>4. Sound(c, used') /\ c.cache # 0 /\ Array(c) \in 1..Len(c.arrays)
  BY <1>3 DEF Found, Sound, Array, Memory
<1> HIDE DEF c
<1>5. Edited(c, d, used', Array(c), e)
  BY <1>1, <1>4, InPlaceFacts, Zenon
<1>6. Sound(d, used') /\ d.cache # 0 /\ Array(c) \in 1..Len(d.arrays)
  BY <1>4, <1>5 DEF Edited
<1> HIDE DEF d
<1>7. \E x : Found(d, x, used') /\ Stored(x, s, used', Array(c))
  BY <1>1, <1>6, SavedFacts, Zenon
<1>8. Stored(d, s, used', Array(c))
  BY <1>6, <1>7 DEF Found
<1>9. Schedule(s)
  BY DEF EditCells, c, d, Array
<1>10. Sound(s, used')
  BY <1>8 DEF Stored
<1> HIDE DEF s
<1>11. Scheduled(s)
  BY <1>1, <1>2, <1>9, <1>10, ScheduleFacts, Zenon
<1> QED BY <1>3, <1>5, <1>8, <1>11

\* An undo stores a new array without the edit and schedules a write.
LEMMA UndoMemory ==
    ASSUME Typed, NEW o \in Ops, NEW e \in AgentEdits, UndoEdit(o, e)
    PROVE  \E c, d, s : /\ Found(mem, c, used') /\ e \in CellsOf(c, c.cache)
                        /\ Extended(c, d, used', CellsOf(c, c.cache) \ {e})
                        /\ Stored(d, s, used', Len(d.arrays)) /\ Scheduled(s)
<1>1. used' = used /\ used' \subseteq Edits /\ file.cells \subseteq used'
  BY DEF UndoEdit, Typed, FileFits
<1>2. Sound(mem, used') /\ Queue(writes, persisting, used')
  BY <1>1 DEF Typed
<1> DEFINE c == Cached(mem)
           old == CellsOf(c, c.cache)
           d == [c EXCEPT !.arrays = Append(@, old \ {e})]
           s == Saved(d, Len(d.arrays))
<1>3. Found(mem, c, used')
  BY <1>1, <1>2, CachedFacts, Zenon
<1>4. Sound(c, used') /\ c.cache # 0 /\ old \subseteq used' /\ Len(c.arrays) \in Nat
  BY <1>3 DEF Found, Sound, CellsOf, Memory
<1>5. e \in old /\ Schedule(s)
  BY DEF UndoEdit
<1> HIDE DEF c
<1>6. old \ {e} \subseteq used'
  BY <1>4
<1>7. Extended(c, d, used', old \ {e})
  BY <1>1, <1>4, <1>6, ExtendedFacts, Zenon
<1>8. Sound(d, used') /\ d.cache # 0 /\ Len(d.arrays) \in 1..Len(d.arrays)
  BY <1>4, <1>7 DEF Extended
<1> HIDE DEF d
<1>9. \E x : Found(d, x, used') /\ Stored(x, s, used', Len(d.arrays))
  BY <1>1, <1>8, SavedFacts, Zenon
<1>10. Stored(d, s, used', Len(d.arrays))
  BY <1>8, <1>9 DEF Found
<1>11. Sound(s, used')
  BY <1>10 DEF Stored
<1> HIDE DEF s
<1>12. Scheduled(s)
  BY <1>1, <1>2, <1>5, <1>11, ScheduleFacts, Zenon
<1> QED BY <1>3, <1>5, <1>7, <1>10, <1>12

\* p is the memory with the outputs of a run in the array it holds.
Output(o, p, U) ==
    \/ p = mem
    \/ \E e \in U : Edited(mem, p, U, ops[o].array, e) /\ e \notin used /\ U = used \cup {e}

\* A run stores the array it holds.
LEMMA RunMemory ==
    ASSUME Typed, NEW U, used \subseteq U, U \subseteq Edits, NEW o \in Ops, ops[o] # None,
           ops[o].phase \in {"running", "background"},
           NEW p, Output(o, p, U), NEW s, s = Store(p, o)
    PROVE  \E c : /\ Found(p, c, U) /\ Stored(c, s, U, ops[o].array)
                  /\ Grows(mem, p) /\ p.cache = mem.cache
<1>1. ops[o].array \in 1..Len(mem.arrays) /\ Len(mem.arrays) \in Nat /\ Len(mem.objs) \in Nat
  BY DEF Typed, OpsFit, Sound, Memory
<1>2. Sound(mem, U) /\ file.cells \subseteq U
  BY Grown DEF Typed, FileFits
<1>3. Sound(p, U) /\ Grows(mem, p) /\ p.cache = mem.cache
  BY <1>1, <1>2 DEF Output, Edited, Grows
<1>4. ops[o].array \in 1..Len(p.arrays)
  BY <1>1, <1>3 DEF Grows, Sound, Memory
<1>5. s = Saved(p, ops[o].array)
  BY DEF Store
<1> QED BY <1>2, <1>3, <1>4, <1>5, SavedFacts, Zenon

\* Publishing an output puts it into the array that the run holds.
LEMMA PublishedFacts ==
    ASSUME Typed, NEW o \in Ops, ops[o] # None, ops[o].phase \in {"running", "background"},
           NEW e \in AgentEdits, OutputOf(o, e)
    PROVE  /\ Output(o, Published(o, e), used') /\ used' = used \cup {e}
           /\ used' \subseteq Edits
           /\ e = ops[o].edit => e \in used /\ Published(o, e) = mem
           /\ e # ops[o].edit =>
                 e \notin used /\ Edited(mem, Published(o, e), used', ops[o].array, e)
<1>1. used' = used \cup {e} /\ used' \subseteq Edits /\ used \subseteq used' /\ e # None
  BY NoneAssumption DEF OutputOf, Typed, Edits
<1>2. Sound(mem, used') /\ ops[o].array \in 1..Len(mem.arrays) /\ ops[o].edit \in used \cup {None}
  BY <1>1, Grown DEF Typed, OpsFit
<1>3. CASE e = ops[o].edit
  BY <1>1, <1>2, <1>3 DEF Published, Output
<1>4. CASE e # ops[o].edit
  <2>1. e \notin used /\ Published(o, e) = InPlace(mem, ops[o].array, e)
    BY <1>4 DEF OutputOf, Published
  <2>2. Edited(mem, Published(o, e), used', ops[o].array, e)
    BY <1>1, <1>2, <2>1, InPlaceFacts
  <2> QED BY <1>1, <1>4, <2>1, <2>2 DEF Output
<1> QED BY <1>1, <1>3, <1>4

-----------------------------------------------------------------------------
(* Every step preserves the types *)

\* What an agent's request must leave for the types to hold.
LEMMA AgentTyped ==
    ASSUME Typed, used \subseteq used', used' \subseteq Edits, kept' \subseteq used',
           past' \subseteq {"undone", "ran", "inBackground", "failed", "overlap"},
           Sound(mem', used'), Grows(mem, mem'), Queue(writes', persisting', used'),
           persisting' \in {persisting, mem'.cache},
           OpsFit(ops', Len(mem'.arrays), used'), UNCHANGED <<file, warming, page>>
    PROVE  Typed'
<1>1. FileFits(file, used') /\ WarmingFits(warming, used') /\ PageFits(page, used')
  BY Grown DEF Typed
<1>2. persisting' \in 0..Len(mem'.objs)
  BY DEF Typed, Sound, Memory, Grows
<1> QED BY <1>1, <1>2 DEF Typed

\* An agent's edit keeps the types.
LEMMA EditTyped == ASSUME Typed, NEW o \in Ops, NEW e \in AgentEdits, EditCells(o, e)
                   PROVE  Typed'
<1>1. PICK c, d, s : /\ Found(mem, c, used') /\ Edited(c, d, used', Array(c), e)
                     /\ Stored(d, s, used', Array(c)) /\ Scheduled(s)
  BY EditMemory
<1>2. Grows(mem, mem') /\ Sound(mem', used') /\ Queue(writes', persisting', used')
      /\ persisting' \in {persisting, mem'.cache} /\ Len(mem.arrays) <= Len(mem'.arrays)
      /\ Len(mem.arrays) \in Nat /\ Len(mem'.arrays) \in Nat
  BY <1>1 DEF Found, Edited, Stored, Scheduled, Grows, Sound, Memory, Typed
<1>3. /\ used' = used \cup {e} /\ kept' = kept \cup {e} /\ past' = past
      /\ UNCHANGED <<file, warming, page>> /\ ops' = [ops EXCEPT ![o] = None]
  BY DEF EditCells
<1>4. used \subseteq used' /\ used' \subseteq Edits /\ kept' \subseteq used'
  BY <1>3 DEF Typed, Edits
<1>5. OpsFit(ops', Len(mem'.arrays), used')
  BY <1>2, <1>3, <1>4, Grown, OpDone DEF Typed
<1> QED BY <1>2, <1>3, <1>4, <1>5, AgentTyped DEF Typed

\* An agent's undo keeps the types.
LEMMA UndoTyped == ASSUME Typed, NEW o \in Ops, NEW e \in AgentEdits, UndoEdit(o, e)
                   PROVE  Typed'
<1>1. PICK c, d, s : /\ Found(mem, c, used') /\ Extended(c, d, used', CellsOf(c, c.cache) \ {e})
                     /\ Stored(d, s, used', Len(d.arrays)) /\ Scheduled(s)
  BY UndoMemory
<1>2. Grows(mem, mem') /\ Sound(mem', used') /\ Queue(writes', persisting', used')
      /\ persisting' \in {persisting, mem'.cache} /\ Len(mem.arrays) <= Len(mem'.arrays)
      /\ Len(mem.arrays) \in Nat /\ Len(mem'.arrays) \in Nat
  BY <1>1 DEF Found, Extended, Stored, Scheduled, Grows, Sound, Memory, Typed
<1>3. /\ used' = used /\ kept' = kept \ {e} /\ past' = past \cup {"undone"}
      /\ UNCHANGED <<file, warming, page>> /\ ops' = [ops EXCEPT ![o] = None]
  BY DEF UndoEdit
<1>4. used \subseteq used' /\ used' \subseteq Edits /\ kept' \subseteq used'
      /\ past' \subseteq {"undone", "ran", "inBackground", "failed", "overlap"}
  BY <1>3 DEF Typed
<1>5. OpsFit(ops', Len(mem'.arrays), used')
  BY <1>2, <1>3, <1>4, Grown, OpDone DEF Typed
<1> QED BY <1>2, <1>3, <1>4, <1>5, AgentTyped DEF Typed

\* A read or the start of a run may fill the cache.
LEMMA FoundTyped ==
    ASSUME Typed, NEW o \in Ops, ReadCell(o) \/ StartRun(o)
    PROVE  Typed' /\ Found(mem, mem', used)
<1>1. mem' = Cached(mem) /\ UNCHANGED <<file, warming, page, persisting, writes, used, kept>>
      /\ past' \subseteq {"undone", "ran", "inBackground", "failed", "overlap"}
  BY DEF ReadCell, StartRun, told, Typed
<1>2. Sound(mem, used) /\ used \subseteq Edits /\ file.cells \subseteq used
  BY DEF Typed, FileFits
<1>3. Found(mem, mem', used)
  BY <1>1, <1>2, CachedFacts, Zenon
<1>4. Grows(mem, mem') /\ Sound(mem', used') /\ Queue(writes', persisting', used')
      /\ Len(mem.arrays) <= Len(mem'.arrays)
      /\ Len(mem.arrays) \in Nat /\ Len(mem'.arrays) \in Nat
      /\ mem'.objs[mem'.cache].array \in 1..Len(mem'.arrays)
  <2>1. Grows(mem, mem') /\ Sound(mem', used') /\ mem'.cache # 0
    BY <1>1, <1>3 DEF Found
  <2>2. Queue(writes', persisting', used')
    BY <1>1 DEF Typed
  <2>3. Len(mem.arrays) \in Nat /\ Len(mem'.arrays) \in Nat /\ Len(mem'.objs) \in Nat
    <3>1. mem \in Memory /\ mem' \in Memory
      BY <1>2, <2>1 DEF Sound
    <3> QED BY <3>1 DEF Memory
  <2>4. Len(mem.arrays) <= Len(mem'.arrays)
    BY <2>1 DEF Grows
  <2>5. mem'.cache \in 1..Len(mem'.objs)
    BY <2>1, <2>3 DEF Sound
  <2>6. mem'.objs[mem'.cache].array \in 1..Len(mem'.arrays)
    BY <2>1, <2>5 DEF Sound
  <2> QED BY <2>1, <2>2, <2>3, <2>4, <2>6
<1>5. OpsFit(ops, Len(mem'.arrays), used)
  BY <1>2, <1>4, Grown DEF Typed
<1>6. OpsFit(ops', Len(mem'.arrays), used')
  <2>1. CASE ReadCell(o)
    BY <1>1, <1>5, <2>1, OpDone DEF ReadCell
  <2>2. CASE StartRun(o)
    <3> DEFINE a == mem'.objs[mem'.cache].array
               x == [ops[o] EXCEPT !.phase = "running", !.array = a]
    <3>1. ops[o] \in Op /\ ops[o].edit \in used \cup {None}
      BY <2>2 DEF StartRun, Turn, Typed, OpsFit
    <3>2. x \in Op /\ x.array \in 1..Len(mem'.arrays) /\ x.edit \in used \cup {None}
      <4>1. a \in 1..Len(mem'.arrays) /\ a \in Nat
        BY <1>4
      <4> HIDE DEF a
      <4> QED BY <3>1, <4>1 DEF Op
    <3>3. ops' = [ops EXCEPT ![o] = x]
      <4>1. ops' = [ops EXCEPT ![o].phase = "running",
                               ![o].array = mem'.objs[mem'.cache].array]
        BY <2>2 DEF StartRun
      <4>2. ops \in [Ops -> Op \cup {None}]
        BY DEF Typed, OpsFit
      <4> QED BY <4>1, <4>2, <3>1
    <3> HIDE DEF x
    <3> QED BY <1>1, <1>5, <3>2, <3>3, OpChanged
  <2> QED BY <2>1, <2>2
<1> QED BY <1>1, <1>2, <1>3, <1>4, <1>6, AgentTyped DEF Typed

\* The memory after a step of a run, with or without a write scheduled.
RunChanges(o, p, c, s) ==
    /\ Output(o, p, used') /\ Found(p, c, used') /\ Stored(c, s, used', ops[o].array)
    /\ Grows(mem, p) /\ p.cache = mem.cache

\* A run puts the array it holds into the notebook that is cached now.
LEMMA RunTyped ==
    ASSUME Typed, NEW o \in Ops, Run(o)
    PROVE  /\ Typed'
           /\ \A e \in AgentEdits :
                 /\ RunOutputs(o, e) \/ RunEnds(o, e) =>
                       \E c : /\ RunChanges(o, Published(o, e), c, mem')
                              /\ UNCHANGED <<writes, persisting>>
                 /\ RunAnswered(o, e) =>
                       \E c, s : RunChanges(o, Published(o, e), c, s) /\ Scheduled(s)
           /\ RunTimesOut(o) => \E c, s : RunChanges(o, mem, c, s) /\ Scheduled(s)
<1>1. ops[o] # None /\ ops[o].phase \in {"running", "background"} /\ ops[o] \in Op
      /\ ops[o].edit \in used \cup {None} /\ ops[o].array \in 1..Len(mem.arrays)
  BY DEF Run, RunOutputs, RunAnswered, RunEnds, RunTimesOut, Runs, Typed, OpsFit
<1>2. /\ used \subseteq used' /\ used' \subseteq Edits /\ kept' \subseteq used'
      /\ past' \subseteq {"undone", "ran", "inBackground", "failed", "overlap"}
      /\ UNCHANGED <<file, warming, page>>
  BY DEF Run, RunOutputs, RunAnswered, RunEnds, RunTimesOut, OutputOf, Typed, Edits
<1>3. Queue(writes, persisting, used')
  BY <1>2, Grown DEF Typed
<1>4. ASSUME NEW p, Output(o, p, used'), NEW s, s = Store(p, o),
             Schedule(s) \/ (mem' = s /\ UNCHANGED <<writes, persisting>>)
      PROVE  /\ \E c : RunChanges(o, p, c, s)
             /\ Schedule(s) => Scheduled(s)
             /\ Sound(mem', used') /\ Grows(mem, mem') /\ Queue(writes', persisting', used')
             /\ persisting' \in {persisting, mem'.cache}
  <2>1. PICK c : /\ Found(p, c, used') /\ Stored(c, s, used', ops[o].array)
                 /\ Grows(mem, p) /\ p.cache = mem.cache
    BY <1>1, <1>2, <1>4, RunMemory
  <2>2. RunChanges(o, p, c, s)
    BY <1>4, <2>1 DEF RunChanges
  <2>3. Sound(s, used') /\ Grows(mem, s)
    BY <2>1 DEF Stored, Found, Grows, Typed, Sound, Memory
  <2>4. Schedule(s) => Scheduled(s)
    BY <1>2, <1>3, <2>3, ScheduleFacts
  <2>5. CASE Schedule(s)
    <3>1. Scheduled(s)
      BY <2>4, <2>5
    <3>2. Grows(mem, mem')
      BY <2>3, <3>1 DEF Scheduled, Grows, Typed, Sound, Memory
    <3> QED BY <2>2, <2>4, <3>1, <3>2 DEF Scheduled
  <2>6. CASE mem' = s /\ UNCHANGED <<writes, persisting>>
    BY <1>3, <2>2, <2>3, <2>4, <2>6
  <2> QED BY <1>4, <2>5, <2>6
<1>5. \A e \in AgentEdits : OutputOf(o, e) => Output(o, Published(o, e), used')
  BY <1>1, PublishedFacts
<1>6. \A e \in AgentEdits :
          /\ RunOutputs(o, e) \/ RunEnds(o, e) =>
                \E c : /\ RunChanges(o, Published(o, e), c, mem')
                       /\ UNCHANGED <<writes, persisting>>
          /\ RunAnswered(o, e) =>
                \E c, s : RunChanges(o, Published(o, e), c, s) /\ Scheduled(s)
  <2> SUFFICES ASSUME NEW e \in AgentEdits
               PROVE /\ RunOutputs(o, e) \/ RunEnds(o, e) =>
                           \E c : /\ RunChanges(o, Published(o, e), c, mem')
                                  /\ UNCHANGED <<writes, persisting>>
                     /\ RunAnswered(o, e) =>
                           \E c, s : RunChanges(o, Published(o, e), c, s) /\ Scheduled(s)
    OBVIOUS
  <2>1. ASSUME RunOutputs(o, e) \/ RunEnds(o, e)
        PROVE  \E c : /\ RunChanges(o, Published(o, e), c, mem')
                      /\ UNCHANGED <<writes, persisting>>
    <3>1. mem' = Store(Published(o, e), o) /\ UNCHANGED <<writes, persisting>> /\ OutputOf(o, e)
      BY <2>1 DEF RunOutputs, RunEnds
    <3>2. \E c : RunChanges(o, Published(o, e), c, mem')
      BY <1>4, <1>5, <3>1
    <3> QED BY <3>1, <3>2
  <2>2. ASSUME RunAnswered(o, e)
        PROVE  \E c, s : RunChanges(o, Published(o, e), c, s) /\ Scheduled(s)
    <3> DEFINE s == Store(Published(o, e), o)
    <3>1. Schedule(s) /\ OutputOf(o, e)
      BY <2>2 DEF RunAnswered
    <3> HIDE DEF s
    <3>2. s = Store(Published(o, e), o)
      BY DEF s
    <3>3. Scheduled(s) /\ \E c : RunChanges(o, Published(o, e), c, s)
      BY <1>4, <1>5, <3>1, <3>2
    <3> QED BY <3>3
  <2> QED BY <2>1, <2>2
<1>7. RunTimesOut(o) => \E c, s : RunChanges(o, mem, c, s) /\ Scheduled(s)
  <2> SUFFICES ASSUME RunTimesOut(o) PROVE \E c, s : RunChanges(o, mem, c, s) /\ Scheduled(s)
    OBVIOUS
  <2> DEFINE s == Store(mem, o)
  <2>1. Schedule(s) /\ Output(o, mem, used')
    BY DEF RunTimesOut, Output
  <2> HIDE DEF s
  <2>2. s = Store(mem, o)
    BY DEF s
  <2>3. Scheduled(s) /\ \E c : RunChanges(o, mem, c, s)
    BY <1>4, <2>1, <2>2
  <2> QED BY <2>3
<1>8. \E p, s : /\ Output(o, p, used') /\ s = Store(p, o)
                /\ Schedule(s) \/ (mem' = s /\ UNCHANGED <<writes, persisting>>)
  <2>1. ASSUME NEW e \in AgentEdits, RunOutputs(o, e) \/ RunEnds(o, e) \/ RunAnswered(o, e)
        PROVE  <1>8
    BY <1>5, <2>1 DEF RunOutputs, RunEnds, RunAnswered
  <2>2. ASSUME RunTimesOut(o) PROVE <1>8
    BY <2>2 DEF RunTimesOut, Output
  <2> QED BY <2>1, <2>2 DEF Run
<1>9. /\ Sound(mem', used') /\ Grows(mem, mem') /\ Queue(writes', persisting', used')
      /\ persisting' \in {persisting, mem'.cache}
  BY <1>4, <1>8
<1>10. OpsFit(ops, Len(mem'.arrays), used')
  <2>1. Len(mem.arrays) \in Nat /\ Len(mem'.arrays) \in Nat /\ Len(mem.arrays) <= Len(mem'.arrays)
    BY <1>9 DEF Grows, Sound, Memory, Typed
  <2> QED BY <1>2, <2>1, Grown DEF Typed
<1>11. ops[o].array \in 1..Len(mem'.arrays)
  BY <1>1, <1>10 DEF OpsFit
<1>12. OpsFit(ops', Len(mem'.arrays), used')
  <2>1. ASSUME NEW e \in AgentEdits, RunOutputs(o, e) PROVE <1>12
    <3> DEFINE x == [ops[o] EXCEPT !.edit = e]
    <3>1. ops' = [ops EXCEPT ![o] = x]
      BY <1>1, <2>1 DEF RunOutputs, Typed, OpsFit
    <3>2. x \in Op /\ x.edit = e /\ x.array = ops[o].array /\ e \in used'
      BY <1>1, <2>1 DEF Op, Edits, RunOutputs, OutputOf
    <3> HIDE DEF x
    <3> QED BY <1>10, <1>11, <3>1, <3>2, OpChanged
  <2>2. ASSUME RunTimesOut(o) PROVE <1>12
    <3> DEFINE x == [ops[o] EXCEPT !.phase = "background"]
    <3>1. ops' = [ops EXCEPT ![o] = x]
      BY <1>1, <2>2 DEF RunTimesOut, Typed, OpsFit
    <3>2. x \in Op /\ x.edit = ops[o].edit /\ x.array = ops[o].array
      BY <1>1 DEF Op
    <3> HIDE DEF x
    <3> QED BY <1>1, <1>2, <1>10, <1>11, <3>1, <3>2, OpChanged
  <2>3. ASSUME NEW e \in AgentEdits, RunAnswered(o, e) \/ RunEnds(o, e) PROVE <1>12
    BY <1>10, <2>3, OpDone DEF RunAnswered, RunEnds
  <2> QED BY <2>1, <2>2, <2>3 DEF Run
<1> QED BY <1>2, <1>6, <1>7, <1>9, <1>12, AgentTyped

\* Dropping the cache keeps what tasks hold.
LEMMA DroppedFacts ==
    ASSUME NEW U, NEW m, Sound(m, U), NEW n, n = Dropped(m)
    PROVE  Sound(n, U) /\ Grows(m, n) /\ n.cache = 0 /\ Len(n.objs) = Len(m.objs)
           /\ Len(n.arrays) = Len(m.arrays)
<1>1. m = [arrays |-> m.arrays, objs |-> m.objs, cache |-> m.cache]
  BY MemoryIs DEF Sound
<1>2. n = [arrays |-> m.arrays, objs |-> m.objs, cache |-> 0]
  BY <1>1 DEF Dropped
<1>3. m.arrays \in Seq(Content) /\ m.objs \in Seq(Object)
  BY MemoryIs DEF Sound
<1>4. n \in Memory /\ n.arrays = m.arrays /\ n.objs = m.objs /\ n.cache = 0
  BY <1>2, <1>3, MemoryIs
<1> QED BY <1>3, <1>4 DEF Sound, Grows

\* The head of the queue is decided.
LEMMA WriteFacts ==
    ASSUME Typed, NEW ok \in BOOLEAN, WriteFile(ok)
    PROVE  /\ writes # <<>> /\ Queue(writes', persisting, used)
           /\ Len(writes') = Len(writes) /\ Len(writes) \in Nat /\ 1 \in 1..Len(writes)
           /\ \A i \in 1..Len(writes) : i # 1 => writes'[i] = writes[i]
           /\ writes'[1].cells = writes[1].cells /\ writes'[1].by = writes[1].by
           /\ writes'[1].stage = (IF ok THEN "written" ELSE "failed")
           /\ writes'[1].mtime = file'.mtime
           /\ FileFits(file', used)
<1>1. writes \in Seq(Write) /\ writes # <<>> /\ Len(writes) \in Nat /\ 1 \in 1..Len(writes)
  BY EmptySeq DEF WriteFile, Typed, Queue
<1>2. writes[1] \in Write /\ writes[1].cells \subseteq used /\ used \subseteq Edits
  BY <1>1 DEF Typed, Queue
<1>3. FileFits(file', used)
  BY <1>2 DEF WriteFile, Typed, FileFits, Write
<1> DEFINE stage == IF ok THEN "written" ELSE "failed"
           w == [writes[1] EXCEPT !.stage = stage, !.mtime = file'.mtime]
<1>4. writes' = [writes EXCEPT ![1] = w]
  BY <1>1 DEF WriteFile
<1>5. stage \in {"written", "failed"} /\ file'.mtime \in Nat
  BY <1>3 DEF FileFits
<1>6. stage = (IF ok THEN "written" ELSE "failed")
  OBVIOUS
<1> HIDE DEF stage
<1>7. w \in Write /\ w.cells = writes[1].cells /\ w.by = writes[1].by /\ w.stage = stage
      /\ w.mtime = file'.mtime
  BY <1>2, <1>5 DEF Write
<1> HIDE DEF w
<1>8. /\ writes' \in Seq(Write) /\ Len(writes') = Len(writes)
      /\ \A j \in 1..Len(writes) : writes'[j] = IF j = 1 THEN w ELSE writes[j]
  BY <1>1, <1>4, <1>7, ExceptSeq
<1>9. Queue(writes', persisting, used)
  BY <1>1, <1>2, <1>7, <1>8 DEF Queue, Typed
<1> QED BY <1>1, <1>3, <1>6, <1>7, <1>8, <1>9

\* The saves of a page that goes away are still in the queue.
LEMMA CloseFacts ==
    ASSUME Typed, ClosePage
    PROVE  /\ Queue(writes', persisting, used) /\ Len(writes') = Len(writes)
           /\ \A i \in 1..Len(writes) :
                 /\ writes'[i].by = IF writes[i].by = "page" THEN "gone" ELSE writes[i].by
                 /\ writes'[i].cells = writes[i].cells
<1>1. writes \in Seq(Write) /\ Len(writes) \in Nat
  BY DEF Typed, Queue
<1>2. \A i \in 1..Len(writes) : writes[i] \in Write
  BY <1>1
<1>3. \A w \in Write : /\ [w EXCEPT !.by = "gone"] \in Write
                       /\ [w EXCEPT !.by = "gone"].by = "gone"
                       /\ [w EXCEPT !.by = "gone"].cells = w.cells
  BY DEF Write
<1>4. writes' = [i \in 1..Len(writes) |-> IF writes[i].by = "page"
                                         THEN [writes[i] EXCEPT !.by = "gone"] ELSE writes[i]]
  BY DEF ClosePage
<1>5. /\ writes' \in Seq(Write) /\ Len(writes') = Len(writes)
      /\ \A i \in 1..Len(writes) :
            writes'[i] = IF writes[i].by = "page" THEN [writes[i] EXCEPT !.by = "gone"]
                         ELSE writes[i]
  BY <1>1, <1>2, <1>3, <1>4
<1>6. \A i \in 1..Len(writes) :
         /\ writes'[i].by = IF writes[i].by = "page" THEN "gone" ELSE writes[i].by
         /\ writes'[i].cells = writes[i].cells
  <2> SUFFICES ASSUME NEW i \in 1..Len(writes)
               PROVE /\ writes'[i].by = IF writes[i].by = "page" THEN "gone" ELSE writes[i].by
                     /\ writes'[i].cells = writes[i].cells
    OBVIOUS
  <2>1. CASE writes[i].by = "page"
    <3>1. writes'[i] = [writes[i] EXCEPT !.by = "gone"]
      BY <1>5, <2>1
    <3> QED BY <1>2, <1>3, <2>1, <3>1
  <2>2. CASE writes[i].by # "page"
    <3>1. writes'[i] = writes[i]
      BY <1>5, <2>2
    <3> QED BY <2>2, <3>1
  <2> QED BY <2>1, <2>2
<1>7. Queue(writes', persisting, used)
  BY <1>1, <1>5, <1>6 DEF Queue, Typed
<1> QED BY <1>5, <1>6, <1>7

\* The steps of the write lock and the warm-up preserve the types.
LEMMA ServerTyped ==
    ASSUME Typed, Warm \/ Persist
    PROVE  Typed'
<1> USE DEF told
<1>0. Len(mem.arrays) \in Nat /\ Len(mem.objs) \in Nat /\ used \in SUBSET Edits
  BY DEF Typed, Sound, Memory
<1>1. CASE WarmRead
  BY <1>1 DEF WarmRead, Typed, WarmingFits, FileFits
<1>2. CASE WarmInstall
  <2>1. warming' = [warming EXCEPT !.phase = "installed"]
        /\ UNCHANGED <<file, ops, persisting, writes, page, used, told>>
    BY <1>2 DEF WarmInstall
  <2>2. WarmingFits(warming', used)
    BY <2>1 DEF WarmingFits, Typed
  <2>3. warming.cells \subseteq used
    BY DEF Typed, WarmingFits
  <2>4. Sound(mem', used) /\ Grows(mem, mem')
    <3>1. CASE mem.cache = 0
      <4>1. mem' = Installed(mem, warming.cells)
        BY <1>2, <3>1 DEF WarmInstall
      <4>2. Fresh(mem, mem', used, warming.cells)
        BY <1>0, <2>3, <4>1, InstalledFacts DEF Typed
      <4> QED BY <4>2 DEF Fresh
    <3>2. CASE mem.cache # 0
      BY <1>0, <1>2, <3>2 DEF WarmInstall, Typed, Grows
    <3> QED BY <3>1, <3>2
  <2>5. /\ Len(mem'.arrays) \in Nat /\ Len(mem'.objs) \in Nat
        /\ Len(mem.arrays) <= Len(mem'.arrays) /\ Len(mem.objs) <= Len(mem'.objs)
    BY <2>4 DEF Sound, Grows, Memory
  <2>6. OpsFit(ops, Len(mem'.arrays), used)
    BY <1>0, <2>5, Grown DEF Typed
  <2> QED BY <1>0, <2>1, <2>2, <2>4, <2>5, <2>6 DEF Typed
<1>3. CASE WarmEnd
  <2>1. WarmingFits(NoWarming, used)
    BY DEF WarmingFits, NoWarming, Content
  <2>2. \A x \in Op : /\ [x EXCEPT !.phase = "permission"] \in Op
                      /\ [x EXCEPT !.phase = "permission"].phase = "permission"
                      /\ [x EXCEPT !.phase = "permission"].edit = x.edit
    BY DEF Op
  <2>3. ops' = [o \in Ops |-> IF ops[o] # None /\ ops[o].phase = "warming"
                              THEN [ops[o] EXCEPT !.phase = "permission"] ELSE ops[o]]
    BY <1>3 DEF WarmEnd
  <2>4. OpsFit(ops', Len(mem.arrays), used)
    BY <2>2, <2>3 DEF Typed, OpsFit
  <2> QED BY <1>3, <2>1, <2>4 DEF WarmEnd, Typed
<1>4. ASSUME NEW ok \in BOOLEAN, WriteFile(ok) PROVE Typed'
  <2>1. Queue(writes', persisting, used) /\ FileFits(file', used)
    BY <1>4, WriteFacts
  <2>2. UNCHANGED <<mem, warming, ops, persisting, page, used, kept>>
    BY <1>4 DEF WriteFile
  <2>3. past' \subseteq {"undone", "ran", "inBackground", "failed", "overlap"}
    BY <1>4 DEF WriteFile, Typed
  <2> QED BY <2>1, <2>2, <2>3 DEF Typed
<1>5. CASE PersistEnds
  <2>1. writes # <<>> /\ writes[1].by = "persist"
        /\ UNCHANGED <<file, warming, ops, page, used, kept, past>>
    BY <1>5 DEF PersistEnds, Ended
  <2>2. persisting \in 1..Len(mem.objs) /\ 1 \in 1..Len(writes)
    BY <1>0, <2>1, EmptySeq DEF Typed, Queue
  <2>3. Queue(Tail(writes), 0, used)
    BY <2>1, TailFacts DEF Typed
  <2>4. CASE Snapshot(mem, persisting, Tail(writes))
    <3>1. Flagged(mem, mem', used, persisting, FALSE) /\ Queue(writes', persisting', used)
          /\ persisting' = persisting
      BY <1>0, <2>1, <2>2, <2>3, <2>4, SnapshotFacts DEF Typed
    <3> QED BY <1>0, <2>1, <2>2, <3>1 DEF Typed, Flagged
  <2>5. CASE mem' = mem /\ writes' = Tail(writes) /\ persisting' = 0
    BY <1>0, <2>1, <2>3, <2>5 DEF Typed
  <2> QED BY <1>5, <2>4, <2>5 DEF PersistEnds
<1>6. CASE PageSaveEnds
  <2>1. writes # <<>> /\ writes' = Tail(writes)
        /\ UNCHANGED <<file, warming, ops, persisting, used, past>>
    BY <1>6 DEF PageSaveEnds, Ended
  <2>2. 1 \in 1..Len(writes) /\ writes[1] \in Write /\ writes[1].cells \subseteq used
    BY <2>1, EmptySeq DEF Typed, Queue
  <2>3. Queue(writes', persisting, used)
    BY <2>1, TailFacts DEF Typed
  <2>4. Sound(mem', used) /\ Len(mem'.arrays) = Len(mem.arrays) /\ Len(mem'.objs) = Len(mem.objs)
    BY <1>6, DroppedFacts DEF PageSaveEnds, Typed
  <2>5. kept' \subseteq used
    BY <1>6, <2>2 DEF PageSaveEnds, Typed
  <2>6. PageFits(page', used)
    <3>1. PageFits(page, used)
      BY DEF Typed
    <3>2. CASE writes[1].by = "page" /\ Ok
      <4>1. page' = [page EXCEPT !.saving = "no", !.saved = writes[1].cells,
                                 !.mtime = writes[1].mtime]
        BY <1>6, <3>2 DEF PageSaveEnds
      <4> QED BY <2>2, <3>1, <4>1 DEF PageFits, Page, Write
    <3>3. CASE writes[1].by = "page" /\ ~Ok
      <4>1. page' = [page EXCEPT !.saving = "no", !.saved = @, !.mtime = @]
        BY <1>6, <3>3 DEF PageSaveEnds
      <4> QED BY <3>1, <4>1 DEF PageFits, Page
    <3>4. CASE writes[1].by # "page"
      BY <1>6, <3>1, <3>4 DEF PageSaveEnds
    <3> QED BY <3>2, <3>3, <3>4
  <2> QED BY <1>0, <2>1, <2>3, <2>4, <2>5, <2>6 DEF Typed
<1> QED BY <1>1, <1>2, <1>3, <1>4, <1>5, <1>6 DEF Warm, Persist

\* The steps of the page preserve the types.
LEMMA PageTyped ==
    ASSUME Typed, PageStep
    PROVE  Typed'
<1> USE DEF told, server, InTurn
<1>0. used \in SUBSET Edits /\ page \in Page /\ FileFits(file, used) /\ PageFits(page, used)
  BY DEF Typed, PageFits
<1>1. CASE LoadPage
  <2>1. PageFits(page', used)
    BY <1>0, <1>1 DEF LoadPage, PageFits, Page, FileFits
  <2> QED BY <1>1, <2>1 DEF LoadPage, Typed
<1>2. CASE RegisterUI
  <2>1. ASSUME NEW f, f \in BOOLEAN PROVE PageFits([page EXCEPT !.registered = f], used)
    BY <1>0, <2>1 DEF PageFits, Page
  <2>2. PageFits(page', used)
    BY <1>2, <2>1, Zenon DEF RegisterUI
  <2>3. Sound(mem', used) /\ Len(mem'.arrays) = Len(mem.arrays) /\ Len(mem'.objs) = Len(mem.objs)
    BY <1>2, DroppedFacts DEF RegisterUI, Typed
  <2> QED BY <1>2, <2>2, <2>3 DEF RegisterUI, Typed
<1>3. CASE CheckMtime
  <2>1. PageFits(page', used)
    BY <1>0, <1>3 DEF CheckMtime, PageFits, Page
  <2> QED BY <1>3, <2>1 DEF CheckMtime, Typed
<1>4. CASE SendSave
  <2>1. PageFits(page', used)
    BY <1>0, <1>4 DEF SendSave, PageFits, Page
  <2> DEFINE w == Bundle("page", page.shown)
  <2>2. w \in Write /\ w.cells \subseteq used /\ w.by = "page"
    BY <1>0, <1>4 DEF SendSave, PageFits, Page, Bundle, Write, Content
  <2>3. writes' = Append(writes, w) /\ UNCHANGED <<file, mem, warming, ops, persisting, used, kept, past>>
    BY <1>4 DEF SendSave
  <2> HIDE DEF w
  <2>4. Queue(writes', persisting, used)
    BY <2>2, <2>3, AppendFacts DEF Typed
  <2> QED BY <2>1, <2>3, <2>4 DEF Typed
<1>5. CASE ClosePage
  <2>1. PageFits(page', used)
    BY <1>5 DEF ClosePage, PageFits, Page, NoPage, Content
  <2>2. Sound(mem', used) /\ Len(mem'.arrays) = Len(mem.arrays) /\ Len(mem'.objs) = Len(mem.objs)
    BY <1>5, DroppedFacts DEF ClosePage, Typed
  <2>3. Queue(writes', persisting, used)
    BY <1>5, CloseFacts
  <2> QED BY <1>5, <2>1, <2>2, <2>3 DEF ClosePage, Typed
<1>6. ASSUME NEW e \in PageEdits, EditPage(e) PROVE Typed'
  <2>1. used' = used \cup {e} /\ used \subseteq used' /\ used' \subseteq Edits
        /\ UNCHANGED <<file, mem, warming, ops, persisting, writes, kept>>
        /\ past' \in {past, past \cup {"overlap"}}
    BY <1>0, <1>6 DEF EditPage, Edits
  <2>2. PageFits(page', used')
    BY <1>0, <1>6, <2>1, NoneAssumption DEF EditPage, PageFits, Page, Content
  <2>3. /\ FileFits(file, used') /\ WarmingFits(warming, used') /\ Sound(mem, used')
        /\ Queue(writes, persisting, used') /\ OpsFit(ops, Len(mem.arrays), used')
    <3>1. Len(mem.arrays) \in Nat
      BY DEF Typed, Sound, Memory
    <3>2. OpsFit(ops, Len(mem.arrays), used')
      BY <2>1, <3>1 DEF Typed, OpsFit
    <3>3. FileFits(file, used') /\ WarmingFits(warming, used') /\ Sound(mem, used')
      BY <2>1, Grown DEF Typed
    <3>4. Queue(writes, persisting, used')
      BY <2>1, Grown DEF Typed
    <3> QED BY <3>2, <3>3, <3>4
  <2> QED BY <2>1, <2>2, <2>3 DEF Typed
<1> QED BY <1>1, <1>2, <1>3, <1>4, <1>5, <1>6 DEF PageStep

\* Every step preserves the types.
LEMMA StepTyped == Typed /\ [Next]_vars => Typed'
<1> SUFFICES ASSUME Typed, [Next]_vars PROVE Typed'
  OBVIOUS
<1>1. ASSUME NEW o \in Ops, NEW kind \in Kinds, StartOp(o, kind) PROVE Typed'
  <2> DEFINE phase == IF mem.cache # 0 THEN "permission" ELSE "warming"
             x == [kind |-> kind, phase |-> phase, array |-> 0, edit |-> None]
  <2>1. ops' = [ops EXCEPT ![o] = x]
    BY <1>1 DEF StartOp
  <2>2. phase \in {"permission", "warming"} /\ kind \in AllKinds
    BY KindsAssumption
  <2> HIDE DEF phase
  <2>3. x \in Op /\ x.phase \in {"permission", "warming"} /\ x.edit = None
    BY <2>2 DEF Op
  <2> HIDE DEF x
  <2>4. OpsFit(ops', Len(mem.arrays), used)
    BY <2>1, <2>3, OpChanged DEF Typed
  <2>5. WarmingFits([phase |-> "reading", cells |-> {}], used)
    BY DEF WarmingFits, Content
  <2>6. WarmingFits(warming', used)
    BY <1>1, <2>5 DEF StartOp, Typed
  <2>7. /\ UNCHANGED <<file, mem, persisting, writes, page, used, kept>>
        /\ past' \in {past, past \cup {"overlap"}}
    BY <1>1 DEF StartOp, InTurn
  <2> QED BY <2>4, <2>6, <2>7 DEF Typed
<1>2. CASE UNCHANGED vars
  BY <1>2 DEF vars, server, told, Typed
<1>3. ASSUME NEW o \in Ops, Apply(o) PROVE Typed'
  BY <1>3, FoundTyped, EditTyped, UndoTyped DEF Apply
<1>4. ASSUME NEW o \in Ops, Run(o) PROVE Typed'
  BY <1>4, RunTyped
<1> QED BY <1>1, <1>2, <1>3, <1>4, ServerTyped, PageTyped DEF Next

\* HeadlessCache is type correct, whether or not page and agents take turns.
THEOREM TypeCorrect == Spec => []TypeOK
BY InitTyped, StepTyped, TypedTypes, PTL DEF Spec

-----------------------------------------------------------------------------
(* Taking turns: the invariant *)

Shown(m) == CellsOf(m, m.cache)
Running(o) == ops[o] # None /\ ops[o].phase \in {"running", "background"}
Queued == writes # <<>> /\ writes[1].stage = "queued"

\* A write in the queue is the loop's, and the loop writes the cached notebook.
AgentLoop ==
    /\ writes # <<>> => Len(writes) = 1 /\ writes[1].by = "persist"
    /\ writes # <<>> <=> persisting # 0
    /\ persisting # 0 => persisting = mem.cache
    /\ "failed" \in past => mem.cache # 0

\* Only a warm-up fills the cache: who is past it finds the cache filled.
Warmth ==
    /\ warming.phase \in {"reading", "read"} => mem.cache = 0
    /\ warming.phase = "installed" => mem.cache # 0
    /\ \A o \in Ops : ops[o] # None =>
          /\ mem.cache = 0 => ops[o].phase = "warming"
          /\ ops[o].phase = "warming" => warming.phase # "none"
          /\ ops[o].phase \in {"warming", "permission"} => ops[o].edit = None
    /\ \A o \in Ops : Running(o) =>
          "ran" \in past /\ (ops[o].phase = "background" => "inBackground" \in past)

\* The cells of the cached notebook are what was answered, and runs hold them.
CacheHas ==
    /\ mem.cache # 0 => Shown(mem) = kept
    /\ \A o \in Ops : Running(o) =>
          ops[o].array = Array(mem) /\ (ops[o].edit # None => ops[o].edit \in kept)
    /\ warming.phase = "read" => warming.cells = kept

\* What is not in the file is marked, or is being written.
FileHas ==
    /\ mem.cache = 0 => file.cells = kept
    /\ Queued /\ ~Changed(mem) => writes[1].cells = kept
    /\ ~Changed(mem) /\ NoFailure /\ (writes # <<>> => Ok) => file.cells = kept
    /\ Changed(mem) /\ persisting = 0 /\ NoFailure /\ "inBackground" \notin past =>
          \E o \in Ops : ops[o] # None /\ ops[o].phase = "running"
    /\ Ended /\ ~Ok => ~NoFailure

\* While nothing is undone, what is written grows.
Growing == "undone" \notin past =>
    /\ file.cells \subseteq kept
    /\ Queued => file.cells \subseteq writes[1].cells /\ writes[1].cells \subseteq kept

AgentsTurn ==
    /\ page = NoPage
    /\ AgentLoop /\ Warmth
    /\ NothingPutBack => CacheHas /\ FileHas /\ Growing

\* Nothing of the agents is under way, and the page has one save at the most.
Rest ==
    /\ \A o \in Ops : ops[o] = None
    /\ warming.phase = "none" /\ persisting = 0 /\ ~Changed(mem) /\ NoFailure
    /\ writes # <<>> => Len(writes) = 1 /\ writes[1].by = "page"
    /\ writes # <<>> <=> page.saving = "sent"

\* A page is connected, or has loaded the file and was not changed yet.
Connected ==
    /\ page.shown # None \/ page.registered
    /\ page.registered => mem.cache = 0
    /\ ~page.registered => page.saving = "no" /\ page.shown = page.saved

\* The page shows every edit that was answered, and the file has them all.
PageHas ==
    /\ mem.cache # 0 => Shown(mem) = kept
    /\ page.shown # None => kept \subseteq page.shown /\ page.shown \subseteq kept \cup PageEdits
    /\ writes # <<>> => kept \subseteq writes[1].cells /\ writes[1].cells \subseteq page.shown
    /\ file.cells = IF writes # <<>> /\ Ok THEN writes[1].cells ELSE kept

PagesTurn ==
    /\ Rest /\ Connected
    /\ NothingPutBack => PageHas

IInv == Typed /\ (InTurns => AgentsTurn \/ PagesTurn)

-----------------------------------------------------------------------------
(* While it is the agents' turn *)

\* A queue of one write at the most.
LEMMA OneWrite ==
    ASSUME Typed, writes # <<>> => Len(writes) = 1
    PROVE  /\ writes # <<>> => Tail(writes) = <<>> /\ writes[1] \in Write
           /\ writes = <<>> => \A w \in Write : /\ Append(writes, w) # <<>>
                                                /\ Len(Append(writes, w)) = 1
                                                /\ Append(writes, w)[1] = w
<1>1. writes \in Seq(Write) /\ Len(writes) \in Nat
  BY DEF Typed, Queue
<1>2. CASE writes # <<>>
  <2>2. Len(writes) = 1
    BY <1>2
  <2>3. Tail(writes) \in Seq(Write) /\ Len(Tail(writes)) = Len(writes) - 1
    BY <1>1, <1>2, HeadTailProperties
  <2>4. Len(Tail(writes)) = 0
    BY <2>2, <2>3
  <2>5. Tail(writes) = <<>>
    BY <2>3, <2>4, EmptySeq, Zenon
  <2>6. writes[1] \in Write
    BY <1>1, <2>2
  <2> QED BY <1>2, <2>5, <2>6
<1>3. CASE writes = <<>>
  <2> SUFFICES ASSUME NEW w \in Write
               PROVE /\ Append(writes, w) # <<>> /\ Len(Append(writes, w)) = 1
                     /\ Append(writes, w)[1] = w
    BY <1>3
  <2> QED BY <1>1, <1>3, AppendProperties
<1> QED BY <1>2, <1>3

\* The write that the loop queues.
LEMMA BundleFacts ==
    ASSUME NEW cells \in SUBSET Edits
    PROVE  /\ Bundle("persist", cells) \in Write /\ Bundle("persist", cells).by = "persist"
           /\ Bundle("persist", cells).cells = cells
           /\ Bundle("persist", cells).stage = "queued"
           /\ Bundle("page", cells) \in Write /\ Bundle("page", cells).by = "page"
           /\ Bundle("page", cells).cells = cells
           /\ Bundle("page", cells).stage = "queued"
BY DEF Bundle, Write, Content

\* What is known of a request that is past the warm-up.
LEMMA PastWarmUp ==
    ASSUME Typed, AgentsTurn, NEW o \in Ops, ops[o] # None, ops[o].phase # "warming"
    PROVE  mem.cache # 0
BY DEF AgentsTurn, Warmth

\* After a step that saves s, which shows `kept', and schedules a write.
LEMMA ScheduledTurn ==
    ASSUME Typed, AgentLoop, mem.cache # 0, used' \subseteq Edits, NEW s, Scheduled(s),
           Sound(s, used'), s.cache = mem.cache, Changed(s)
    PROVE  /\ mem'.cache = mem.cache /\ Shown(mem') = Shown(s) /\ Array(mem') = Array(s)
           /\ IF persisting = 0
              THEN /\ ~Changed(mem') /\ persisting' = mem.cache /\ writes' # <<>>
                   /\ Len(writes') = 1 /\ writes'[1].by = "persist"
                   /\ writes'[1].cells = Shown(s) /\ writes'[1].stage = "queued"
              ELSE Changed(mem') /\ UNCHANGED <<writes, persisting>>
<1>1. mem'.cache = mem.cache /\ Array(mem') = Array(s) /\ mem'.arrays = s.arrays
  BY DEF Scheduled
<1>2. Shown(mem') = Shown(s) /\ Shown(s) \in SUBSET Edits
  BY <1>1 DEF Shown, CellsOf, Array, Sound, Memory
<1>3. CASE persisting = 0
  <2>1. ~Changed(mem') /\ persisting' = mem.cache
        /\ writes' = Append(writes, Bundle("persist", Shown(s)))
    BY <1>3 DEF Scheduled, Shown
  <2>2. writes = <<>>
    BY <1>3 DEF AgentLoop
  <2> QED BY <1>1, <1>2, <1>3, <2>1, <2>2, OneWrite, BundleFacts DEF AgentLoop
<1>4. CASE persisting # 0
  BY <1>1, <1>2, <1>4 DEF Scheduled
<1> QED BY <1>3, <1>4

\* Then the loop writes what is answered, or finds it when it looks at the flag.
LEMMA ScheduledFile ==
    ASSUME Typed, AgentLoop, mem.cache # 0, used' \subseteq Edits, NEW s, Scheduled(s),
           Sound(s, used'), s.cache = mem.cache, Changed(s),
           file' = file, past \subseteq past', "failed" \in past' => "failed" \in past
    PROVE  /\ AgentLoop'
           /\ FileHas /\ Shown(s) = kept' => FileHas'
           /\ Growing /\ ("undone" \notin past' => kept \subseteq kept') /\ Shown(s) = kept'
                 => Growing'
<1>1. /\ mem'.cache = mem.cache /\ Shown(mem') = Shown(s) /\ Array(mem') = Array(s)
      /\ IF persisting = 0
         THEN /\ ~Changed(mem') /\ persisting' = mem.cache /\ writes' # <<>>
              /\ Len(writes') = 1 /\ writes'[1].by = "persist"
              /\ writes'[1].cells = Shown(s) /\ writes'[1].stage = "queued"
         ELSE Changed(mem') /\ UNCHANGED <<writes, persisting>>
  BY ScheduledTurn
<1>2. AgentLoop'
  BY <1>1 DEF AgentLoop
<1>3. FileHas /\ Shown(s) = kept' => FileHas'
  BY <1>1 DEF FileHas, Queued, Ended, Ok, NoFailure
<1>4. Growing /\ ("undone" \notin past' => kept \subseteq kept') /\ Shown(s) = kept' => Growing'
  BY <1>1 DEF Growing, Queued
<1> QED BY <1>2, <1>3, <1>4

\* An edit: the notebook shows it, and it is on its way to the file.
LEMMA EditTurn ==
    ASSUME Typed, AgentsTurn, NEW o \in Ops, NEW e \in AgentEdits, EditCells(o, e)
    PROVE  AgentsTurn'
<1>1. PICK c, d, s : /\ Found(mem, c, used') /\ Edited(c, d, used', Array(c), e)
                     /\ Stored(d, s, used', Array(c)) /\ Scheduled(s)
  BY EditMemory
<1>2. /\ used' = used \cup {e} /\ kept' = kept \cup {e} /\ past' = past
      /\ UNCHANGED <<file, warming, page>> /\ ops' = [ops EXCEPT ![o] = None]
      /\ ops[o] # None /\ ops[o].phase = "permission"
  BY DEF EditCells, Turn
<1>3. mem.cache # 0 /\ used' \subseteq Edits
  BY <1>2, PastWarmUp DEF Typed, Edits
<1>4. c = mem /\ Array(mem) \in 1..Len(mem.arrays)
  BY <1>1, <1>3 DEF Found, Typed, Sound, Memory, Array
<1>5. /\ Sound(s, used') /\ s.cache = mem.cache /\ Changed(s) /\ Array(s) = Array(mem)
      /\ s.arrays = d.arrays /\ d.arrays[Array(mem)] = mem.arrays[Array(mem)] \cup {e}
  BY <1>1, <1>4 DEF Stored, Edited
<1>6. Shown(s) = Shown(mem) \cup {e}
  BY <1>5 DEF Shown, CellsOf, Array
<1>7. mem'.cache = mem.cache /\ Shown(mem') = Shown(s) /\ Array(mem') = Array(mem)
  BY <1>1, <1>3, <1>5, ScheduledTurn DEF AgentsTurn
<1>8. \A r \in Ops : ops'[r] # None => ops'[r] = ops[r]
  BY <1>2 DEF Typed, OpsFit
<1>9. ops[o].phase # "running" /\ \A r \in Ops : ops[r] # None /\ ops[r].phase = "running" =>
                                      ops'[r] = ops[r]
  BY <1>2 DEF Typed, OpsFit
<1>10. Warmth'
  BY <1>2, <1>7, <1>8 DEF AgentsTurn, Warmth, Running
<1>11. AgentLoop'
  BY <1>1, <1>2, <1>3, <1>5, ScheduledFile DEF AgentsTurn
<1>12. ASSUME NothingPutBack' PROVE CacheHas' /\ FileHas' /\ Growing'
  <2>1. CacheHas /\ FileHas /\ Growing
    BY <1>2, <1>12 DEF AgentsTurn, NothingPutBack
  <2>2. Shown(s) = kept'
    BY <1>2, <1>3, <1>6, <2>1 DEF CacheHas
  <2>3. CacheHas'
    <3>1. \A r \in Ops : Running(r)' =>
             ops'[r].array = Array(mem') /\ (ops'[r].edit # None => ops'[r].edit \in kept')
      BY <1>2, <1>7, <1>8, <2>1 DEF CacheHas, Running
    <3> QED BY <1>2, <1>7, <2>1, <2>2, <3>1 DEF CacheHas, AgentsTurn, Warmth
  <2>4. kept \subseteq kept' /\ past \subseteq past' /\ file' = file
    BY <1>2
  <2>5. FileHas' /\ Growing'
    BY <1>1, <1>2, <1>3, <1>5, <2>1, <2>2, <2>4, ScheduledFile DEF AgentsTurn
  <2> QED BY <2>3, <2>5
<1> QED BY <1>2, <1>10, <1>11, <1>12 DEF AgentsTurn

\* An undo: nothing is running, or a run may put the edit back.
LEMMA UndoTurn ==
    ASSUME Typed, AgentsTurn, NEW o \in Ops, NEW e \in AgentEdits, UndoEdit(o, e)
    PROVE  AgentsTurn'
<1>1. PICK c, d, s : /\ Found(mem, c, used') /\ Extended(c, d, used', CellsOf(c, c.cache) \ {e})
                     /\ Stored(d, s, used', Len(d.arrays)) /\ Scheduled(s)
  BY UndoMemory
<1>2. /\ used' = used /\ kept' = kept \ {e} /\ past' = past \cup {"undone"}
      /\ UNCHANGED <<file, warming, page>> /\ ops' = [ops EXCEPT ![o] = None]
      /\ ops[o] # None /\ ops[o].phase = "permission"
  BY DEF UndoEdit, Turn
<1>3. mem.cache # 0 /\ used' \subseteq Edits
  BY <1>2, PastWarmUp DEF Typed
<1>4. c = mem /\ Len(mem.arrays) \in Nat
  BY <1>1, <1>3 DEF Found, Typed, Sound, Memory
<1>5. /\ Sound(s, used') /\ s.cache = mem.cache /\ Changed(s) /\ Array(s) = Len(d.arrays)
      /\ s.arrays = d.arrays /\ d.arrays[Len(d.arrays)] = Shown(mem) \ {e}
  BY <1>1, <1>4 DEF Stored, Extended, Shown
<1>6. Shown(s) = Shown(mem) \ {e}
  BY <1>5 DEF Shown, CellsOf, Array
<1>7. mem'.cache = mem.cache /\ Shown(mem') = Shown(s)
  BY <1>1, <1>3, <1>5, ScheduledTurn DEF AgentsTurn
<1>8. \A r \in Ops : ops'[r] # None => ops'[r] = ops[r]
  BY <1>2 DEF Typed, OpsFit
<1>9. past \subseteq past' /\ file' = file /\ ("failed" \in past' => "failed" \in past)
      /\ "undone" \in past'
  BY <1>2
<1>10. Warmth'
  BY <1>2, <1>7, <1>8 DEF AgentsTurn, Warmth, Running
<1>11. AgentLoop'
  BY <1>1, <1>3, <1>5, <1>9, ScheduledFile DEF AgentsTurn
<1>12. ASSUME NothingPutBack' PROVE CacheHas' /\ FileHas' /\ Growing'
  <2>1. CacheHas /\ FileHas /\ Growing /\ "ran" \notin past'
    BY <1>2, <1>12 DEF AgentsTurn, NothingPutBack
  <2>2. Shown(s) = kept'
    BY <1>2, <1>3, <1>6, <2>1 DEF CacheHas
  <2>3. \A r \in Ops : ~Running(r)'
    BY <1>10, <2>1 DEF Warmth
  <2>4. CacheHas'
    BY <1>2, <1>3, <1>7, <2>2, <2>3, <1>10 DEF CacheHas, Warmth
  <2>5. FileHas' /\ Growing'
    BY <1>1, <1>3, <1>5, <1>9, <2>1, <2>2, ScheduledFile DEF AgentsTurn
  <2> QED BY <2>4, <2>5
<1> QED BY <1>2, <1>10, <1>11, <1>12 DEF AgentsTurn

\* A read or the start of a run finds the cache filled.
LEMMA FoundTurn ==
    ASSUME Typed, AgentsTurn, NEW o \in Ops, ReadCell(o) \/ StartRun(o)
    PROVE  AgentsTurn'
<1>1. /\ ops[o] # None /\ ops[o].phase = "permission" /\ Found(mem, mem', used)
      /\ UNCHANGED <<file, warming, persisting, writes, page, used, kept>>
  BY FoundTyped DEF ReadCell, StartRun, Turn, told
<1>2. mem' = mem /\ mem.cache # 0
  BY <1>1, PastWarmUp DEF Found
<1>3. CASE ReadCell(o)
  <2>1. ops' = [ops EXCEPT ![o] = None] /\ past' = past
    BY <1>3 DEF ReadCell, told
  <2>2. \A r \in Ops : ops'[r] # None => ops'[r] = ops[r]
    BY <2>1 DEF Typed, OpsFit
  <2>3. \A r \in Ops : ops[r] # None /\ ops[r].phase = "running" => ops'[r] = ops[r]
    BY <1>1, <2>1 DEF Typed, OpsFit
  <2>4. AgentLoop' /\ Warmth'
    BY <1>1, <1>2, <2>1, <2>2 DEF AgentsTurn, AgentLoop, Warmth, Running
  <2>5. CacheHas => CacheHas'
    BY <1>1, <1>2, <2>2 DEF CacheHas, Running
  <2>6. FileHas => FileHas'
    BY <1>1, <1>2, <2>1, <2>3 DEF FileHas, Queued, Ended, Ok, NoFailure
  <2>7. Growing => Growing'
    BY <1>1, <2>1 DEF Growing, Queued
  <2> QED BY <1>1, <2>1, <2>4, <2>5, <2>6, <2>7 DEF AgentsTurn, NothingPutBack
<1>4. CASE StartRun(o)
  <2>1. ops' = [ops EXCEPT ![o] = [ops[o] EXCEPT !.phase = "running", !.array = Array(mem)]]
        /\ past' = past \cup {"ran"}
    BY <1>2, <1>4 DEF StartRun, Array, Typed, OpsFit
  <2>2. ops[o] \in Op /\ Array(mem) \in Nat
    BY <1>1, <1>2 DEF Typed, OpsFit, Sound, Memory, Array
  <2>3. ops'[o].phase = "running" /\ ops'[o].array = Array(mem) /\ ops'[o].edit = ops[o].edit
        /\ ops'[o] # None
    <3> DEFINE x == [ops[o] EXCEPT !.phase = "running", !.array = Array(mem)]
    <3>1. x \in Op /\ x.phase = "running" /\ x.array = Array(mem) /\ x.edit = ops[o].edit
      BY <2>2 DEF Op
    <3> HIDE DEF x
    <3>2. ops' = [ops EXCEPT ![o] = x] /\ ops \in [Ops -> Op \cup {None}]
      BY <2>1 DEF Typed, OpsFit, x
    <3>3. None \notin Op
      BY NoneAssumption DEF Op
    <3> QED BY <3>1, <3>2, <3>3
  <2>4. \A r \in Ops \ {o} : ops'[r] = ops[r]
    BY <2>1 DEF Typed, OpsFit
  <2>5. AgentLoop' /\ Warmth'
    BY <1>1, <1>2, <2>1, <2>3, <2>4 DEF AgentsTurn, AgentLoop, Warmth, Running
  <2>6. CacheHas => CacheHas'
    <3>1. ops'[o].edit = None
      BY <1>1, <2>3 DEF AgentsTurn, Warmth
    <3> QED BY <1>1, <1>2, <2>3, <2>4, <3>1 DEF CacheHas, Running
  <2>7. FileHas => FileHas'
    BY <1>1, <1>2, <2>1, <2>3, <2>4 DEF FileHas, Queued, Ended, Ok, NoFailure
  <2>8. Growing => Growing'
    BY <1>1, <2>1 DEF Growing, Queued
  <2> QED BY <1>1, <2>1, <2>5, <2>6, <2>7, <2>8 DEF AgentsTurn, NothingPutBack
<1> QED BY <1>3, <1>4

\* What a run stores shows what was answered and its output.
LEMMA RunShows ==
    ASSUME Typed, AgentsTurn, NEW o \in Ops, Running(o), NEW p, NEW c, NEW s,
           RunChanges(o, p, c, s)
    PROVE  /\ mem.cache # 0 /\ s.cache = mem.cache /\ Changed(s) /\ Sound(s, used')
           /\ Array(s) = ops[o].array
           /\ ops[o].array = Array(mem) /\ p = mem => Shown(s) = Shown(mem)
           /\ \A e : ops[o].array = Array(mem) /\ Edited(mem, p, used', ops[o].array, e)
                 => Shown(s) = Shown(mem) \cup {e}
<1>1. mem.cache # 0
  BY PastWarmUp DEF Running
<1>2. c = p /\ p.cache = mem.cache
  BY <1>1 DEF RunChanges, Found
<1>3. /\ s.cache = mem.cache /\ Changed(s) /\ Sound(s, used') /\ Array(s) = ops[o].array
      /\ s.arrays = p.arrays
  BY <1>2 DEF RunChanges, Stored
<1>4. Shown(s) = p.arrays[ops[o].array]
  BY <1>3 DEF Shown, CellsOf, Array
<1>5. Shown(mem) = mem.arrays[Array(mem)] /\ ops[o].array \in 1..Len(mem.arrays)
  BY DEF Shown, CellsOf, Array, Typed, OpsFit, Running
<1>6. \A e : ops[o].array = Array(mem) /\ Edited(mem, p, used', ops[o].array, e)
                 => Shown(s) = Shown(mem) \cup {e}
  BY <1>4, <1>5 DEF Edited
<1> QED BY <1>1, <1>3, <1>4, <1>5, <1>6

\* After a step of run o that stores s, with its outputs answered.
RunStores(o, s) ==
    /\ s.cache = mem.cache /\ Changed(s) /\ Sound(s, used') /\ Array(s) = ops[o].array
    /\ CacheHas => Shown(s) = kept'
    /\ \/ Scheduled(s)
       \/ /\ mem' = s /\ UNCHANGED <<writes, persisting>>
          /\ \E e \in AgentEdits : RunOutputs(o, e) \/ RunEnds(o, e)

\* The step of a run, in terms of what is answered.
LEMMA RunStep ==
    ASSUME Typed, AgentsTurn, NEW o \in Ops, Run(o)
    PROVE  Running(o) /\ \E s : RunStores(o, s)
<1>1. Running(o)
  BY DEF Run, RunOutputs, RunAnswered, RunEnds, RunTimesOut, Runs, Running
<1>2. ASSUME NEW e \in AgentEdits, OutputOf(o, e), NEW c, NEW s,
             RunChanges(o, Published(o, e), c, s), CacheHas
      PROVE  Shown(s) = kept'
  <2>1. kept' = kept \cup {e} /\ ops[o].array = Array(mem) /\ Shown(mem) = kept
    BY <1>1, <1>2, RunShows DEF OutputOf, CacheHas
  <2>2. CASE e = ops[o].edit
    <3>1. e \in kept /\ Published(o, e) = mem
      BY <1>1, <1>2, <2>2, PublishedFacts, NoneAssumption DEF CacheHas, Running, Edits
    <3> QED BY <1>1, <1>2, <2>1, <3>1, RunShows
  <2>3. CASE e # ops[o].edit
    <3>1. Edited(mem, Published(o, e), used', ops[o].array, e)
      BY <1>1, <1>2, <2>3, PublishedFacts DEF Running
    <3> QED BY <1>1, <1>2, <2>1, <3>1, RunShows
  <2> QED BY <2>2, <2>3
<1>3. ASSUME RunTimesOut(o) PROVE \E s : RunStores(o, s) /\ Scheduled(s)
  <2>1. PICK c, s : RunChanges(o, mem, c, s) /\ Scheduled(s)
    BY <1>3, RunTyped
  <2>2. kept' = kept
    BY <1>3 DEF RunTimesOut
  <2>3. RunStores(o, s)
    BY <1>1, <2>1, <2>2, RunShows DEF RunStores, CacheHas
  <2> QED BY <2>1, <2>3
<1>4. ASSUME NEW e \in AgentEdits, RunAnswered(o, e)
      PROVE  \E s : RunStores(o, s) /\ Scheduled(s)
  <2>1. PICK c, s : RunChanges(o, Published(o, e), c, s) /\ Scheduled(s)
    BY <1>4, RunTyped
  <2>2. CacheHas => Shown(s) = kept'
    BY <1>2, <1>4, <2>1 DEF RunAnswered
  <2>3. RunStores(o, s)
    BY <1>1, <2>1, <2>2, RunShows DEF RunStores
  <2> QED BY <2>1, <2>3
<1>5. ASSUME NEW e \in AgentEdits, RunOutputs(o, e) \/ RunEnds(o, e)
      PROVE  RunStores(o, mem')
  <2>1. PICK c : RunChanges(o, Published(o, e), c, mem') /\ UNCHANGED <<writes, persisting>>
    BY <1>5, RunTyped
  <2>2. CacheHas => Shown(mem') = kept'
    BY <1>2, <1>5, <2>1 DEF RunOutputs, RunEnds
  <2>3. RunStores(o, mem')
    BY <1>1, <1>5, <2>1, <2>2, RunShows DEF RunStores
  <2> QED BY <2>3
<1> QED BY <1>1, <1>3, <1>4, <1>5 DEF Run

\* A run: its outputs are shown, and are on their way to the file unless its
\* cell has outlived maxWait.
LEMMA RunTurn ==
    ASSUME Typed, AgentsTurn, NEW o \in Ops, Run(o)
    PROVE  AgentsTurn'
<1>1. Running(o) /\ ops[o] \in Op /\ ops[o] # None
  BY RunStep DEF Running, Typed, OpsFit
<1>2. PICK s : RunStores(o, s)
  BY RunStep
<1>3. mem.cache # 0 /\ used' \subseteq Edits /\ Sound(s, used') /\ s.cache = mem.cache
      /\ Changed(s)
  <2>1. used' \subseteq Edits
    BY RunTyped DEF Typed
  <2> QED BY <1>1, <1>2, <2>1, PastWarmUp DEF Running, RunStores
<1>4. mem'.cache = mem.cache /\ Shown(mem') = Shown(s) /\ Array(mem') = ops[o].array
  <2>1. CASE Scheduled(s)
    BY <1>2, <1>3, <2>1, ScheduledTurn DEF AgentsTurn, RunStores
  <2>2. CASE mem' = s
    BY <1>2, <2>2 DEF RunStores
  <2> QED BY <1>2, <2>1, <2>2 DEF RunStores
<1>5. /\ \A r \in Ops \ {o} : ops'[r] = ops[r]
      /\ ops'[o] # None =>
            /\ ops'[o].array = ops[o].array
            /\ ops'[o].phase = ops[o].phase \/ (ops'[o].phase = "background" /\ RunTimesOut(o))
            /\ ops'[o].edit = ops[o].edit \/ ops'[o].edit \in kept'
  <2>1. ASSUME NEW e \in AgentEdits, RunOutputs(o, e) PROVE <1>5
    <3> DEFINE x == [ops[o] EXCEPT !.edit = e]
    <3>1. ops' = [ops EXCEPT ![o] = x] /\ e \in kept'
      BY <1>1, <2>1 DEF RunOutputs, OutputOf, Typed, OpsFit
    <3>2. x.edit = e /\ x.array = ops[o].array /\ x.phase = ops[o].phase
      BY <1>1 DEF Op
    <3> HIDE DEF x
    <3> QED BY <3>1, <3>2 DEF Typed, OpsFit
  <2>2. ASSUME RunTimesOut(o) PROVE <1>5
    <3> DEFINE x == [ops[o] EXCEPT !.phase = "background"]
    <3>1. ops' = [ops EXCEPT ![o] = x]
      BY <1>1, <2>2 DEF RunTimesOut, Typed, OpsFit
    <3>2. x.edit = ops[o].edit /\ x.array = ops[o].array /\ x.phase = "background"
      BY <1>1 DEF Op
    <3> HIDE DEF x
    <3> QED BY <2>2, <3>1, <3>2 DEF Typed, OpsFit
  <2>3. ASSUME NEW e \in AgentEdits, RunAnswered(o, e) \/ RunEnds(o, e) PROVE <1>5
    BY <2>3 DEF RunAnswered, RunEnds, Typed, OpsFit
  <2> QED BY <2>1, <2>2, <2>3 DEF Run
<1>6. /\ UNCHANGED <<file, warming, page>> /\ kept \subseteq kept' /\ past \subseteq past'
      /\ past' \subseteq past \cup {"inBackground"}
      /\ RunTimesOut(o) => "inBackground" \in past'
  BY DEF Run, RunOutputs, RunAnswered, RunEnds, RunTimesOut, OutputOf
<1>7. /\ "failed" \in past' => "failed" \in past
      /\ "undone" \in past' => "undone" \in past
      /\ "ran" \in past' => "ran" \in past
  BY <1>6
<1>8. Warmth'
  BY <1>1, <1>3, <1>4, <1>5, <1>6 DEF AgentsTurn, Warmth, Running
<1>9. CacheHas /\ NothingPutBack => CacheHas'
  <2> SUFFICES ASSUME CacheHas PROVE CacheHas'
    OBVIOUS
  <2>1. Shown(mem') = kept' /\ ops[o].array = Array(mem)
    BY <1>1, <1>2, <1>4 DEF CacheHas, RunStores
  <2>2. \A r \in Ops : Running(r)' =>
           ops'[r].array = Array(mem') /\ (ops'[r].edit # None => ops'[r].edit \in kept')
    BY <1>1, <1>4, <1>5, <1>6, <2>1 DEF CacheHas, Running
  <2>3. warming'.phase # "read"
    BY <1>3, <1>6 DEF AgentsTurn, Warmth
  <2> QED BY <2>1, <2>2, <2>3 DEF CacheHas
<1>10. CASE Scheduled(s)
  <2>1. AgentLoop'
    BY <1>3, <1>6, <1>7, <1>10, ScheduledFile DEF AgentsTurn
  <2>2. CacheHas /\ FileHas /\ Growing => FileHas' /\ Growing'
    BY <1>2, <1>3, <1>6, <1>7, <1>10, ScheduledFile DEF AgentsTurn, RunStores
  <2> QED BY <1>6, <1>7, <1>8, <1>9, <2>1, <2>2 DEF AgentsTurn, NothingPutBack
<1>11. CASE /\ mem' = s /\ UNCHANGED <<writes, persisting>>
            /\ \E e \in AgentEdits : RunOutputs(o, e) \/ RunEnds(o, e)
  <2>1. AgentLoop'
    BY <1>3, <1>4, <1>7, <1>11 DEF AgentsTurn, AgentLoop
  <2>2. Growing => Growing'
    BY <1>6, <1>7, <1>11 DEF Growing, Queued
  <2>3. "inBackground" \in past' \/ (\E r \in Ops : ops'[r] # None /\ ops'[r].phase = "running")
    <3>1. CASE ops[o].phase = "background"
      BY <1>1, <1>6, <3>1 DEF AgentsTurn, Warmth
    <3>2. CASE ops[o].phase # "background"
      <4>1. PICK e \in AgentEdits : RunOutputs(o, e)
        BY <1>11, <3>2 DEF RunEnds, Runs
      <4>2. ops' = [ops EXCEPT ![o] = [ops[o] EXCEPT !.edit = e]] /\ ops[o].phase = "running"
        BY <1>1, <3>2, <4>1 DEF RunOutputs, Runs, Typed, OpsFit
      <4>3. [ops[o] EXCEPT !.edit = e] \in Op /\ [ops[o] EXCEPT !.edit = e].phase = "running"
        BY <1>1, <4>2 DEF Op, Edits
      <4> QED BY <4>2, <4>3, NoneAssumption DEF Typed, OpsFit
    <3> QED BY <3>1, <3>2
  <2>4. FileHas => FileHas'
    BY <1>3, <1>4, <1>6, <1>7, <1>11, <2>3 DEF FileHas, Queued, Ended, Ok, NoFailure
  <2> QED BY <1>6, <1>7, <1>8, <1>9, <2>1, <2>2, <2>4 DEF AgentsTurn, NothingPutBack
<1> QED BY <1>2, <1>10, <1>11 DEF RunStores

\* A request comes in: it waits for a warm-up, or finds the cache.
LEMMA StartTurn ==
    ASSUME Typed, AgentsTurn, NEW o \in Ops, NEW kind \in Kinds, StartOp(o, kind), InTurns'
    PROVE  AgentsTurn'
<1> DEFINE phase == IF mem.cache # 0 THEN "permission" ELSE "warming"
           x == [kind |-> kind, phase |-> phase, array |-> 0, edit |-> None]
<1>1. /\ ops' = [ops EXCEPT ![o] = x] /\ ops[o] = None
      /\ UNCHANGED <<file, mem, persisting, writes, page, used, kept, past>>
      /\ warming' = IF mem.cache = 0 /\ warming.phase = "none"
                    THEN [phase |-> "reading", cells |-> {}] ELSE warming
  BY DEF StartOp, InTurn, InTurns
<1>2. x.phase = phase /\ x.edit = None
  OBVIOUS
<1> HIDE DEF x
<1>3. /\ \A r \in Ops \ {o} : ops'[r] = ops[r]
      /\ ops'[o].phase = phase /\ ops'[o].edit = None
  BY <1>1, <1>2 DEF Typed, OpsFit
<1>4. warming'.phase # "none" \/ mem.cache # 0
  BY <1>1
<1>5. /\ warming'.phase = "read" => warming' = warming
      /\ warming'.phase = "installed" => warming' = warming
      /\ warming'.phase = "reading" => warming' = warming \/ mem.cache = 0
      /\ warming.phase # "none" => warming' = warming
  BY <1>1
<1>6. AgentLoop' /\ (Growing => Growing')
  BY <1>1 DEF AgentsTurn, AgentLoop, Growing, Queued
<1>7. Warmth'
  BY <1>1, <1>3, <1>4, <1>5 DEF AgentsTurn, Warmth, Running
<1>8. CacheHas => CacheHas'
  BY <1>1, <1>3, <1>5 DEF CacheHas, Running
<1>9. FileHas => FileHas'
  BY <1>1, <1>3 DEF FileHas, Queued, Ended, Ok, NoFailure
<1> QED BY <1>1, <1>6, <1>7, <1>8, <1>9 DEF AgentsTurn, NothingPutBack

\* A warm-up reads the file, which has every answered edit while nothing is cached.
LEMMA WarmTurn ==
    ASSUME Typed, AgentsTurn, Warm
    PROVE  AgentsTurn'
<1>1. /\ UNCHANGED <<file, persisting, writes, page, used, kept, past>>
      /\ Growing => Growing'
  BY DEF Warm, WarmRead, WarmInstall, WarmEnd, told, Growing, Queued
<1>2. CASE WarmRead
  <2>1. /\ warming'.phase = "read" /\ warming'.cells = file.cells /\ warming.phase = "reading"
        /\ mem' = mem /\ ops' = ops
    BY <1>2 DEF WarmRead
  <2>2. AgentLoop' /\ Warmth'
    BY <1>1, <2>1 DEF AgentsTurn, AgentLoop, Warmth, Running
  <2>3. CacheHas /\ FileHas => CacheHas' /\ FileHas'
    BY <1>1, <2>1 DEF AgentsTurn, Warmth, CacheHas, FileHas, Running, Queued, Ended, Ok, NoFailure
  <2> QED BY <1>1, <2>2, <2>3 DEF AgentsTurn, NothingPutBack
<1>3. CASE WarmInstall
  <2>1. /\ warming.phase = "read" /\ mem.cache = 0 /\ mem' = Installed(mem, warming.cells)
        /\ warming' = [warming EXCEPT !.phase = "installed"] /\ ops' = ops
    BY <1>3 DEF WarmInstall, AgentsTurn, Warmth
  <2>2. warming'.phase = "installed"
    BY <2>1 DEF Typed, WarmingFits
  <2>3. Fresh(mem, mem', used, warming.cells)
    BY <2>1, InstalledFacts DEF Typed, WarmingFits
  <2>4. mem'.cache # 0 /\ Shown(mem') = warming.cells /\ ~Changed(mem')
    BY <2>3 DEF Fresh, Shown
  <2>5. persisting = 0 /\ writes = <<>>
    BY <2>1 DEF AgentsTurn, AgentLoop
  <2>6. \A r \in Ops : ~Running(r)
    BY <2>1 DEF AgentsTurn, Warmth, Running
  <2>7. AgentLoop'
    BY <1>1, <2>4, <2>5 DEF AgentsTurn, AgentLoop
  <2>8. Warmth'
    BY <1>1, <2>1, <2>2, <2>4, <2>6 DEF AgentsTurn, Warmth, Running
  <2>9. CacheHas /\ FileHas => CacheHas' /\ FileHas'
    BY <1>1, <2>1, <2>2, <2>4, <2>5, <2>6
       DEF CacheHas, FileHas, Running, Queued, Ended, Ok, NoFailure
  <2> QED BY <1>1, <2>7, <2>8, <2>9 DEF AgentsTurn, NothingPutBack
<1>4. CASE WarmEnd
  <2>1. /\ mem.cache # 0 /\ mem' = mem /\ warming'.phase = "none"
        /\ ops' = [r \in Ops |-> IF ops[r] # None /\ ops[r].phase = "warming"
                                 THEN [ops[r] EXCEPT !.phase = "permission"] ELSE ops[r]]
    BY <1>4 DEF WarmEnd, NoWarming, AgentsTurn, Warmth
  <2>2. \A y \in Op : /\ [y EXCEPT !.phase = "permission"] \in Op
                      /\ [y EXCEPT !.phase = "permission"].phase = "permission"
                      /\ [y EXCEPT !.phase = "permission"].edit = y.edit
    BY DEF Op
  <2>3. \A r \in Ops : ops[r] # None => ops[r] \in Op
    BY DEF Typed, OpsFit
  <2>4. \A r \in Ops : \/ ops'[r] = ops[r] /\ (ops[r] # None => ops[r].phase # "warming")
                       \/ /\ ops[r] # None /\ ops[r].phase = "warming"
                          /\ ops'[r].phase = "permission" /\ ops'[r].edit = ops[r].edit
    BY <2>1, <2>2, <2>3
  <2>5. \A r \in Ops : Running(r)' => Running(r) /\ ops'[r] = ops[r]
    BY <2>4 DEF Running
  <2>6. \A r \in Ops : ops[r] # None /\ ops[r].phase = "running" => ops'[r] = ops[r]
    BY <2>4
  <2>7. AgentLoop'
    BY <1>1, <2>1 DEF AgentsTurn, AgentLoop
  <2>8. Warmth'
    <3>1. \A r \in Ops : ops'[r] # None =>
             /\ ops'[r].phase # "warming"
             /\ ops'[r].phase \in {"warming", "permission"} => ops'[r].edit = None
      BY <2>4 DEF AgentsTurn, Warmth
    <3> QED BY <1>1, <2>1, <2>5, <3>1 DEF AgentsTurn, Warmth, Running
  <2>9. CacheHas => CacheHas'
    BY <1>1, <2>1, <2>5 DEF CacheHas
  <2>10. FileHas => FileHas'
    BY <1>1, <2>1, <2>6 DEF FileHas, Queued, Ended, Ok, NoFailure
  <2> QED BY <1>1, <2>7, <2>8, <2>9, <2>10 DEF AgentsTurn, NothingPutBack
<1> QED BY <1>2, <1>3, <1>4 DEF Warm

\* The loop's write is decided.
LEMMA WriteTurn ==
    ASSUME Typed, AgentsTurn, NEW ok \in BOOLEAN, WriteFile(ok)
    PROVE  AgentsTurn'
<1>1. /\ writes # <<>> /\ Len(writes') = Len(writes) /\ Len(writes) = 1
      /\ writes'[1].cells = writes[1].cells /\ writes'[1].by = "persist"
      /\ writes'[1].stage = (IF ok THEN "written" ELSE "failed")
      /\ writes[1].by = "persist"
  BY WriteFacts DEF AgentsTurn, AgentLoop
<1>2. writes' # <<>>
  <2>1. Len(writes') = 1 /\ writes' \in Seq(Write)
    BY <1>1, WriteFacts DEF Queue
  <2> QED BY <2>1, EmptySeq
<1>3. /\ writes[1].stage = "queued" /\ UNCHANGED <<mem, warming, ops, persisting, page, kept>>
      /\ file' = IF ok THEN [cells |-> writes[1].cells, mtime |-> file.mtime + 1] ELSE file
      /\ past' = IF ok THEN past ELSE past \cup {"failed"}
  BY <1>1 DEF WriteFile
<1>4. persisting # 0 /\ mem.cache # 0
  BY <1>1 DEF AgentsTurn, AgentLoop, Typed
<1>5. file'.cells = IF ok THEN writes[1].cells ELSE file.cells
  BY <1>3
<1>6. AgentLoop' /\ Warmth'
  BY <1>1, <1>2, <1>3, <1>4 DEF AgentsTurn, AgentLoop, Warmth, Running
<1>7. CacheHas => CacheHas'
  BY <1>3 DEF CacheHas, Running
<1>8. FileHas => FileHas'
  BY <1>1, <1>2, <1>3, <1>4, <1>5 DEF FileHas, Queued, Ended, Ok, NoFailure
<1>9. Growing => Growing'
  BY <1>1, <1>3, <1>5 DEF Growing, Queued
<1> QED BY <1>3, <1>6, <1>7, <1>8, <1>9 DEF AgentsTurn, NothingPutBack

\* The loop ends, or finds the notebook changed and goes on.
LEMMA PersistTurn ==
    ASSUME Typed, AgentsTurn, PersistEnds
    PROVE  AgentsTurn'
<1>1. /\ writes # <<>> /\ writes[1].by = "persist" /\ writes[1].stage # "queued"
      /\ UNCHANGED <<file, warming, ops, page, used, kept, past>>
  BY DEF PersistEnds, Ended, told
<1>2. /\ Tail(writes) = <<>> /\ persisting # 0 /\ persisting = mem.cache
      /\ persisting \in 1..Len(mem.objs)
  BY <1>1, OneWrite DEF AgentsTurn, AgentLoop, Typed, Sound, Memory
<1>3. CASE Ok /\ Changed(mem)
  <2>1. Snapshot(mem, persisting, <<>>)
    BY <1>2, <1>3 DEF PersistEnds, Changed
  <2>2. Queue(<<>>, 0, used)
    BY DEF Queue
  <2>3. /\ Flagged(mem, mem', used, persisting, FALSE)
        /\ writes' = Append(<<>>, Bundle("persist", Shown(mem))) /\ persisting' = persisting
    BY <1>1, <1>2, <2>1, <2>2, SnapshotFacts DEF Typed, Shown
  <2>4. /\ mem'.cache = mem.cache /\ ~Changed(mem') /\ Array(mem') = Array(mem)
        /\ Shown(mem') = Shown(mem)
    BY <1>2, <2>3 DEF Flagged, Changed, Array, Shown, CellsOf
  <2>5. Shown(mem) \in SUBSET Edits
    BY <1>2 DEF Shown, CellsOf, Typed, Sound, Memory
  <2>6. /\ writes' # <<>> /\ Len(writes') = 1 /\ writes'[1].by = "persist"
        /\ writes'[1].cells = Shown(mem) /\ writes'[1].stage = "queued"
    <3> DEFINE w == Bundle("persist", Shown(mem))
    <3>1. w \in Write /\ w.by = "persist" /\ w.cells = Shown(mem) /\ w.stage = "queued"
      BY <2>5, BundleFacts
    <3> HIDE DEF w
    <3>2. <<>> \in Seq(Write) /\ Len(<<>>) = 0
      OBVIOUS
    <3>3. Len(Append(<<>>, w)) = 1 /\ Append(<<>>, w)[1] = w /\ Append(<<>>, w) # <<>>
      BY <3>1
    <3> QED BY <2>3, <3>1, <3>3 DEF w
  <2>7. AgentLoop' /\ Warmth'
    BY <1>1, <1>2, <2>3, <2>4, <2>6 DEF AgentsTurn, AgentLoop, Warmth, Running
  <2>8. CacheHas => CacheHas'
    BY <1>1, <2>4 DEF CacheHas, Running
  <2>9. CacheHas /\ FileHas => FileHas'
    BY <1>1, <1>2, <2>3, <2>4, <2>6 DEF CacheHas, FileHas, Queued, Ended, Ok, NoFailure
  <2>10. CacheHas /\ Growing => Growing'
    BY <1>1, <1>2, <2>6 DEF CacheHas, Growing, Queued
  <2> QED BY <1>1, <2>7, <2>8, <2>9, <2>10 DEF AgentsTurn, NothingPutBack
<1>4. CASE ~(Ok /\ Changed(mem))
  <2>1. mem' = mem /\ writes' = <<>> /\ persisting' = 0
    BY <1>2, <1>4 DEF PersistEnds, Changed
  <2>2. AgentLoop' /\ Warmth'
    BY <1>1, <2>1 DEF AgentsTurn, AgentLoop, Warmth, Running
  <2>3. CacheHas => CacheHas'
    BY <1>1, <2>1 DEF CacheHas, Running
  <2>4. FileHas => FileHas'
    BY <1>1, <1>2, <1>4, <2>1 DEF FileHas, Queued, Ended, Ok, NoFailure
  <2>5. Growing => Growing'
    BY <1>1, <2>1 DEF Growing, Queued
  <2> QED BY <1>1, <2>2, <2>3, <2>4, <2>5 DEF AgentsTurn, NothingPutBack
<1> QED BY <1>3, <1>4

-----------------------------------------------------------------------------
(* While it is the page's turn *)

\* Dropping the cache of a notebook leaves nothing changed.
LEMMA DroppedNothing == Typed => Dropped(mem).cache = 0 /\ ~Changed(Dropped(mem))
BY DroppedFacts DEF Typed, Changed

\* The page takes over: it finds the file with every answered edit.
LEMMA TakeOver ==
    ASSUME Typed, AgentsTurn \/ PagesTurn, LoadPage \/ RegisterUI, InTurns'
    PROVE  PagesTurn'
<1>1. /\ AtRest /\ writes = <<>> /\ ~Changed(mem) /\ NoFailure /\ \A o \in Ops : ops[o] = None
      /\ warming.phase = "none" /\ persisting = 0 /\ past' = past
  BY DEF LoadPage, RegisterUI, AtRest, Changed, NoFailure, InTurn, InTurns
<1>2. page \in Page /\ (page.saving # "no" => page.shown # None)
  BY DEF Typed, PageFits
<1>3. NothingPutBack => /\ mem.cache # 0 => Shown(mem) = kept
                        /\ file.cells = kept
                        /\ page.shown # None =>
                              kept \subseteq page.shown /\ page.shown \subseteq kept \cup PageEdits
  BY <1>1 DEF AgentsTurn, CacheHas, FileHas, PagesTurn, PageHas, NoPage
<1>4. page.saving = "no"
  <2>1. CASE AgentsTurn
    BY <2>1 DEF AgentsTurn, NoPage
  <2>2. CASE PagesTurn /\ LoadPage
    BY <1>2, <2>2 DEF LoadPage
  <2>3. CASE PagesTurn /\ RegisterUI
    BY <2>3 DEF PagesTurn, Connected, RegisterUI
  <2> QED BY <2>1, <2>2, <2>3
<1>5. page.registered => mem.cache = 0
  BY DEF AgentsTurn, NoPage, PagesTurn, Connected
<1>6. CASE LoadPage
  <2>1. UNCHANGED <<file, mem, warming, ops, persisting, writes, kept, past>>
    BY <1>1, <1>6 DEF LoadPage, server
  <2>2. /\ page'.shown = file.cells /\ page'.saved = file.cells /\ page'.saving = page.saving
        /\ page'.registered = page.registered
    BY <1>2, <1>6 DEF LoadPage, Page
  <2>3. file.cells # None
    BY NoneAssumption DEF Typed, FileFits
  <2>4. Rest'
    BY <1>1, <1>4, <2>1, <2>2 DEF Rest, Changed, NoFailure
  <2>5. Connected'
    BY <1>4, <1>5, <2>1, <2>2, <2>3 DEF Connected
  <2>6. NothingPutBack' => PageHas'
    BY <1>1, <1>3, <2>1, <2>2 DEF PageHas, NothingPutBack
  <2> QED BY <2>4, <2>5, <2>6 DEF PagesTurn
<1>7. CASE RegisterUI
  <2>1. UNCHANGED <<file, warming, ops, persisting, writes, kept, past>>
        /\ mem' = Dropped(mem)
    BY <1>1, <1>7 DEF RegisterUI
  <2>2. mem'.cache = 0 /\ ~Changed(mem')
    BY <2>1, DroppedNothing
  <2>3. page'.shown = page.shown /\ page'.saved = page.saved /\ page'.saving = page.saving
        /\ page'.registered
    <3>1. ASSUME NEW f, f \in BOOLEAN
          PROVE  /\ [page EXCEPT !.registered = f].shown = page.shown
                 /\ [page EXCEPT !.registered = f].saved = page.saved
                 /\ [page EXCEPT !.registered = f].saving = page.saving
                 /\ [page EXCEPT !.registered = f].registered = f
      BY <1>2, <3>1 DEF Page
    <3> QED BY <1>7, <3>1, Zenon DEF RegisterUI
  <2>4. Rest'
    BY <1>1, <1>4, <2>1, <2>2, <2>3 DEF Rest, NoFailure
  <2>5. Connected'
    BY <2>2, <2>3 DEF Connected
  <2>6. NothingPutBack' => PageHas'
    BY <1>1, <1>3, <2>1, <2>2, <2>3 DEF PageHas, NothingPutBack
  <2> QED BY <2>4, <2>5, <2>6 DEF PagesTurn
<1> QED BY <1>6, <1>7

\* The page goes away: the file still has every answered edit.
LEMMA HandBack ==
    ASSUME Typed, PagesTurn, ClosePage, InTurns'
    PROVE  AgentsTurn'
<1>1. /\ writes = <<>> /\ ~Changed(mem) /\ NoFailure /\ \A o \in Ops : ops[o] = None
      /\ warming.phase = "none" /\ persisting = 0
      /\ page' = NoPage /\ UNCHANGED <<file, warming, ops, persisting, kept, past>>
  BY DEF ClosePage, AtRest, Changed, NoFailure, InTurn, InTurns
<1>2. writes' = <<>>
  <2>1. writes' \in Seq(Write) /\ Len(writes') = Len(writes)
    BY CloseFacts DEF Queue
  <2> QED BY <1>1, <2>1, EmptySeq
<1>3. ~Changed(mem') /\ (mem'.cache # 0 => mem' = mem)
  BY <1>1, DroppedNothing DEF ClosePage
<1>4. AgentLoop' /\ Warmth'
  BY <1>1, <1>2 DEF AgentLoop, Warmth, Running, NoFailure
<1>5. NothingPutBack' => CacheHas' /\ FileHas' /\ Growing'
  <2> SUFFICES ASSUME NothingPutBack' PROVE CacheHas' /\ FileHas' /\ Growing'
    OBVIOUS
  <2>1. file.cells = kept /\ (mem.cache # 0 => Shown(mem) = kept)
    BY <1>1 DEF PagesTurn, PageHas, NothingPutBack
  <2> QED BY <1>1, <1>2, <1>3, <2>1
          DEF CacheHas, FileHas, Growing, Running, Queued, Ended, NoFailure
<1> QED BY <1>1, <1>4, <1>5 DEF AgentsTurn

\* What the page does keeps what was answered.
LEMMA PageTurn ==
    ASSUME Typed, PagesTurn, InTurns',
           CheckMtime \/ SendSave \/ \E e \in PageEdits : EditPage(e)
    PROVE  PagesTurn'
<1>1. page \in Page /\ (page.saving # "no" => page.shown # None)
      /\ page.shown \in Content \cup {None}
  BY DEF Typed, PageFits, Page
<1>2. /\ UNCHANGED <<file, mem, warming, ops, persisting, kept, past>>
      /\ page'.registered = page.registered /\ page'.saved = page.saved
  BY <1>1 DEF CheckMtime, SendSave, EditPage, server, told, Page, InTurn, InTurns
<1>3. page.registered
  <2>1. ASSUME NEW e \in PageEdits, EditPage(e) PROVE page.registered
    BY <2>1 DEF EditPage, InTurn, InTurns
  <2>2. CASE CheckMtime \/ SendSave
    BY <2>2 DEF CheckMtime, SendSave, PagesTurn, Connected
  <2> QED BY <2>1, <2>2
<1>4. CASE CheckMtime
  <2>1. /\ page'.shown = page.shown /\ page.saving = "no" /\ page'.saving = "checked"
        /\ writes' = writes
    BY <1>1, <1>4 DEF CheckMtime, Page, server
  <2>2. Rest'
    BY <1>2, <2>1 DEF PagesTurn, Rest, NoFailure
  <2>3. Connected'
    BY <1>2, <1>3, <2>1 DEF PagesTurn, Connected
  <2>4. NothingPutBack' => PageHas'
    BY <1>2, <2>1 DEF PagesTurn, PageHas, NothingPutBack, Ok
  <2> QED BY <2>2, <2>3, <2>4 DEF PagesTurn
<1>5. CASE SendSave
  <2>1. /\ page'.shown = page.shown /\ page.saving = "checked" /\ page'.saving = "sent"
        /\ writes' = Append(writes, Bundle("page", page.shown))
    BY <1>1, <1>5 DEF SendSave, Page
  <2>2. writes = <<>> /\ page.shown \in SUBSET Edits
    BY <1>1, <2>1 DEF PagesTurn, Rest, Content
  <2>3. /\ writes' # <<>> /\ Len(writes') = 1 /\ writes'[1].by = "page"
        /\ writes'[1].cells = page.shown /\ writes'[1].stage = "queued"
    BY <2>1, <2>2, OneWrite, BundleFacts
  <2>4. Rest'
    BY <1>2, <2>1, <2>3 DEF PagesTurn, Rest, NoFailure
  <2>5. Connected'
    BY <1>2, <1>3, <2>1 DEF PagesTurn, Connected
  <2>6. NothingPutBack' => PageHas'
    BY <1>1, <1>2, <2>1, <2>2, <2>3 DEF PagesTurn, PageHas, NothingPutBack, Ok
  <2> QED BY <2>4, <2>5, <2>6 DEF PagesTurn
<1>6. ASSUME NEW e \in PageEdits, EditPage(e) PROVE PagesTurn'
  <2>1. /\ page.shown # None /\ page'.shown = page.shown \cup {e}
        /\ page'.saving = page.saving /\ writes' = writes
    BY <1>1, <1>6 DEF EditPage, Page, server
  <2>2. page'.shown # None
    BY <1>1, <2>1, NoneAssumption DEF Content, Edits
  <2>3. Rest'
    BY <1>2, <2>1 DEF PagesTurn, Rest, NoFailure
  <2>4. Connected'
    BY <1>2, <1>3, <2>1 DEF PagesTurn, Connected
  <2>5. NothingPutBack' => PageHas'
    BY <1>2, <2>1 DEF PagesTurn, PageHas, NothingPutBack, Ok
  <2> QED BY <2>3, <2>4, <2>5 DEF PagesTurn
<1> QED BY <1>4, <1>5, <1>6

\* The page's save is decided, and answered.
LEMMA SaveTurn ==
    ASSUME Typed, PagesTurn, PageSaveEnds \/ \E ok \in BOOLEAN : WriteFile(ok)
    PROVE  PagesTurn'
<1>1. writes # <<>> /\ Len(writes) = 1 /\ writes[1].by = "page" /\ page.saving = "sent"
  BY DEF PagesTurn, Rest, PageSaveEnds, WriteFile, Ended
<1>2. page \in Page /\ page.shown # None /\ page.registered /\ mem.cache = 0
  BY <1>1 DEF Typed, PageFits, PagesTurn, Connected
<1>3. ASSUME NEW ok \in BOOLEAN, WriteFile(ok) PROVE PagesTurn'
  <2>1. /\ Len(writes') = 1 /\ writes' \in Seq(Write)
        /\ writes'[1].cells = writes[1].cells /\ writes'[1].by = "page"
        /\ writes'[1].stage = (IF ok THEN "written" ELSE "failed")
    BY <1>1, <1>3, WriteFacts DEF Queue
  <2>2. writes' # <<>>
    <3>1. (writes' = <<>>) <=> (Len(writes') = 0)
      BY <2>1, EmptySeq, Zenon
    <3> QED BY <2>1, <3>1
  <2>3. /\ writes[1].stage = "queued" /\ past' = past
        /\ UNCHANGED <<mem, warming, ops, persisting, page, kept>>
        /\ file'.cells = IF ok THEN writes[1].cells ELSE file.cells
    BY <1>1, <1>3 DEF WriteFile
  <2>4. Rest'
    BY <1>1, <2>1, <2>2, <2>3 DEF PagesTurn, Rest, NoFailure
  <2>5. Connected'
    BY <2>3 DEF PagesTurn, Connected
  <2>6. NothingPutBack' => PageHas'
    BY <1>1, <2>1, <2>2, <2>3 DEF PagesTurn, PageHas, NothingPutBack, Ok
  <2> QED BY <2>4, <2>5, <2>6 DEF PagesTurn
<1>4. CASE PageSaveEnds
  <2>1. /\ writes' = <<>> /\ UNCHANGED <<file, warming, ops, persisting, past>>
        /\ mem' = IF Ok THEN Dropped(mem) ELSE mem
        /\ kept' = IF Ok THEN kept \cup (writes[1].cells \cap PageEdits) ELSE kept
    BY <1>1, <1>4, OneWrite DEF PageSaveEnds
  <2>2. mem'.cache = 0 /\ ~Changed(mem')
    BY <1>2, <2>1, DroppedNothing DEF Changed
  <2>3. page'.shown = page.shown /\ page'.registered = page.registered /\ page'.saving = "no"
    <3>1. CASE Ok
      <4>1. page' = [page EXCEPT !.saving = "no", !.saved = writes[1].cells,
                                 !.mtime = writes[1].mtime]
        BY <1>1, <1>4, <3>1 DEF PageSaveEnds
      <4> QED BY <1>2, <4>1 DEF Page
    <3>2. CASE ~Ok
      <4>1. page' = [page EXCEPT !.saving = "no", !.saved = @, !.mtime = @]
        BY <1>1, <1>4, <3>2 DEF PageSaveEnds
      <4> QED BY <1>2, <4>1 DEF Page
    <3> QED BY <3>1, <3>2
  <2>4. Rest'
    BY <2>1, <2>2, <2>3 DEF PagesTurn, Rest, NoFailure
  <2>5. Connected'
    BY <1>2, <2>2, <2>3 DEF Connected
  <2>6. NothingPutBack' => PageHas'
    <3> SUFFICES ASSUME NothingPutBack' PROVE PageHas'
      OBVIOUS
    <3>1. PageHas
      BY <2>1 DEF PagesTurn, NothingPutBack
    <3>2. CASE Ok
      <4>1. kept' = writes[1].cells /\ file'.cells = writes[1].cells
        BY <1>1, <1>2, <2>1, <3>1, <3>2 DEF PageHas
      <4> QED BY <1>1, <1>2, <2>1, <2>2, <2>3, <3>1, <4>1 DEF PageHas
    <3>3. CASE ~Ok
      BY <2>1, <2>2, <2>3, <3>1, <3>3 DEF PageHas
    <3> QED BY <3>2, <3>3
  <2> QED BY <2>4, <2>5, <2>6 DEF PagesTurn
<1> QED BY <1>3, <1>4

-----------------------------------------------------------------------------
(* Theorems *)

\* At first nothing is answered and nothing is there.
LEMMA InitInv == Init => IInv
<1> SUFFICES ASSUME Init PROVE AgentsTurn
  BY InitTyped DEF IInv
<1>1. /\ mem.cache = 0 /\ file.cells = {} /\ warming.phase = "none" /\ persisting = 0
      /\ writes = <<>> /\ page = NoPage /\ kept = {} /\ past = {}
      /\ \A o \in Ops : ops[o] = None
  BY DEF Init, NoWarming
<1>2. AgentLoop /\ Warmth
  BY <1>1 DEF AgentLoop, Warmth, Running
<1>3. CacheHas /\ FileHas /\ Growing
  BY <1>1 DEF CacheHas, FileHas, Growing, Running, Queued, Changed, Ended
<1> QED BY <1>1, <1>2, <1>3 DEF AgentsTurn

\* An overlap stays on record.
LEMMA OverlapStays ==
    ASSUME [Next]_vars, InTurns'
    PROVE  InTurns
<1>1. past \subseteq past'
  BY DEF Next, vars, server, told, Warm, WarmRead, WarmInstall, WarmEnd, Persist, WriteFile,
         PersistEnds, PageSaveEnds, PageStep, LoadPage, RegisterUI, CheckMtime, SendSave,
         ClosePage, EditPage, Apply, ReadCell, StartRun, EditCells, UndoEdit, Run, RunOutputs,
         RunAnswered, RunEnds, RunTimesOut, StartOp, OutputOf, InTurn
<1> QED BY <1>1 DEF InTurns

\* Page and agents take turns, and each leaves the other the file it expects.
LEMMA StepInv == IInv /\ [Next]_vars => IInv'
<1> SUFFICES ASSUME IInv, [Next]_vars, InTurns' PROVE (AgentsTurn \/ PagesTurn)'
  BY StepTyped DEF IInv
<1>0. Typed /\ (AgentsTurn \/ PagesTurn)
  BY OverlapStays DEF IInv
<1>1. CASE UNCHANGED vars
  <2>1. /\ UNCHANGED <<file, mem, warming, ops, persisting, writes, page, kept, past>>
    BY <1>1 DEF vars, server, told
  <2>2. AgentsTurn => AgentsTurn'
    BY <2>1 DEF AgentsTurn, AgentLoop, Warmth, CacheHas, FileHas, Growing, Running, Queued,
                Ended, Ok, NoFailure, NothingPutBack
  <2>3. PagesTurn => PagesTurn'
    BY <2>1 DEF PagesTurn, Rest, Connected, PageHas, Ok, NoFailure, NothingPutBack
  <2> QED BY <1>0, <2>2, <2>3
<1>2. CASE AgentsTurn
  <2>1. page.shown = None /\ ~page.registered /\ page.saving = "no" /\ page = NoPage
    BY <1>2 DEF AgentsTurn, NoPage
  <2>2. ~CheckMtime /\ ~SendSave /\ ~ClosePage /\ \A e \in PageEdits : ~EditPage(e)
    BY <2>1 DEF CheckMtime, SendSave, ClosePage, EditPage
  <2>3. ~PageSaveEnds
    BY <1>2 DEF AgentsTurn, AgentLoop, PageSaveEnds, Ended
  <2>4. Warm \/ PersistEnds \/ (\E ok \in BOOLEAN : WriteFile(ok)) => AgentsTurn'
    BY <1>0, <1>2, WarmTurn, PersistTurn, WriteTurn
  <2>5. ASSUME NEW o \in Ops, Apply(o) \/ Run(o) \/ \E kind \in Kinds : StartOp(o, kind)
        PROVE  AgentsTurn'
    BY <1>0, <1>2, <2>5, EditTurn, UndoTurn, FoundTurn, RunTurn, StartTurn DEF Apply
  <2>6. LoadPage \/ RegisterUI => PagesTurn'
    BY <1>0, <1>2, TakeOver
  <2> QED BY <1>1, <2>2, <2>3, <2>4, <2>5, <2>6 DEF Next, Persist, PageStep
<1>3. CASE PagesTurn
  <2>1. \A o \in Ops : ops[o] = None
    BY <1>3 DEF PagesTurn, Rest
  <2>2. \A o \in Ops : ~Apply(o) /\ ~Run(o)
    BY <2>1 DEF Apply, ReadCell, StartRun, EditCells, UndoEdit, Turn,
                Run, RunOutputs, RunAnswered, RunEnds, RunTimesOut, Runs
  <2>3. \A o \in Ops : \A kind \in Kinds : ~StartOp(o, kind)
    BY <1>3 DEF PagesTurn, Connected, StartOp, InTurn, InTurns
  <2>4. ~Warm /\ ~PersistEnds
    BY <1>3 DEF PagesTurn, Rest, Warm, WarmRead, WarmInstall, WarmEnd, PersistEnds, Ended
  <2>5. PageSaveEnds \/ (\E ok \in BOOLEAN : WriteFile(ok)) => PagesTurn'
    BY <1>0, <1>3, SaveTurn
  <2>6. LoadPage \/ RegisterUI => PagesTurn'
    BY <1>0, <1>3, TakeOver
  <2>7. ClosePage => AgentsTurn'
    BY <1>0, <1>3, HandBack
  <2>8. CheckMtime \/ SendSave \/ (\E e \in PageEdits : EditPage(e)) => PagesTurn'
    BY <1>0, <1>3, PageTurn
  <2> QED BY <1>1, <2>2, <2>3, <2>4, <2>5, <2>6, <2>7, <2>8 DEF Next, Persist, PageStep
<1> QED BY <1>0, <1>2, <1>3

\* The invariant holds in every state: while page and agents take turns, the edits
\* are where the one whose turn it is will find them.
THEOREM Invariance == Spec => []IInv
<1>1. IInv /\ [Next]_vars => IInv'
  BY StepInv
<1> QED BY <1>1, InitInv, PTL DEF Spec

\* The invariant says where an answered edit is.
LEMMA WhereEditsAre ==
    ASSUME IInv
    PROVE  AnswersAreNewest /\ CacheIsTruth /\ EditsInFile
<1> SUFFICES ASSUME InTurns PROVE AnswersAreNewest /\ CacheIsTruth /\ EditsInFile
  BY DEF AnswersAreNewest, CacheIsTruth, EditsInFile
<1>0. Typed /\ (AgentsTurn \/ PagesTurn)
  BY DEF IInv
<1>1. CacheIsTruth
  BY <1>0 DEF CacheIsTruth, AgentsTurn, PagesTurn, CacheHas, PageHas, Shown
<1>2. writes # <<>> => Len(writes) = 1
  BY <1>0 DEF AgentsTurn, AgentLoop, PagesTurn, Rest
<1>3. (\E i \in 1..Len(writes) : writes[i].stage = "queued") <=> Queued
  <2>1. writes = <<>> => 1..Len(writes) = {}
    <3>1. writes \in Seq(Write) /\ Len(<<>>) = 0 /\ 1..0 = {}
      BY <1>0 DEF Typed, Queue
    <3> QED BY <3>1, Zenon
  <2>2. writes # <<>> => 1..Len(writes) = {1}
    <3>1. 1..1 = {1}
      OBVIOUS
    <3> QED BY <1>2, <3>1, Zenon
  <2> QED BY <2>1, <2>2 DEF Queued
<1>4. EditsInFile
  BY <1>0 DEF EditsInFile, AgentsTurn, PagesTurn, CacheHas, FileHas, PageHas, NoFailure
<1>5. AnswersAreNewest
  <2> SUFFICES ASSUME NothingPutBack, NoFailure
               PROVE  kept \subseteq Newest /\ Newest \subseteq kept \cup PageEdits
    BY DEF AnswersAreNewest
  <2>1. CASE AgentsTurn
    <3>1. AgentLoop /\ CacheHas /\ FileHas
      BY <2>1 DEF AgentsTurn
    <3>2. persisting # 0 => persisting = mem.cache /\ writes # <<>>
      BY <3>1 DEF AgentLoop
    <3>3. CASE Changed(mem)
      BY <3>1, <3>3 DEF Newest, Changed, CacheHas, Shown
    <3>4. CASE ~Changed(mem) /\ Queued
      <4>1. Newest = writes[1].cells
        BY <1>2, <1>3, <3>2, <3>4 DEF Newest, Changed, Queued
      <4> QED BY <3>1, <3>4, <4>1 DEF FileHas
    <3>5. CASE ~Changed(mem) /\ ~Queued
      <4>1. Newest = file.cells
        BY <1>3, <3>2, <3>5 DEF Newest, Changed
      <4>2. writes # <<>> => Ok
        BY <3>1, <3>5 DEF FileHas, Ended, Queued
      <4> QED BY <3>1, <3>5, <4>1, <4>2 DEF FileHas
    <3> QED BY <3>3, <3>4, <3>5
  <2>2. CASE PagesTurn
    <3>1. Rest /\ PageHas
      BY <2>2 DEF PagesTurn
    <3>2. CASE Queued
      <4>1. Newest = writes[1].cells /\ writes # <<>>
        BY <1>2, <1>3, <3>1, <3>2 DEF Newest, Changed, Queued, Rest
      <4>2. page.shown # None
        BY <1>0, <3>1, <4>1 DEF Rest, Typed, PageFits
      <4> QED BY <3>1, <4>1, <4>2 DEF PageHas
    <3>3. CASE ~Queued
      <4>1. Newest = file.cells
        BY <1>3, <3>1, <3>3 DEF Newest, Changed, Rest
      <4>2. writes # <<>> => page.shown # None
        BY <1>0, <3>1 DEF Rest, Typed, PageFits
      <4> QED BY <3>1, <4>1, <4>2 DEF PageHas
    <3> QED BY <3>2, <3>3
  <2> QED BY <1>0, <2>1, <2>2
<1> QED BY <1>1, <1>4, <1>5

\* While page and agents take turns, every edit that was answered, and none that
\* was undone, is in the version that is being written.
THEOREM AnswersAreKept == Spec => []AnswersAreNewest
<1>1. IInv => AnswersAreNewest
  BY WhereEditsAre
<1> QED BY <1>1, Invariance, PTL

\* While page and agents take turns, the cache shows agents what they were
\* answered, also after writes that failed.
THEOREM CacheTrue == Spec => []CacheIsTruth
<1>1. IInv => CacheIsTruth
  BY WhereEditsAre
<1> QED BY <1>1, Invariance, PTL

\* While page and agents take turns, the file has every answered edit when
\* nothing is under way.
THEOREM EditsReachFile == Spec => []EditsInFile
<1>1. IInv => EditsInFile
  BY WhereEditsAre
<1> QED BY <1>1, Invariance, PTL

\* While page and agents take turns, no write brings back an older version of
\* the file.
THEOREM NeverRewinds == Spec => FileNeverRewinds
<1>1. IInv /\ [Next]_vars => [KeptInFile]_vars
  <2> SUFFICES ASSUME IInv, [Next]_vars, "undone" \notin past', InTurns'
               PROVE  file.cells \subseteq file'.cells
    BY DEF KeptInFile, InTurns
  <2>0. AgentsTurn \/ PagesTurn
    BY OverlapStays DEF IInv
  <2>1. ASSUME NEW ok \in BOOLEAN, WriteFile(ok) PROVE file.cells \subseteq file'.cells
    <3>1. writes[1].stage = "queued" /\ writes # <<>>
          /\ file'.cells = IF ok THEN writes[1].cells ELSE file.cells
      BY <2>1 DEF WriteFile
    <3>2. "undone" \notin past /\ NothingPutBack
      BY <2>1 DEF WriteFile, NothingPutBack
    <3>3. file.cells \subseteq writes[1].cells
      BY <2>0, <3>1, <3>2 DEF AgentsTurn, Growing, Queued, PagesTurn, PageHas, Ok
    <3> QED BY <3>1, <3>3
  <2>2. CASE file' = file
    BY <2>2
  <2>3. (\E ok \in BOOLEAN : WriteFile(ok)) \/ file' = file
    BY DEF Next, vars, server, Warm, WarmRead, WarmInstall, WarmEnd, Persist, PersistEnds,
           PageSaveEnds, PageStep, LoadPage, RegisterUI, CheckMtime, SendSave, ClosePage, EditPage,
           Apply, ReadCell, StartRun, EditCells, UndoEdit, Run, RunOutputs, RunAnswered,
           RunEnds, RunTimesOut, StartOp
  <2> QED BY <2>1, <2>2, <2>3
<1> QED BY <1>1, Invariance, PTL DEF Spec, FileNeverRewinds

=============================================================================
